------------------------ MODULE DocumentPipelineProofs ------------------------
(***************************************************************************)
(* Proofs, for every value of the constants, of the safety properties of   *)
(* DocumentPipeline that hold however requests overlap and fail.           *)
(*                                                                         *)
(* Each part of the inductive invariant is kept by every step for a reason *)
(* of its own, so each has a lemma of its own; the theorems at the end put *)
(* them together.                                                          *)
(***************************************************************************)
EXTENDS DocumentPipeline, TLAPS

\* UNCHANGED history stands for its two variables everywhere below.
USE DEF history

-----------------------------------------------------------------------------
(* Type correctness.                                                       *)

\* A handler at work has a document, and a document with a row or a handler
\* has its columns: what makes the number of its chunks a number.
WorksOnDocument ==
    /\ \A d \in rows : columns[d] \in DocumentColumns
    /\ \A r \in Requests :
           Working(r) => /\ doc[r] \in Docs
                         /\ columns[doc[r]] \in DocumentColumns

TypeInv == TypeOK /\ WorksOnDocument

\* The routes answer with a number for every error of the services.
LEMMA StatusType ==
    ASSUME NEW error
    PROVE  /\ UploadStatus(error) \in Nat
           /\ ProcessStatus(error) \in Nat
           /\ EmbedStatus(error) \in Nat
BY DEF UploadStatus, ProcessStatus, EmbedStatus

\* What a commit makes of the row of a document is a row, whatever the
\* session had loaded, when each new value is legal or equal to the loaded
\* one (save_document_record).
LEMMA FlushedType ==
    ASSUME NEW row \in DocumentState, NEW old \in LoadedState,
           NEW new \in LoadedState,
           new.status \in Statuses \/ new.status = old.status,
           new.chunk_count \in Nat \/ new.chunk_count = old.chunk_count
    PROVE  Flushed(row, old, new) \in DocumentState
BY DEF Flushed, DocumentState, LoadedState

\* The same of the table, after the UPDATE of one document.
LEMMA FlushType ==
    ASSUME TypeOK, NEW r \in Requests, doc[r] \in Docs,
           NEW new \in LoadedState, Flush(r, new),
           new.status \in Statuses \/ new.status = loaded[r].status,
           new.chunk_count \in Nat \/ new.chunk_count = loaded[r].chunk_count
    PROVE  state' \in [Docs -> DocumentState]
<1>1. Flushed(state[doc[r]], loaded[r], new) \in DocumentState
  BY FlushedType DEF TypeOK
<1> QED
  BY <1>1 DEF Flush, TypeOK

\* Attributes that a rollback has expired still have a place in the session.
LEMMA ExpiredType == Expired \in LoadedState
BY DEF Expired, LoadedState

\* save_document_record with a new transitional status.
LEMMA MarkTransitionalType ==
    ASSUME TypeOK, NEW r \in Requests, doc[r] \in Docs,
           NEW status \in Statuses, NEW next, MarkTransitional(r, status, next)
    PROVE  state' \in [Docs -> DocumentState]
<1> DEFINE new == [loaded[r] EXCEPT !.status = status]
<1>1. loaded[r] \in LoadedState
  BY DEF TypeOK
<1>2. /\ new \in LoadedState
      /\ new.status = status
      /\ new.chunk_count = loaded[r].chunk_count
  BY <1>1 DEF LoadedState
<1>3. Flush(r, new)
  BY DEF MarkTransitional
<1> HIDE DEF new
<1> QED
  BY <1>2, <1>3, FlushType

\* The initial state, before any request, is well typed.
LEMMA InitTypeInv == Init => TypeInv
BY ConstantsAssumption
   DEF Init, TypeInv, TypeOK, WorksOnDocument, Working, Labels, WorkingLabels,
       UploadLabels, ProcessLabels, EmbedLabels, DocumentState, Statuses,
       DocumentChunks, NoChunks, LoadedState, Expired

\* Every step keeps the types; the two places where it is not plain are the
\* UPDATEs (FlushedType) and the count of chunks (WorksOnDocument).
LEMMA NextTypeInv == TypeInv /\ [Next]_vars => TypeInv'
<1> SUFFICES ASSUME TypeInv, [Next]_vars PROVE TypeInv'
  OBVIOUS
<1> USE DEF TypeInv, TypeOK, WorksOnDocument, Working, Labels, WorkingLabels,
            UploadLabels, ProcessLabels, EmbedLabels
<1>1. CASE UNCHANGED vars
  BY <1>1 DEF vars
<1>2. ASSUME NEW r \in Requests, Arrive(r)
      PROVE  TypeInv'
  <2>1. PICK u \in Users, k \in KBs :
            \/ \E c \in Contents, valid \in BOOLEAN :
                   UploadRejected(r, u, k, c, valid)
            \/ \E c \in Contents, d \in Docs : UploadAccepted(r, u, k, c, d)
            \/ \E d \in Docs : \/ ProcessRejected(r, u, k, d)
                               \/ ProcessAccepted(r, u, k, d)
                               \/ EmbedRejected(r, u, k, d)
                               \/ EmbedAccepted(r, u, k, d)
    BY <1>2 DEF Arrive
  <2>2. ASSUME NEW c \in Contents, NEW valid \in BOOLEAN,
               UploadRejected(r, u, k, c, valid)
        PROVE  TypeInv'
    BY <2>2, StatusType DEF UploadRejected, Answer, database
  <2>3. ASSUME NEW c \in Contents, NEW d \in Docs,
               UploadAccepted(r, u, k, c, d)
        PROVE  TypeInv'
    BY <2>3, ConstantsAssumption DEF UploadAccepted, Goto, DocumentColumns
  <2>4. ASSUME NEW d \in Docs,
               ProcessRejected(r, u, k, d) \/ EmbedRejected(r, u, k, d)
        PROVE  TypeInv'
    BY <2>4, StatusType DEF ProcessRejected, EmbedRejected, Answer, database
  <2>5. ASSUME NEW d \in Docs,
               ProcessAccepted(r, u, k, d) \/ EmbedAccepted(r, u, k, d)
        PROVE  TypeInv'
    <3>1. /\ d \in rows
          /\ Admit(r, u, d, "markProcessing") \/ Admit(r, u, d, "listChunks")
      BY <2>5 DEF ProcessAccepted, EmbedAccepted, EmbedChecks, ProcessChecks,
                  GetDocumentById
    <3>2. state[d] \in LoadedState
      BY DEF LoadedState, DocumentState
    <3> QED
      BY <3>1, <3>2 DEF Admit, Goto, database
  <2> QED
    BY <2>1, <2>2, <2>3, <2>4, <2>5
<1>3. ASSUME NEW r \in Requests, UploadStep(r)
      PROVE  TypeInv'
  <2>1. CASE StoreObject(r)
    BY <2>1 DEF StoreObject, Goto, database
  <2>2. CASE StoreObjectFails(r)
    BY <2>2, StatusType DEF StoreObjectFails, Answer, database
  <2>3. CASE InsertDocument(r)
    BY <2>3 DEF InsertDocument, Goto, DocumentState, Statuses
  <2>4. CASE UploadRefresh(r)
    BY <2>4, StatusType DEF UploadRefresh, Answer, database
  <2>5. CASE InsertFails(r)
    BY <2>5 DEF InsertFails, Fault, Goto, database
  <2>6. CASE Compensate(r)
    BY <2>6, StatusType DEF Compensate, Answer, database
  <2> QED
    BY <1>3, <2>1, <2>2, <2>3, <2>4, <2>5, <2>6 DEF UploadStep
<1>4. ASSUME NEW r \in Requests, ProcessStep(r)
      PROVE  TypeInv'
  <2>1. CASE MarkProcessing(r)
    <3>1. state' \in [Docs -> DocumentState]
      BY <2>1, MarkTransitionalType DEF MarkProcessing, Statuses
    <3> QED
      BY <2>1, <3>1 DEF MarkProcessing, MarkTransitional, Goto
  <2>2. CASE ProcessRefresh(r)
    BY <2>2 DEF ProcessRefresh, Refresh, Goto, database, LoadedState,
                DocumentState
  <2>3. CASE Extract(r) \/ ExtractFails(r) \/ ExtractRaises(r)
    BY <2>3, StatusType DEF Extract, ExtractFails, ExtractRaises, Goto, Answer,
                            database
  <2>4. CASE DeleteChunks(r)
    BY <2>4 DEF DeleteChunks, Goto, database, DocumentChunks
  <2>5. CASE InsertChunks(r)
    BY <2>5 DEF InsertChunks, Goto, DocumentChunks
  <2>6. CASE InsertChunksConflict(r) \/ ReplaceChunksFails(r)
    BY <2>6, ExpiredType
       DEF InsertChunksConflict, ReplaceChunksFails, RollbackAndFail, Fault,
           Goto, database
  <2>7. CASE MarkChunked(r)
    <3>1. Total(doc[r]) \in Nat
      BY <2>7, ConstantsAssumption DEF MarkChunked, Total, DocumentColumns
    <3>2. state' \in [Docs -> DocumentState]
      BY <2>7, <3>1, FlushType DEF MarkChunked, LoadedState, Statuses
    <3>3. /\ resp' \in [Requests -> Nat] /\ faulted' \in SUBSET Requests
          /\ overlapped' \in SUBSET Docs
      BY <2>7, StatusType DEF MarkChunked, Uncaught, Fault, Answer
    <3>4. pc' = [pc EXCEPT ![r] = "done"]
      BY <2>7 DEF MarkChunked, Uncaught, Answer
    <3> QED
      BY <2>7, <3>2, <3>3, <3>4 DEF MarkChunked
  <2>8. CASE MarkChunkedFails(r)
    BY <2>8 DEF MarkChunkedFails, Uncaught, Fault, Answer, database
  <2> QED
    BY <1>4, <2>1, <2>2, <2>3, <2>4, <2>5, <2>6, <2>7, <2>8 DEF ProcessStep
<1>5. ASSUME NEW r \in Requests, EmbedStep(r)
      PROVE  TypeInv'
  <2>1. CASE ListChunksRaises(r)
    BY <2>1, StatusType DEF ListChunksRaises, Answer, database
  <2>2. CASE ListChunks(r)
    <3>1. chunks[doc[r]].gen \in Requests \cup {NoRequest}
      BY <2>2 DEF ListChunks, DocumentChunks
    <3>2. /\ seen' \in [Requests -> Requests \cup {NoRequest}]
          /\ resp' \in [Requests -> Nat]
          /\ \/ pc' = [pc EXCEPT ![r] = "done"]
             \/ pc' = [pc EXCEPT ![r] = "markEmbedding"]
      BY <2>2, <3>1, StatusType DEF ListChunks, Goto, Answer
    <3> QED
      BY <2>2, <3>2 DEF ListChunks, database
  <2>3. CASE MarkEmbedding(r)
    <3>1. state' \in [Docs -> DocumentState]
      BY <2>3, MarkTransitionalType DEF MarkEmbedding, Statuses
    <3> QED
      BY <2>3, <3>1 DEF MarkEmbedding, MarkTransitional, Goto
  <2>4. CASE EmbedRefresh(r)
    BY <2>4 DEF EmbedRefresh, Refresh, Goto, database, LoadedState,
                DocumentState
  <2>5. CASE GenerateEmbeddings(r)
    BY <2>5 DEF GenerateEmbeddings, Goto, database
  <2>6. CASE SaveEmbeddings(r)
    <3>1. Total(doc[r]) \in Nat
      BY <2>6, ConstantsAssumption DEF SaveEmbeddings, Total, DocumentColumns
    <3>2. state' \in [Docs -> DocumentState]
      BY <2>6, <3>1, FlushType
         DEF SaveEmbeddings, Completed, LoadedState, Statuses
    <3>3. chunks' \in [Docs -> DocumentChunks]
      <4> DEFINE e == chunks[doc[r]].embedded \/ chunks[doc[r]].gen = seen[r]
      <4>1. doc[r] \in Docs
        BY <2>6 DEF SaveEmbeddings
      <4>2. chunks' = [chunks EXCEPT ![doc[r]] = [@ EXCEPT !.embedded = e]]
        BY <2>6 DEF SaveEmbeddings
      <4>3. e \in BOOLEAN
        OBVIOUS
      <4> HIDE DEF e
      <4> QED
        BY <4>1, <4>2, <4>3 DEF DocumentChunks
    <3> QED
      BY <2>6, <3>2, <3>3 DEF SaveEmbeddings, Goto
  <2>7. CASE SavedRefresh(r)
    BY <2>7, StatusType DEF SavedRefresh, Answer, database
  <2>8. CASE SaveEmbeddingsFails(r)
    BY <2>8, ExpiredType
       DEF SaveEmbeddingsFails, RollbackAndFail, Fault, Goto, database
  <2> QED
    BY <1>5, <2>1, <2>2, <2>3, <2>4, <2>5, <2>6, <2>7, <2>8 DEF EmbedStep
<1>6. ASSUME NEW r \in Requests, MarkTransitionalFails(r)
      PROVE  TypeInv'
  BY <1>6 DEF MarkTransitionalFails, Uncaught, Fault, Answer, database
<1>7. ASSUME NEW r \in Requests, MarkFailed(r)
      PROVE  TypeInv'
  <2>1. state' \in [Docs -> DocumentState]
    BY <1>7, FlushType DEF MarkFailed, LoadedState, Statuses
  <2> QED
    BY <1>7, <2>1, StatusType DEF MarkFailed, Answer
<1>8. ASSUME NEW r \in Requests, MarkFailedFails(r)
      PROVE  TypeInv'
  BY <1>8, StatusType DEF MarkFailedFails, Fault, Answer, database
<1>9. ASSUME NEW r \in Requests, Crash(r)
      PROVE  TypeInv'
  BY <1>9 DEF Crash, Fault, Answer, database
<1> QED
  BY <1>1, <1>2, <1>3, <1>4, <1>5, <1>6, <1>7, <1>8, <1>9
     DEF Next, Serve, Terminated

\* Every state the handlers reach is well typed, and in particular every
\* status and every count a commit writes is a legal one.
THEOREM TypeCorrect == Spec => []TypeOK
<1>1. TypeInv => TypeOK
  BY DEF TypeInv
<1> QED
  BY <1>1, InitTypeInv, NextTypeInv, PTL DEF Spec

-----------------------------------------------------------------------------
(* What a step of one handler leaves alone.                                *)

\* The part of the state that belongs to the other handlers.
OthersUnchanged(r) ==
    \A q \in Requests \ {r} :
        /\ pc'[q] = pc[q]
        /\ doc'[q] = doc[q]
        /\ user'[q] = user[q]
        /\ loaded'[q] = loaded[q]
        /\ seen'[q] = seen[q]
        /\ resp'[q] = resp[q]

\* A request that arrives only reads the tables: its effect is on its own
\* handler, and on the Document object of an upload.
LEMMA ArriveFrame ==
    ASSUME TypeInv, NEW r \in Requests, Arrive(r)
    PROVE  /\ pc[r] = "idle"
           /\ pc'[r] \in {"done", "store", "markProcessing", "listChunks"}
           /\ OthersUnchanged(r)
           /\ UNCHANGED <<rows, state, chunks, objects, faulted>>
<1> USE DEF TypeInv, TypeOK, OthersUnchanged, Goto, Answer, database
<1>1. PICK u \in Users, k \in KBs :
          \/ \E c \in Contents, valid \in BOOLEAN :
                 UploadRejected(r, u, k, c, valid)
          \/ \E c \in Contents, d \in Docs : UploadAccepted(r, u, k, c, d)
          \/ \E d \in Docs : \/ ProcessRejected(r, u, k, d)
                             \/ ProcessAccepted(r, u, k, d)
                             \/ EmbedRejected(r, u, k, d)
                             \/ EmbedAccepted(r, u, k, d)
  BY DEF Arrive
<1>2. CASE \E c \in Contents, valid \in BOOLEAN :
               UploadRejected(r, u, k, c, valid)
  BY <1>2 DEF UploadRejected
<1>3. CASE \E c \in Contents, d \in Docs : UploadAccepted(r, u, k, c, d)
  BY <1>3 DEF UploadAccepted
<1>4. CASE \E d \in Docs : ProcessRejected(r, u, k, d) \/ EmbedRejected(r, u, k, d)
  BY <1>4 DEF ProcessRejected, EmbedRejected
<1>5. CASE \E d \in Docs : ProcessAccepted(r, u, k, d) \/ EmbedAccepted(r, u, k, d)
  BY <1>5 DEF ProcessAccepted, EmbedAccepted, Admit
<1> QED
  BY <1>1, <1>2, <1>3, <1>4, <1>5

\* An upload draws a document nobody works on: the columns of the others stay.
LEMMA ArriveColumns ==
    ASSUME TypeInv, NEW r \in Requests, Arrive(r),
           NEW q \in Requests, doc[q] # NoDoc
    PROVE  columns'[doc[q]] = columns[doc[q]]
<1>1. doc[q] \in Docs
  BY DEF TypeInv, TypeOK
<1>2. ASSUME NEW u \in Users, NEW k \in KBs, NEW c \in Contents,
             NEW e \in Docs, UploadAccepted(r, u, k, c, e)
      PROVE  columns'[doc[q]] = columns[doc[q]]
  BY <1>1, <1>2 DEF UploadAccepted, TypeInv, TypeOK
<1>3. CASE columns' = columns
  BY <1>3
<1> QED
  BY <1>2, <1>3
     DEF Arrive, UploadRejected, ProcessRejected, ProcessAccepted,
         EmbedRejected, EmbedAccepted, Admit, database

\* A handler at work keeps its document and its caller, changes no other
\* handler's state and no other document's; it never goes back to wait for a
\* request.
LEMMA ServeFrame ==
    ASSUME TypeInv, NEW r \in Requests, Serve(r) \/ Crash(r)
    PROVE  /\ Working(r)
           /\ pc'[r] \in Labels \ {"idle"}
           /\ OthersUnchanged(r)
           /\ UNCHANGED <<columns, user, doc>>
           /\ faulted' \in {faulted, faulted \cup {r}}
           /\ UNCHANGED overlapped
           /\ \A d \in Docs \ {doc[r]} :
                  state'[d] = state[d] /\ chunks'[d] = chunks[d]
<1> USE DEF TypeInv, TypeOK, OthersUnchanged, Goto, Answer, database, Fault,
            Uncaught, Flush, Working, Labels, WorkingLabels, UploadLabels,
            ProcessLabels, EmbedLabels
<1>1. CASE UploadStep(r)
  BY <1>1 DEF UploadStep, StoreObject, StoreObjectFails, InsertDocument,
              UploadRefresh, InsertFails, Compensate
<1>2. CASE MarkProcessing(r) \/ MarkEmbedding(r) \/ ProcessRefresh(r) \/ EmbedRefresh(r)
  BY <1>2 DEF MarkProcessing, MarkEmbedding, ProcessRefresh, EmbedRefresh,
              MarkTransitional, Refresh
<1>3. CASE \/ Extract(r) \/ ExtractFails(r) \/ ExtractRaises(r)
           \/ DeleteChunks(r) \/ InsertChunks(r)
  BY <1>3 DEF Extract, ExtractFails, ExtractRaises, DeleteChunks, InsertChunks
<1>4. CASE InsertChunksConflict(r) \/ ReplaceChunksFails(r) \/ SaveEmbeddingsFails(r)
  BY <1>4 DEF InsertChunksConflict, ReplaceChunksFails, SaveEmbeddingsFails,
              RollbackAndFail
<1>5. CASE MarkChunked(r) \/ MarkChunkedFails(r) \/ MarkTransitionalFails(r)
  BY <1>5 DEF MarkChunked, MarkChunkedFails, MarkTransitionalFails
<1>6. CASE ListChunksRaises(r) \/ ListChunks(r)
  BY <1>6 DEF ListChunksRaises, ListChunks
<1>7. CASE GenerateEmbeddings(r) \/ SaveEmbeddings(r) \/ SavedRefresh(r)
  BY <1>7 DEF GenerateEmbeddings, SaveEmbeddings, SavedRefresh
<1>8. CASE MarkFailed(r) \/ MarkFailedFails(r) \/ Crash(r)
  BY <1>8 DEF MarkFailed, MarkFailedFails, Crash
<1> QED
  BY <1>1, <1>2, <1>3, <1>4, <1>5, <1>6, <1>7, <1>8
     DEF Serve, ProcessStep, EmbedStep

\* An UPDATE touches the status of the handler's document only, and writes it
\* exactly if it differs from the one the session had loaded.
LEMMA FlushStatus ==
    ASSUME TypeInv, NEW r \in Requests, doc[r] \in Docs, NEW new, Flush(r, new)
    PROVE  /\ \A d \in Docs \ {doc[r]} : state'[d] = state[d]
           /\ state'[doc[r]].status = IF new.status = loaded[r].status
                                      THEN state[doc[r]].status
                                      ELSE new.status
BY DEF TypeInv, TypeOK, Flush, Flushed

\* The same for the commit of "processing" or "embedding".
LEMMA MarkTransitionalStatus ==
    ASSUME TypeInv, NEW r \in Requests, doc[r] \in Docs,
           NEW status, NEW next, MarkTransitional(r, status, next)
    PROVE  /\ \A d \in Docs \ {doc[r]} : state'[d] = state[d]
           /\ state'[doc[r]].status \in {state[doc[r]].status, status}
<1> DEFINE new == [loaded[r] EXCEPT !.status = status]
<1>1. new.status = status
  BY DEF TypeInv, TypeOK, LoadedState
<1>2. Flush(r, new)
  BY DEF MarkTransitional
<1> HIDE DEF new
<1> QED
  BY <1>1, <1>2, FlushStatus

-----------------------------------------------------------------------------
(* The status never runs ahead of the chunks.                              *)

\* A handler about to write, or holding, one of those statuses has chunk rows
\* behind it: it inserted them or has listed them.
ChunksStored ==
    \A r \in Requests :
        pc[r] \in {"markChunked", "markEmbedding", "embedRefresh", "generate",
                  "saveEmbeddings", "savedRefresh"} =>
            chunks[doc[r]].gen # NoRequest

ChunksInv == ChunkedHasChunks /\ ChunksStored

HasChunks == {"chunked", "embedding", "completed"}

\* Why a step of r keeps ChunksInv: chunk rows are replaced, never left out;
\* r gets to those labels only with chunks, and writes those statuses only
\* with chunks.
LEMMA ChunksKept ==
    ASSUME TypeInv, ChunksInv, NEW r \in Requests, OthersUnchanged(r),
           \A d \in Docs :
               chunks[d].gen # NoRequest => chunks'[d].gen # NoRequest,
           pc'[r] \in {"markChunked", "markEmbedding", "embedRefresh",
                      "generate", "saveEmbeddings", "savedRefresh"} =>
               chunks'[doc'[r]].gen # NoRequest,
           \A d \in Docs :
               state'[d].status \in HasChunks =>
                   state[d].status \in HasChunks \/ chunks'[d].gen # NoRequest
    PROVE  ChunksInv'
<1>1. ChunkedHasChunks'
  BY DEF ChunksInv, ChunkedHasChunks, HasChunks
<1>2. ChunksStored'
  BY DEF ChunksInv, ChunksStored, OthersUnchanged, TypeInv, WorksOnDocument,
         Working, WorkingLabels, ProcessLabels, EmbedLabels
<1> QED
  BY <1>1, <1>2 DEF ChunksInv

\* Every step of every handler keeps ChunksInv.
LEMMA NextChunksInv == TypeInv /\ ChunksInv /\ [Next]_vars => ChunksInv'
<1> SUFFICES ASSUME TypeInv, ChunksInv, [Next]_vars PROVE ChunksInv'
  OBVIOUS
<1>1. CASE UNCHANGED vars
  BY <1>1 DEF vars, ChunksInv, ChunkedHasChunks, ChunksStored
<1>2. ASSUME NEW r \in Requests, Arrive(r)
      PROVE  ChunksInv'
  BY <1>2, ArriveFrame, ChunksKept
<1>3. ASSUME NEW r \in Requests, Serve(r) \/ Crash(r)
      PROVE  ChunksInv'
  <2>1. /\ OthersUnchanged(r)
        /\ doc' = doc
        /\ doc[r] \in Docs
    BY <1>3, ServeFrame DEF TypeInv, WorksOnDocument
  <2> USE DEF Goto, Answer, Uncaught, database, TypeInv, TypeOK
  <2>2. CASE UploadStep(r)
    <3>1. /\ pc'[r] \in UploadLabels \cup {"done"}
          /\ chunks' = chunks
      BY <2>2 DEF UploadStep, StoreObject, StoreObjectFails, InsertDocument,
                  UploadRefresh, InsertFails, Compensate, UploadLabels
    <3>2. \A d \in Docs :
              state'[d] = state[d] \/ state'[d].status = "pending"
      BY <2>1, <2>2
         DEF UploadStep, StoreObject, StoreObjectFails, InsertDocument,
             UploadRefresh, InsertFails, Compensate
    <3> QED
      BY <2>1, <3>1, <3>2, ChunksKept DEF UploadLabels, HasChunks
  <2>3. CASE MarkProcessing(r)
    <3>1. \A d \in Docs :
              state'[d].status \in {state[d].status, "processing"}
      BY <2>1, <2>3, MarkTransitionalStatus DEF MarkProcessing
    <3> QED
      BY <2>1, <2>3, <3>1, ChunksKept
         DEF MarkProcessing, MarkTransitional, HasChunks
  <2>4. CASE MarkEmbedding(r)
    <3>1. \A d \in Docs \ {doc[r]} : state'[d] = state[d]
      BY <2>1, <2>4, MarkTransitionalStatus DEF MarkEmbedding
    <3>2. chunks[doc[r]].gen # NoRequest
      BY <2>4 DEF MarkEmbedding, ChunksInv, ChunksStored
    <3> QED
      BY <2>1, <2>4, <3>1, <3>2, ChunksKept
         DEF MarkEmbedding, MarkTransitional
  <2>5. CASE InsertChunks(r)
    BY <2>1, <2>5, ChunksKept, ConstantsAssumption DEF InsertChunks
  <2>6. CASE MarkChunked(r)
    <3>1. \A d \in Docs \ {doc[r]} : state'[d] = state[d]
      BY <2>1, <2>6, FlushStatus DEF MarkChunked
    <3>2. chunks[doc[r]].gen # NoRequest
      BY <2>6 DEF MarkChunked, ChunksInv, ChunksStored
    <3> QED
      BY <2>1, <2>6, <3>1, <3>2, ChunksKept DEF MarkChunked
  <2>7. CASE SaveEmbeddings(r)
    <3>1. \A d \in Docs \ {doc[r]} : state'[d] = state[d]
      BY <2>1, <2>7, FlushStatus DEF SaveEmbeddings
    <3>2. chunks[doc[r]].gen # NoRequest
      BY <2>7 DEF SaveEmbeddings, ChunksInv, ChunksStored
    <3>3. \A d \in Docs : chunks'[d].gen = chunks[d].gen
      BY <2>1, <2>7 DEF SaveEmbeddings, DocumentChunks
    <3> QED
      BY <2>1, <2>7, <3>1, <3>2, <3>3, ChunksKept DEF SaveEmbeddings
  <2>8. CASE MarkFailed(r)
    <3>1. \A d \in Docs : state'[d].status \in {state[d].status, "failed"}
      BY <2>1, <2>8, FlushStatus DEF MarkFailed
    <3> QED
      BY <2>1, <2>8, <3>1, ChunksKept DEF MarkFailed, HasChunks
  <2>9. CASE ListChunks(r)
    BY <2>1, <2>9, ChunksKept DEF ListChunks
  <2>10. CASE EmbedRefresh(r) \/ GenerateEmbeddings(r)
    BY <2>1, <2>10, ChunksKept
       DEF EmbedRefresh, Refresh, GenerateEmbeddings, ChunksInv, ChunksStored
  <2>11. CASE ProcessRefresh(r) \/ Extract(r) \/ ExtractFails(r) \/ DeleteChunks(r)
    BY <2>1, <2>11, ChunksKept
       DEF ProcessRefresh, Refresh, Extract, ExtractFails, DeleteChunks
  <2>12. CASE \/ InsertChunksConflict(r) \/ ReplaceChunksFails(r)
              \/ SaveEmbeddingsFails(r)
    BY <2>1, <2>12, ChunksKept
       DEF InsertChunksConflict, ReplaceChunksFails, SaveEmbeddingsFails,
           RollbackAndFail
  <2>13. CASE \/ MarkChunkedFails(r) \/ MarkTransitionalFails(r)
              \/ MarkFailedFails(r) \/ Crash(r) \/ SavedRefresh(r)
              \/ ListChunksRaises(r) \/ ExtractRaises(r)
    BY <2>1, <2>13, ChunksKept
       DEF MarkChunkedFails, MarkTransitionalFails, MarkFailedFails, Crash,
           SavedRefresh, ListChunksRaises, ExtractRaises
  <2> QED
    BY <1>3, <2>2, <2>3, <2>4, <2>5, <2>6, <2>7, <2>8, <2>9, <2>10, <2>11,
       <2>12, <2>13
       DEF Serve, ProcessStep, EmbedStep
<1> QED
  BY <1>1, <1>2, <1>3 DEF Next, Terminated

\* A document shown as chunked, embedding or completed has chunk rows, however
\* process and embed requests interleave and wherever they fail.
THEOREM StatusNeverAhead == Spec => []ChunkedHasChunks
<1>1. Init => ChunksInv
  BY DEF Init, ChunksInv, ChunkedHasChunks, ChunksStored
<1>2. ChunksInv => ChunkedHasChunks
  BY DEF ChunksInv
<1> QED
  BY <1>1, <1>2, InitTypeInv, NextTypeInv, NextChunksInv, PTL DEF Spec

-----------------------------------------------------------------------------
(* Transitional statuses are attended.                                     *)

\* The handler r will bring document d out of its transitional status unless
\* an error escapes from it: it is about to load the status, or it has loaded
\* one its next UPDATE differs from, so that the unit of work will write it.
Attends(r, d) ==
    /\ doc[r] = d
    /\ \/ r \in faulted
       \/ pc[r] = "done" /\ resp[r] = 500 /\ ParserRaises(d)
       \/ pc[r] \in {"processRefresh", "embedRefresh"}
       \/ /\ pc[r] \in {"extract", "deleteChunks", "insertChunks",
                        "markChunked", "generate", "saveEmbeddings",
                        "markFailed"}
          /\ loaded[r].status \in Transitional \cup {"expired"}

AttendInv ==
    /\ \A d \in Docs :
           state[d].status \in Transitional =>
               \E r \in Requests : Attends(r, d)
    /\ \A r \in faulted : pc[r] # "idle"

\* Why a step of r keeps AttendInv: a document that gets into a transitional
\* status is attended by r, and r does not walk away from one it attends.
LEMMA AttendKept ==
    ASSUME TypeInv, AttendInv, NEW r \in Requests, OthersUnchanged(r),
           pc'[r] # "idle",
           faulted' \in {faulted, faulted \cup {r}},
           \A q \in Requests :
               doc[q] # NoDoc => columns'[doc[q]] = columns[doc[q]],
           \A d \in Docs :
               state'[d].status \in Transitional =>
                   \/ Attends(r, d)'
                   \/ state[d].status \in Transitional /\ ~Attends(r, d)
    PROVE  AttendInv'
<1>1. \A r0 \in faulted' : pc'[r0] # "idle"
  BY DEF AttendInv, OthersUnchanged, TypeInv, TypeOK
<1>2. ASSUME NEW d \in Docs, state'[d].status \in Transitional
      PROVE  \E q \in Requests : Attends(q, d)'
  <2>1. CASE Attends(r, d)'
    BY <2>1
  <2>2. CASE state[d].status \in Transitional /\ ~Attends(r, d)
    <3>1. PICK q \in Requests : Attends(q, d)
      BY <2>2 DEF AttendInv
    <3>2. q # r
      BY <2>2, <3>1
    <3>3. columns'[d] = columns[d]
      BY <3>1, ConstantsAssumption DEF Attends
    <3>4. Attends(q, d)'
      BY <3>1, <3>2, <3>3 DEF Attends, OthersUnchanged, ParserRaises
    <3> QED
      BY <3>4
  <2> QED
    BY <1>2, <2>1, <2>2
<1> QED
  BY <1>1, <1>2 DEF AttendInv

\* Every step of every handler keeps AttendInv.
LEMMA NextAttendInv == TypeInv /\ AttendInv /\ [Next]_vars => AttendInv'
<1> SUFFICES ASSUME TypeInv, AttendInv, [Next]_vars PROVE AttendInv'
  OBVIOUS
<1>1. CASE UNCHANGED vars
  BY <1>1 DEF vars, AttendInv, Attends, ParserRaises
<1>2. ASSUME NEW r \in Requests, Arrive(r)
      PROVE  AttendInv'
  <2>1. \A d \in Docs : ~Attends(r, d)
    BY <1>2, ArriveFrame DEF Attends, AttendInv
  <2>2. \A q \in Requests : doc[q] # NoDoc => columns'[doc[q]] = columns[doc[q]]
    BY <1>2, ArriveColumns
  <2> QED
    BY <1>2, <2>1, <2>2, ArriveFrame, AttendKept
<1>3. ASSUME NEW r \in Requests, Serve(r) \/ Crash(r)
      PROVE  AttendInv'
  <2>1. /\ OthersUnchanged(r)
        /\ doc' = doc
        /\ columns' = columns
        /\ doc[r] \in Docs
        /\ pc[r] # "done"
        /\ pc'[r] # "idle"
        /\ faulted' \in {faulted, faulted \cup {r}}
    BY <1>3, ServeFrame DEF TypeInv, WorksOnDocument, Working, WorkingLabels,
                            UploadLabels, ProcessLabels, EmbedLabels
  <2>2. SUFFICES ASSUME state'[doc[r]].status \in Transitional,
                        ~Attends(r, doc[r])'
                 PROVE  /\ state[doc[r]].status \in Transitional
                        /\ ~Attends(r, doc[r])
    <3>1. ASSUME NEW d \in Docs, d # doc[r]
          PROVE  state'[d] = state[d] /\ ~Attends(r, d)
      BY <1>3, <3>1, ServeFrame DEF Attends
    <3> QED
      BY <2>1, <3>1, AttendKept
  <2>3. r \notin faulted' /\ r \notin faulted
    BY <2>1, <2>2 DEF Attends
  <2> USE DEF Goto, Answer, Uncaught, Fault, database, TypeInv, TypeOK
  <2>4. CASE UploadStep(r)
    <3>1. /\ pc[r] \in UploadLabels
          /\ state' = state \/ state'[doc[r]].status = "pending"
      BY <2>1, <2>4
         DEF UploadStep, StoreObject, StoreObjectFails, InsertDocument,
             UploadRefresh, InsertFails, Compensate, UploadLabels
    <3> QED
      BY <2>2, <2>3, <3>1 DEF Attends, Transitional, UploadLabels
  <2>5. CASE MarkProcessing(r) \/ MarkEmbedding(r)
    BY <2>1, <2>2, <2>5 DEF MarkProcessing, MarkEmbedding, MarkTransitional,
                            Attends
  <2>6. CASE ProcessRefresh(r) \/ EmbedRefresh(r)
    BY <2>1, <2>2, <2>6 DEF ProcessRefresh, EmbedRefresh, Refresh, Attends
  <2>7. CASE \/ Extract(r) \/ ExtractFails(r) \/ DeleteChunks(r)
             \/ InsertChunks(r) \/ GenerateEmbeddings(r)
    BY <2>1, <2>2, <2>3, <2>7
       DEF Extract, ExtractFails, DeleteChunks, InsertChunks,
           GenerateEmbeddings, Attends
  <2>8. CASE \/ InsertChunksConflict(r) \/ ReplaceChunksFails(r)
             \/ SaveEmbeddingsFails(r)
    BY <2>1, <2>2, <2>8
       DEF InsertChunksConflict, ReplaceChunksFails, SaveEmbeddingsFails,
           RollbackAndFail, Expired, Attends
  <2>9. CASE MarkChunked(r)
    BY <2>1, <2>2, <2>3, <2>9, FlushStatus
       DEF MarkChunked, Attends, Transitional
  <2>10. CASE SaveEmbeddings(r)
    BY <2>1, <2>2, <2>3, <2>10, FlushStatus
       DEF SaveEmbeddings, Completed, Attends, Transitional
  <2>11. CASE MarkFailed(r)
    BY <2>1, <2>2, <2>3, <2>11, FlushStatus
       DEF MarkFailed, Attends, Transitional
  <2>12. CASE ListChunks(r) \/ ListChunksRaises(r) \/ SavedRefresh(r)
    BY <2>2, <2>3, <2>12 DEF ListChunks, ListChunksRaises, SavedRefresh, Attends
  <2>13. CASE \/ MarkChunkedFails(r) \/ MarkTransitionalFails(r)
              \/ MarkFailedFails(r) \/ Crash(r)
    BY <2>3, <2>13 DEF MarkChunkedFails, MarkTransitionalFails,
                       MarkFailedFails, Crash
  <2>14. CASE ExtractRaises(r)
    BY <2>1, <2>2, <2>14 DEF ExtractRaises, ProcessStatus, ParserRaises, Attends
  <2> QED
    BY <1>3, <2>4, <2>5, <2>6, <2>7, <2>8, <2>9, <2>10, <2>11, <2>12, <2>13,
       <2>14
       DEF Serve, ProcessStep, EmbedStep
<1> QED
  BY <1>1, <1>2, <1>3 DEF Next, Terminated

\* A document in "processing" or "embedding" has a handler at work on it, or
\* one that a fault, or an exception of its file's parser, escaped from: no
\* interleaving of handlers strands it.
THEOREM NoneStranded == Spec => []TransitionalIsAttended
<1>1. Init => AttendInv
  BY DEF Init, AttendInv, Transitional
<1>2. AttendInv => TransitionalIsAttended
  BY ConstantsAssumption
     DEF AttendInv, Attends, TransitionalIsAttended, Escaped, Working,
         WorkingLabels, ProcessLabels, EmbedLabels
<1> QED
  BY <1>1, <1>2, InitTypeInv, NextTypeInv, NextAttendInv, PTL DEF Spec

-----------------------------------------------------------------------------
(* Uploads.                                                                *)

\* r is, or was, the upload that created its document.
Uploader(r) == pc[r] \in UploadLabels \/ resp[r] = 201

\* Until it is answered a request has no status, and before it is let in it
\* has neither a document nor a fault.
Unanswered ==
    /\ \A r \in Requests : /\ pc[r] # "done" => resp[r] = 0
                           /\ pc[r] = "idle" => doc[r] = NoDoc
    /\ \A r \in faulted : pc[r] # "idle"

\* Two uploads never share a document: uuid4() drew it once.
OneUploader ==
    \A r, q \in Requests :
        Uploader(r) /\ Uploader(q) /\ doc[r] = doc[q] => r = q

\* Object first, row second, compensation only after a fault.
UploadOrder ==
    \A r \in Requests :
        /\ pc[r] \in {"insert", "uploadRefresh"} => doc[r] \in objects
        /\ pc[r] = "uploadRefresh" => doc[r] \in rows
        /\ pc[r] \in {"store", "insert"} => doc[r] \notin rows
        /\ pc[r] = "compensate" => r \in faulted

\* A row or an object belongs to a document some request has drawn.
Drawn == \A d \in rows \cup objects : \E r \in Requests : doc[r] = d

UploadInv ==
    /\ Unanswered
    /\ OneUploader
    /\ UploadOrder
    /\ Drawn
    /\ AcknowledgedUploadIsStored
    /\ RowsAndObjectsAgree

\* upload_document_endpoint answers 201 for nothing but success.
LEMMA UploadAnswers ==
    /\ UploadStatus("ok") = 201
    /\ UploadStatus("ObjectStorageError") = 502
    /\ \A error : error # "ok" => UploadStatus(error) # 201
<1>1. UploadStatus("ok") = 201
  BY DEF UploadStatus
<1>2. UploadStatus("ObjectStorageError") = 502
  BY DEF UploadStatus
<1>3. ASSUME NEW error, error # "ok"
      PROVE  UploadStatus(error) \in {403, 404, 409, 422, 500, 502}
  BY <1>3 DEF UploadStatus
<1> QED
  BY <1>1, <1>2, <1>3

\* The other two endpoints never answer 201.
LEMMA OtherAnswers ==
    ASSUME NEW error
    PROVE  ProcessStatus(error) # 201 /\ EmbedStatus(error) # 201
<1>1. ProcessStatus(error) \in {200, 403, 404, 422, 500}
  BY DEF ProcessStatus
<1>2. EmbedStatus(error) \in {200, 403, 404, 422, 500}
  BY DEF EmbedStatus
<1> QED
  BY <1>1, <1>2

\* A handler that takes no step of an upload leaves rows and objects alone,
\* unless it is an upload that crashes.
LEMMA QuietFrame ==
    ASSUME TypeInv, UploadInv, NEW r \in Requests, Serve(r) \/ Crash(r),
           ~UploadStep(r)
    PROVE  /\ UNCHANGED <<rows, objects>>
           /\ pc'[r] \notin UploadLabels
           /\ pc[r] \in UploadLabels => r \in faulted'
           /\ resp'[r] # 201
           /\ pc'[r] # "done" => resp'[r] = 0
<1>1. Working(r) /\ resp[r] = 0
  BY ServeFrame DEF UploadInv, Unanswered, Working, WorkingLabels, UploadLabels,
                    ProcessLabels, EmbedLabels
<1> USE DEF TypeInv, TypeOK, Goto, Answer, database, Fault, Uncaught,
            UploadLabels
<1>2. CASE MarkProcessing(r) \/ MarkEmbedding(r) \/ ProcessRefresh(r) \/ EmbedRefresh(r)
  BY <1>1, <1>2 DEF MarkProcessing, MarkEmbedding, ProcessRefresh,
                    EmbedRefresh, MarkTransitional, Refresh
<1>3. CASE \/ Extract(r) \/ ExtractFails(r) \/ ExtractRaises(r)
           \/ DeleteChunks(r) \/ InsertChunks(r)
  BY <1>1, <1>3, OtherAnswers
     DEF Extract, ExtractFails, ExtractRaises, DeleteChunks, InsertChunks
<1>4. CASE InsertChunksConflict(r) \/ ReplaceChunksFails(r) \/ SaveEmbeddingsFails(r)
  BY <1>1, <1>4 DEF InsertChunksConflict, ReplaceChunksFails,
                    SaveEmbeddingsFails, RollbackAndFail
<1>5. CASE MarkChunked(r) \/ MarkChunkedFails(r) \/ MarkTransitionalFails(r)
  BY <1>5, OtherAnswers DEF MarkChunked, MarkChunkedFails,
                            MarkTransitionalFails
<1>6. CASE ListChunksRaises(r) \/ ListChunks(r)
  BY <1>1, <1>6, OtherAnswers DEF ListChunksRaises, ListChunks
<1>7. CASE GenerateEmbeddings(r) \/ SaveEmbeddings(r) \/ SavedRefresh(r)
  BY <1>1, <1>7, OtherAnswers DEF GenerateEmbeddings, SaveEmbeddings,
                                  SavedRefresh
<1>8. CASE MarkFailed(r) \/ MarkFailedFails(r) \/ Crash(r)
  BY <1>8, OtherAnswers DEF MarkFailed, MarkFailedFails, Crash
<1> QED
  BY <1>2, <1>3, <1>4, <1>5, <1>6, <1>7, <1>8 DEF Serve, ProcessStep, EmbedStep

\* Every step of every handler keeps UploadInv.  Only the steps of an upload
\* can disturb it: deleting an object hurts no other upload by OneUploader.
LEMMA NextUploadInv == TypeInv /\ UploadInv /\ [Next]_vars => UploadInv'
<1> SUFFICES ASSUME TypeInv, UploadInv, [Next]_vars PROVE UploadInv'
  OBVIOUS
<1> USE DEF UploadInv, Unanswered, OneUploader, UploadOrder, Drawn,
            AcknowledgedUploadIsStored, RowsAndObjectsAgree, Uploader,
            UploadLabels
<1>1. CASE UNCHANGED vars
  BY <1>1 DEF vars
<1>2. ASSUME NEW r \in Requests, Arrive(r)
      PROVE  UploadInv'
  <2>1. /\ pc[r] = "idle"
        /\ OthersUnchanged(r)
        /\ UNCHANGED <<rows, objects, faulted>>
        /\ resp[r] = 0
        /\ doc[r] \notin Docs
        /\ r \notin faulted
        /\ pc'[r] # "idle"
    BY <1>2, ArriveFrame, ConstantsAssumption
  <2>2. PICK u \in Users, k \in KBs :
            \/ \E c \in Contents, valid \in BOOLEAN :
                   UploadRejected(r, u, k, c, valid)
            \/ \E c \in Contents, d \in Docs : UploadAccepted(r, u, k, c, d)
            \/ \E d \in Docs : \/ ProcessRejected(r, u, k, d)
                               \/ ProcessAccepted(r, u, k, d)
                               \/ EmbedRejected(r, u, k, d)
                               \/ EmbedAccepted(r, u, k, d)
    BY <1>2 DEF Arrive
  <2>3. ASSUME doc' = doc, pc'[r] = "done", resp'[r] # 201
        PROVE  UploadInv'
    BY <2>1, <2>3 DEF OthersUnchanged, TypeInv, TypeOK
  <2>4. ASSUME NEW c \in Contents, NEW valid \in BOOLEAN,
               UploadRejected(r, u, k, c, valid)
        PROVE  UploadInv'
    BY <2>3, <2>4, UploadAnswers
       DEF UploadRejected, Answer, TypeInv, TypeOK
  <2>5. ASSUME NEW c \in Contents, NEW d \in Docs,
               UploadAccepted(r, u, k, c, d)
        PROVE  UploadInv'
    <3>1. /\ pc'[r] = "store" /\ resp'[r] = 0 /\ doc'[r] = d
          /\ \A q \in Requests : doc[q] # d
      BY <2>1, <2>5 DEF UploadAccepted, Goto, TypeInv, TypeOK
    <3>2. d \notin rows \cup objects
      BY <3>1
    <3>3. Unanswered'
      BY <2>1, <3>1, <3>2 DEF OthersUnchanged, TypeInv, TypeOK
    <3>4. OneUploader'
      BY <2>1, <3>1, <3>2 DEF OthersUnchanged, TypeInv, TypeOK
    <3>5. UploadOrder'
      BY <2>1, <3>1, <3>2 DEF OthersUnchanged, TypeInv, TypeOK
    <3>6. Drawn'
      BY <2>1, <3>1, <3>2 DEF OthersUnchanged, TypeInv, TypeOK
    <3>7. AcknowledgedUploadIsStored'
      BY <2>1, <3>1, <3>2 DEF OthersUnchanged, TypeInv, TypeOK
    <3>8. RowsAndObjectsAgree'
      BY <2>1, <3>1, <3>2 DEF OthersUnchanged, TypeInv, TypeOK
    <3> QED
      BY <3>3, <3>4, <3>5, <3>6, <3>7, <3>8
  <2>6. ASSUME NEW d \in Docs,
               ProcessRejected(r, u, k, d) \/ EmbedRejected(r, u, k, d)
        PROVE  UploadInv'
    BY <2>3, <2>6, OtherAnswers
       DEF ProcessRejected, EmbedRejected, Answer, TypeInv, TypeOK
  <2>7. ASSUME NEW d \in Docs,
               ProcessAccepted(r, u, k, d) \/ EmbedAccepted(r, u, k, d)
        PROVE  UploadInv'
    <3>1. /\ pc'[r] \in {"markProcessing", "listChunks"}
          /\ resp'[r] = 0
      BY <2>1, <2>7 DEF ProcessAccepted, EmbedAccepted, Admit, Goto, TypeInv,
                        TypeOK
    <3>2. Unanswered'
      BY <2>1, <3>1 DEF OthersUnchanged, TypeInv, TypeOK
    <3>3. OneUploader'
      BY <2>1, <3>1 DEF OthersUnchanged, TypeInv, TypeOK
    <3>4. UploadOrder'
      BY <2>1, <3>1 DEF OthersUnchanged, TypeInv, TypeOK
    <3>5. Drawn'
      BY <2>1, <3>1 DEF OthersUnchanged, TypeInv, TypeOK
    <3>6. AcknowledgedUploadIsStored'
      BY <2>1, <3>1 DEF OthersUnchanged, TypeInv, TypeOK
    <3>7. RowsAndObjectsAgree'
      BY <2>1, <3>1 DEF OthersUnchanged, TypeInv, TypeOK
    <3> QED
      BY <3>2, <3>3, <3>4, <3>5, <3>6, <3>7
  <2> QED
    BY <2>2, <2>4, <2>5, <2>6, <2>7
<1>3. ASSUME NEW r \in Requests, Serve(r) \/ Crash(r)
      PROVE  UploadInv'
  <2>1. /\ OthersUnchanged(r)
        /\ doc' = doc
        /\ doc[r] \in Docs
        /\ pc[r] # "done" /\ resp[r] = 0
        /\ pc'[r] # "idle"
        /\ faulted' \in {faulted, faulted \cup {r}}
    BY <1>3, ServeFrame DEF TypeInv, WorksOnDocument, Working, WorkingLabels,
                            ProcessLabels, EmbedLabels
  <2>2. CASE ~UploadStep(r)
    <3>1. /\ UNCHANGED <<rows, objects>>
          /\ pc'[r] \notin UploadLabels
          /\ pc[r] \in UploadLabels => r \in faulted'
          /\ resp'[r] # 201
          /\ pc'[r] # "done" => resp'[r] = 0
      BY <1>3, <2>2, QuietFrame
    <3>2. Unanswered'
      BY <2>1, <3>1 DEF OthersUnchanged, TypeInv, TypeOK
    <3>3. OneUploader'
      BY <2>1, <3>1 DEF OthersUnchanged, TypeInv, TypeOK
    <3>4. UploadOrder'
      BY <2>1, <3>1 DEF OthersUnchanged, TypeInv, TypeOK
    <3>5. Drawn'
      BY <2>1, <3>1 DEF OthersUnchanged, TypeInv, TypeOK
    <3>6. AcknowledgedUploadIsStored'
      BY <2>1, <3>1 DEF OthersUnchanged, TypeInv, TypeOK
    <3>7. RowsAndObjectsAgree'
      BY <2>1, <3>1 DEF OthersUnchanged, TypeInv, TypeOK
    <3> QED
      BY <3>2, <3>3, <3>4, <3>5, <3>6, <3>7
  <2> USE DEF Goto, Answer, Fault, database, TypeInv, TypeOK
  <2>3. CASE StoreObject(r)
    <3>1. Unanswered'
      BY <2>1, <2>3, UploadAnswers DEF StoreObject, OthersUnchanged
    <3>2. OneUploader'
      BY <2>1, <2>3, UploadAnswers DEF StoreObject, OthersUnchanged
    <3>3. UploadOrder'
      BY <2>1, <2>3, UploadAnswers DEF StoreObject, OthersUnchanged
    <3>4. Drawn'
      BY <2>1, <2>3, UploadAnswers DEF StoreObject, OthersUnchanged
    <3>5. AcknowledgedUploadIsStored'
      BY <2>1, <2>3, UploadAnswers DEF StoreObject, OthersUnchanged
    <3>6. RowsAndObjectsAgree'
      BY <2>1, <2>3, UploadAnswers DEF StoreObject, OthersUnchanged
    <3> QED
      BY <3>1, <3>2, <3>3, <3>4, <3>5, <3>6
  <2>4. CASE StoreObjectFails(r)
    <3>1. Unanswered'
      BY <2>1, <2>4, UploadAnswers DEF StoreObjectFails, OthersUnchanged
    <3>2. OneUploader'
      BY <2>1, <2>4, UploadAnswers DEF StoreObjectFails, OthersUnchanged
    <3>3. UploadOrder'
      BY <2>1, <2>4, UploadAnswers DEF StoreObjectFails, OthersUnchanged
    <3>4. Drawn'
      BY <2>1, <2>4, UploadAnswers DEF StoreObjectFails, OthersUnchanged
    <3>5. AcknowledgedUploadIsStored'
      BY <2>1, <2>4, UploadAnswers DEF StoreObjectFails, OthersUnchanged
    <3>6. RowsAndObjectsAgree'
      BY <2>1, <2>4, UploadAnswers DEF StoreObjectFails, OthersUnchanged
    <3> QED
      BY <3>1, <3>2, <3>3, <3>4, <3>5, <3>6
  <2>5. CASE InsertDocument(r)
    <3>1. Unanswered'
      BY <2>1, <2>5, UploadAnswers DEF InsertDocument, OthersUnchanged
    <3>2. OneUploader'
      BY <2>1, <2>5, UploadAnswers DEF InsertDocument, OthersUnchanged
    <3>3. UploadOrder'
      BY <2>1, <2>5, UploadAnswers DEF InsertDocument, OthersUnchanged
    <3>4. Drawn'
      BY <2>1, <2>5, UploadAnswers DEF InsertDocument, OthersUnchanged
    <3>5. AcknowledgedUploadIsStored'
      BY <2>1, <2>5, UploadAnswers DEF InsertDocument, OthersUnchanged
    <3>6. RowsAndObjectsAgree'
      BY <2>1, <2>5, UploadAnswers DEF InsertDocument, OthersUnchanged
    <3> QED
      BY <3>1, <3>2, <3>3, <3>4, <3>5, <3>6
  <2>6. CASE UploadRefresh(r)
    <3>1. Unanswered'
      BY <2>1, <2>6, UploadAnswers DEF UploadRefresh, OthersUnchanged
    <3>2. OneUploader'
      BY <2>1, <2>6, UploadAnswers DEF UploadRefresh, OthersUnchanged
    <3>3. UploadOrder'
      BY <2>1, <2>6, UploadAnswers DEF UploadRefresh, OthersUnchanged
    <3>4. Drawn'
      BY <2>1, <2>6, UploadAnswers DEF UploadRefresh, OthersUnchanged
    <3>5. AcknowledgedUploadIsStored'
      BY <2>1, <2>6, UploadAnswers DEF UploadRefresh, OthersUnchanged
    <3>6. RowsAndObjectsAgree'
      BY <2>1, <2>6, UploadAnswers DEF UploadRefresh, OthersUnchanged
    <3> QED
      BY <3>1, <3>2, <3>3, <3>4, <3>5, <3>6
  <2>7. CASE InsertFails(r)
    <3>1. Unanswered'
      BY <2>1, <2>7, UploadAnswers DEF InsertFails, OthersUnchanged
    <3>2. OneUploader'
      BY <2>1, <2>7, UploadAnswers DEF InsertFails, OthersUnchanged
    <3>3. UploadOrder'
      BY <2>1, <2>7, UploadAnswers DEF InsertFails, OthersUnchanged
    <3>4. Drawn'
      BY <2>1, <2>7, UploadAnswers DEF InsertFails, OthersUnchanged
    <3>5. AcknowledgedUploadIsStored'
      BY <2>1, <2>7, UploadAnswers DEF InsertFails, OthersUnchanged
    <3>6. RowsAndObjectsAgree'
      BY <2>1, <2>7, UploadAnswers DEF InsertFails, OthersUnchanged
    <3> QED
      BY <3>1, <3>2, <3>3, <3>4, <3>5, <3>6
  <2>8. CASE Compensate(r)
    <3>1. Unanswered'
      BY <2>1, <2>8, UploadAnswers DEF Compensate, OthersUnchanged
    <3>2. OneUploader'
      BY <2>1, <2>8, UploadAnswers DEF Compensate, OthersUnchanged
    <3>3. UploadOrder'
      BY <2>1, <2>8, UploadAnswers DEF Compensate, OthersUnchanged
    <3>4. Drawn'
      BY <2>1, <2>8, UploadAnswers DEF Compensate, OthersUnchanged
    <3>5. AcknowledgedUploadIsStored'
      BY <2>1, <2>8, UploadAnswers DEF Compensate, OthersUnchanged
    <3>6. RowsAndObjectsAgree'
      BY <2>1, <2>8, UploadAnswers DEF Compensate, OthersUnchanged
    <3> QED
      BY <3>1, <3>2, <3>3, <3>4, <3>5, <3>6
  <2> QED
    BY <2>2, <2>3, <2>4, <2>5, <2>6, <2>7, <2>8 DEF UploadStep
<1> QED
  BY <1>1, <1>2, <1>3 DEF Next, Terminated

\* Before any request there is neither a row nor an object.
LEMMA InitUploadInv == Init => UploadInv
BY ConstantsAssumption
   DEF Init, UploadInv, Unanswered, OneUploader, UploadOrder, Drawn, Uploader,
       UploadLabels, AcknowledgedUploadIsStored, RowsAndObjectsAgree

\* An upload answered 201 has its row and its object, whatever fails later.
THEOREM UploadsAreStored == Spec => []AcknowledgedUploadIsStored
<1>1. UploadInv => AcknowledgedUploadIsStored
  BY DEF UploadInv
<1> QED
  BY <1>1, InitTypeInv, NextTypeInv, InitUploadInv, NextUploadInv, PTL
     DEF Spec

\* Table and object store differ only where an upload is under way, met a
\* fault, or got an error from the object store.
THEOREM StoresAgree == Spec => []RowsAndObjectsAgree
<1>1. UploadInv => RowsAndObjectsAgree
  BY DEF UploadInv
<1> QED
  BY <1>1, InitTypeInv, NextTypeInv, InitUploadInv, NextUploadInv, PTL
     DEF Spec

-----------------------------------------------------------------------------
(* Tenants.                                                                *)

\* A handler is admitted by checks on the caller's tenant, and the columns
\* they looked at do not change while it works.
LEMMA NextTenantIsolation ==
    TypeInv /\ TenantIsolation /\ [Next]_vars => TenantIsolation'
<1> SUFFICES ASSUME TypeInv, TenantIsolation, [Next]_vars
             PROVE  TenantIsolation'
  OBVIOUS
<1> USE DEF TenantIsolation
<1>1. CASE UNCHANGED vars
  BY <1>1 DEF vars
<1>2. ASSUME NEW r \in Requests, Arrive(r)
      PROVE  TenantIsolation'
  <2>1. PICK u \in Users, k \in KBs :
            \/ \E c \in Contents, valid \in BOOLEAN :
                   UploadRejected(r, u, k, c, valid)
            \/ \E c \in Contents, d \in Docs : UploadAccepted(r, u, k, c, d)
            \/ \E d \in Docs : \/ ProcessRejected(r, u, k, d)
                               \/ ProcessAccepted(r, u, k, d)
                               \/ EmbedRejected(r, u, k, d)
                               \/ EmbedAccepted(r, u, k, d)
    BY <1>2 DEF Arrive
  <2>2. ASSUME NEW c \in Contents, NEW d \in Docs,
               UploadAccepted(r, u, k, c, d)
        PROVE  TenantIsolation'
    <3>1. u \in Admins /\ KBTenant[k] = TenantOf[u]
      BY <2>2 DEF UploadAccepted, UploadChecks, RequireTenantAdministrator,
                  GetKnowledgeBase
    <3>2. columns'[d] = [tenant |-> TenantOf[u], kb |-> k, checksum |-> c]
      BY <2>2 DEF UploadAccepted, TypeInv, TypeOK
    <3>3. doc'[r] = d /\ user'[r] = u
      BY <2>2 DEF UploadAccepted, TypeInv, TypeOK
    <3>4. ASSUME NEW q \in Requests, q # r, doc'[q] # NoDoc
          PROVE  /\ doc'[q] = doc[q] /\ user'[q] = user[q]
                 /\ columns'[doc[q]] = columns[doc[q]]
      BY <2>2, <3>4 DEF UploadAccepted, TypeInv, TypeOK
    <3> QED
      BY <3>1, <3>2, <3>3, <3>4
  <2>3. ASSUME NEW d \in Docs,
               ProcessAccepted(r, u, k, d) \/ EmbedAccepted(r, u, k, d)
        PROVE  TenantIsolation'
    <3>1. /\ u \in Admins /\ KBTenant[k] = TenantOf[u]
          /\ columns[d].tenant = TenantOf[u] /\ columns[d].kb = k
      BY <2>3 DEF ProcessAccepted, EmbedAccepted, EmbedChecks, ProcessChecks,
                  RequireTenantAdministrator, GetKnowledgeBase, GetDocumentById
    <3>2. /\ doc' = [doc EXCEPT ![r] = d]
          /\ user' = [user EXCEPT ![r] = u]
          /\ columns' = columns
      BY <2>3 DEF ProcessAccepted, EmbedAccepted, Admit, database
    <3> QED
      BY <3>1, <3>2 DEF TypeInv, TypeOK
  <2>4. CASE UNCHANGED <<user, doc, columns>>
    BY <2>4
  <2> QED
    BY <2>1, <2>2, <2>3, <2>4
       DEF UploadRejected, ProcessRejected, EmbedRejected, database
<1>3. ASSUME NEW r \in Requests, Serve(r) \/ Crash(r)
      PROVE  TenantIsolation'
  BY <1>3, ServeFrame
<1> QED
  BY <1>1, <1>2, <1>3 DEF Next, Terminated

\* No handler ever works on a document or a knowledge base of a tenant other
\* than its caller's, and none works for a caller who is no administrator.
THEOREM TenantsAreIsolated == Spec => []TenantIsolation
<1>1. Init => TenantIsolation
  BY DEF Init, TenantIsolation
<1> QED
  BY <1>1, InitTypeInv, NextTypeInv, NextTenantIsolation, PTL DEF Spec

-----------------------------------------------------------------------------
(* The row matches the chunks where requests have not overlapped.          *)

\* Two handlers at work on one document have overlapped.
SoleHandler ==
    \A r, q \in Requests :
        Working(r) /\ Working(q) /\ doc[r] = doc[q] /\ r # q =>
            doc[r] \in overlapped

\* What a handler that has its document to itself knows of the row: what its
\* session loaded is what the row holds, the status is the one it wrote, and
\* the chunks it listed are still there.
InStep(r) ==
    doc[r] \notin overlapped =>
        /\ pc[r] \in {"markProcessing", "extract", "deleteChunks",
                      "insertChunks", "markChunked", "listChunks",
                      "markEmbedding", "generate", "saveEmbeddings"} =>
               loaded[r] = state[doc[r]]
        /\ pc[r] \in {"processRefresh", "extract", "deleteChunks",
                      "insertChunks", "markChunked"} =>
               state[doc[r]].status = "processing"
        /\ pc[r] \in {"embedRefresh", "generate", "saveEmbeddings"} =>
               state[doc[r]].status = "embedding"
        /\ pc[r] \in {"markEmbedding", "embedRefresh", "generate",
                      "saveEmbeddings"} =>
               seen[r] = chunks[doc[r]].gen
        /\ pc[r] = "markFailed" =>
               \/ loaded[r] = Expired
               \/ /\ loaded[r] = state[doc[r]]
                  /\ state[doc[r]].status \in Transitional

\* The row of d tells the truth; that there are chunks is ChunkedHasChunks.
RowTells(d) ==
    /\ state[d].status \in {"chunked", "completed"} =>
           state[d].chunk_count = Total(d)
    /\ state[d].status = "failed" => state[d].chunk_count = 0
    /\ state[d].status = "completed" => chunks[d].embedded

RowInv ==
    /\ SoleHandler
    /\ \A r \in Requests : InStep(r)
    /\ \A d \in rows \ overlapped : RowTells(d)

\* A request that arrives at a document somebody works on makes it one that
\* was overlapped; otherwise it loads the row as it is.
LEMMA ArriveRowInv ==
    ASSUME TypeInv, UploadInv, RowInv, NEW r \in Requests, Arrive(r)
    PROVE  RowInv'
<1>1. /\ pc[r] = "idle"
      /\ OthersUnchanged(r)
      /\ UNCHANGED <<rows, state, chunks>>
  BY ArriveFrame
<1>2. /\ overlapped \subseteq overlapped'
      /\ \A d \in rows : columns'[d] = columns[d]
      /\ \/ pc'[r] = "done"
         \/ pc'[r] = "store" /\ \A q \in Requests : doc[q] # doc'[r]
         \/ /\ pc'[r] \in {"markProcessing", "listChunks"}
            /\ loaded'[r] = state[doc'[r]]
            /\ Busy(doc'[r]) => doc'[r] \in overlapped'
  <2> USE DEF TypeInv, TypeOK, Goto, Answer, database
  <2>1. PICK u \in Users, k \in KBs :
            \/ \E c \in Contents, valid \in BOOLEAN :
                   UploadRejected(r, u, k, c, valid)
            \/ \E c \in Contents, d \in Docs : UploadAccepted(r, u, k, c, d)
            \/ \E d \in Docs : \/ ProcessRejected(r, u, k, d)
                               \/ ProcessAccepted(r, u, k, d)
                               \/ EmbedRejected(r, u, k, d)
                               \/ EmbedAccepted(r, u, k, d)
    BY DEF Arrive
  <2>2. CASE \E c \in Contents, valid \in BOOLEAN :
                 UploadRejected(r, u, k, c, valid)
    BY <2>2 DEF UploadRejected
  <2>3. ASSUME NEW c \in Contents, NEW d \in Docs,
               UploadAccepted(r, u, k, c, d)
        PROVE  /\ overlapped' = overlapped
               /\ \A e \in rows : columns'[e] = columns[e]
               /\ pc'[r] = "store" /\ \A q \in Requests : doc[q] # doc'[r]
    <3>1. d \notin rows
      BY <2>3 DEF UploadAccepted, UploadInv, Drawn
    <3> QED
      BY <2>3, <3>1 DEF UploadAccepted
  <2>4. CASE \E d \in Docs : ProcessRejected(r, u, k, d) \/ EmbedRejected(r, u, k, d)
    BY <2>4 DEF ProcessRejected, EmbedRejected
  <2>5. CASE \E d \in Docs : ProcessAccepted(r, u, k, d) \/ EmbedAccepted(r, u, k, d)
    BY <2>5 DEF ProcessAccepted, EmbedAccepted, Admit
  <2> QED
    BY <2>1, <2>2, <2>3, <2>4, <2>5
<1>3. SoleHandler'
  <2> SUFFICES ASSUME NEW q \in Requests, q # r, Working(q), Working(r)',
                      doc[q] = doc'[r]
               PROVE  doc[q] \in overlapped'
    BY <1>1, <1>2 DEF SoleHandler, RowInv, OthersUnchanged, Working
  <2> QED
    BY <1>2 DEF Busy, Working, WorkingLabels, UploadLabels, ProcessLabels,
                EmbedLabels
<1>4. ASSUME NEW q \in Requests
      PROVE  InStep(q)'
  <2>1. CASE q = r
    BY <1>1, <1>2, <2>1 DEF InStep
  <2>2. CASE q # r
    BY <1>1, <1>2, <2>2 DEF InStep, RowInv, OthersUnchanged
  <2> QED
    BY <2>1, <2>2
<1>5. \A d \in rows' \ overlapped' : RowTells(d)'
  BY <1>1, <1>2 DEF RowInv, RowTells, Total
<1> QED
  BY <1>3, <1>4, <1>5 DEF RowInv

\* Why a step of a handler at work keeps RowInv: it leaves other documents
\* alone, and its own document is nobody else's or was overlapped.
LEMMA RowKept ==
    ASSUME TypeInv, RowInv, NEW r \in Requests, Serve(r) \/ Crash(r),
           rows' \subseteq rows \cup {doc[r]},
           doc[r] \notin overlapped =>
               InStep(r)' /\ (doc[r] \in rows' => RowTells(doc[r])')
    PROVE  RowInv'
<1>1. /\ OthersUnchanged(r)
      /\ Working(r)
      /\ UNCHANGED <<columns, doc, overlapped>>
      /\ doc[r] \in Docs
      /\ \A d \in Docs \ {doc[r]} :
             state'[d] = state[d] /\ chunks'[d] = chunks[d]
  BY ServeFrame DEF TypeInv, WorksOnDocument
<1>2. SoleHandler'
  BY <1>1 DEF RowInv, SoleHandler, OthersUnchanged, Working
<1>3. ASSUME NEW q \in Requests
      PROVE  InStep(q)'
  <2>1. CASE q = r /\ doc[r] \notin overlapped
    BY <2>1
  <2>2. CASE doc[q] \in overlapped
    BY <1>1, <2>2 DEF InStep
  <2>3. CASE q # r /\ ~Working(q)
    BY <1>1, <2>3 DEF InStep, OthersUnchanged, Working, WorkingLabels,
                      ProcessLabels, EmbedLabels
  <2>4. CASE q # r /\ Working(q) /\ doc[q] # doc[r]
    <3>1. doc[q] \in Docs \ {doc[r]}
      BY <2>4 DEF TypeInv, WorksOnDocument
    <3> QED
      BY <1>1, <2>4, <3>1 DEF InStep, RowInv, OthersUnchanged
  <2>5. CASE q # r /\ Working(q) /\ doc[q] = doc[r]
    BY <1>1, <2>2, <2>5 DEF RowInv, SoleHandler
  <2> QED
    BY <2>1, <2>2, <2>3, <2>4, <2>5
<1>4. ASSUME NEW d \in rows' \ overlapped'
      PROVE  RowTells(d)'
  <2>1. CASE d = doc[r]
    BY <1>1, <2>1
  <2>2. CASE d # doc[r]
    <3>1. d \in rows \ overlapped /\ d \in Docs
      BY <1>1, <2>2 DEF TypeInv, TypeOK
    <3> QED
      BY <1>1, <2>2, <3>1 DEF RowInv, RowTells, Total
  <2> QED
    BY <2>1, <2>2
<1> QED
  BY <1>2, <1>3, <1>4 DEF RowInv

\* A commit of a handler that has its document to itself makes the row hold
\* what the handler assigned, although it writes only what differs: what is
\* left out is what the row holds already.
LEMMA FlushInStep ==
    ASSUME TypeInv, NEW r \in Requests, doc[r] \in Docs, NEW new, Flush(r, new),
           new.chunk_count \in Nat, new.status \in Statuses,
           loaded[r] \in {state[doc[r]], Expired}
    PROVE  /\ state'[doc[r]].status = new.status
           /\ state'[doc[r]].chunk_count = new.chunk_count
<1>1. state'[doc[r]] = Flushed(state[doc[r]], loaded[r], new)
  BY DEF Flush, TypeInv, TypeOK
<1>2. CASE loaded[r] = state[doc[r]]
  BY <1>1, <1>2 DEF Flushed
<1>3. CASE loaded[r] = Expired
  BY <1>1, <1>3 DEF Flushed, Expired, Statuses
<1> QED
  BY <1>2, <1>3

\* Every step of every handler keeps RowInv.
LEMMA NextRowInv ==
    TypeInv /\ UploadInv /\ RowInv /\ [Next]_vars => RowInv'
<1> SUFFICES ASSUME TypeInv, UploadInv, RowInv, [Next]_vars PROVE RowInv'
  OBVIOUS
<1>1. CASE UNCHANGED vars
  BY <1>1 DEF vars, RowInv, SoleHandler, InStep, RowTells, Working, Total
<1>2. ASSUME NEW r \in Requests, Arrive(r)
      PROVE  RowInv'
  BY <1>2, ArriveRowInv
<1>3. ASSUME NEW r \in Requests, Serve(r) \/ Crash(r)
      PROVE  RowInv'
  <2>1. /\ UNCHANGED <<columns, doc, overlapped>>
        /\ doc[r] \in Docs
        /\ columns[doc[r]] \in DocumentColumns
    BY <1>3, ServeFrame DEF TypeInv, WorksOnDocument
  <2>2. rows' \subseteq rows \cup {doc[r]}
    <3>1. CASE UploadStep(r)
      BY <3>1 DEF UploadStep, StoreObject, StoreObjectFails, InsertDocument,
                  UploadRefresh, InsertFails, Compensate, database
    <3>2. CASE ~UploadStep(r)
      BY <1>3, <3>2, QuietFrame
    <3> QED
      BY <3>1, <3>2
  <2>3. SUFFICES ASSUME doc[r] \notin overlapped
                 PROVE  InStep(r)' /\ (doc[r] \in rows' => RowTells(doc[r])')
    BY <1>3, <2>2, RowKept
  <2>4. /\ InStep(r)
        /\ doc[r] \in rows => RowTells(doc[r])
    BY <2>3 DEF RowInv
  <2>5. Total(doc[r]) \in Nat /\ Total(doc[r])' = Total(doc[r])
    BY <2>1, ConstantsAssumption DEF Total, DocumentColumns
  <2>6. ASSUME UNCHANGED <<rows, state, chunks>>
        PROVE  doc[r] \in rows' => RowTells(doc[r])'
    BY <2>1, <2>4, <2>5, <2>6 DEF RowTells
  <2> USE DEF Goto, Answer, Uncaught, Fault, database, TypeInv, TypeOK
  <2>7. CASE UploadStep(r)
    <3>1. pc'[r] \in UploadLabels \cup {"done"}
      BY <2>7 DEF UploadStep, StoreObject, StoreObjectFails, InsertDocument,
                  UploadRefresh, InsertFails, Compensate, UploadLabels
    <3>2. InStep(r)'
      BY <3>1 DEF InStep, UploadLabels
    <3>3. CASE InsertDocument(r)
      BY <2>1, <3>2, <3>3 DEF InsertDocument, RowTells
    <3>4. CASE ~InsertDocument(r)
      <4>1. UNCHANGED <<rows, state, chunks>>
        BY <2>7, <3>4
           DEF UploadStep, StoreObject, StoreObjectFails, UploadRefresh,
               InsertFails, Compensate
      <4> QED
        BY <2>6, <3>2, <4>1
    <3> QED
      BY <3>3, <3>4
  <2>8. ASSUME NEW status \in Transitional, NEW next,
               MarkTransitional(r, status, next), loaded[r] = state[doc[r]]
        PROVE  /\ state'[doc[r]].status = status
               /\ RowTells(doc[r])'
    <3> DEFINE new == [loaded[r] EXCEPT !.status = status]
    <3>1. /\ new.status = status
          /\ new.chunk_count = loaded[r].chunk_count
      BY <2>1, <2>8 DEF DocumentState
    <3>2. Flush(r, new)
      BY <2>8 DEF MarkTransitional
    <3> HIDE DEF new
    <3>3. state'[doc[r]].status = status
      BY <2>1, <2>8, <3>1, <3>2, FlushStatus
    <3> QED
      BY <2>1, <2>8, <3>3 DEF RowTells, Transitional
  <2>9. CASE MarkProcessing(r)
    BY <2>1, <2>3, <2>4, <2>8, <2>9
       DEF MarkProcessing, MarkTransitional, InStep, Transitional
  <2>10. CASE MarkEmbedding(r)
    BY <2>1, <2>3, <2>4, <2>8, <2>10
       DEF MarkEmbedding, MarkTransitional, InStep, Transitional
  <2>11. CASE ProcessRefresh(r) \/ EmbedRefresh(r)
    <3>1. InStep(r)'
      BY <2>1, <2>3, <2>4, <2>11
         DEF ProcessRefresh, EmbedRefresh, Refresh, InStep
    <3> QED
      BY <2>6, <2>11, <3>1 DEF ProcessRefresh, EmbedRefresh, Refresh
  <2>12. CASE \/ Extract(r) \/ ExtractFails(r) \/ DeleteChunks(r)
              \/ GenerateEmbeddings(r)
    <3>1. InStep(r)'
      BY <2>1, <2>3, <2>4, <2>12
         DEF Extract, ExtractFails, DeleteChunks, GenerateEmbeddings, InStep,
             Transitional
    <3> QED
      BY <2>6, <2>12, <3>1
         DEF Extract, ExtractFails, DeleteChunks, GenerateEmbeddings
  <2>13. CASE InsertChunks(r)
    BY <2>1, <2>3, <2>4, <2>13 DEF InsertChunks, InStep, RowTells
  <2>14. CASE \/ InsertChunksConflict(r) \/ ReplaceChunksFails(r)
              \/ SaveEmbeddingsFails(r)
    <3>1. InStep(r)'
      BY <2>1, <2>14
         DEF InsertChunksConflict, ReplaceChunksFails, SaveEmbeddingsFails,
             RollbackAndFail, InStep
    <3> QED
      BY <2>6, <2>14, <3>1
         DEF InsertChunksConflict, ReplaceChunksFails, SaveEmbeddingsFails,
             RollbackAndFail
  <2>15. CASE MarkChunked(r)
    <3>1. /\ state'[doc[r]].status = "chunked"
          /\ state'[doc[r]].chunk_count = Total(doc[r])
      BY <2>1, <2>3, <2>4, <2>5, <2>15, FlushInStep
         DEF MarkChunked, InStep, Statuses
    <3>2. pc'[r] = "done"
      BY <2>15 DEF MarkChunked
    <3> QED
      BY <2>1, <2>5, <3>1, <3>2 DEF InStep, RowTells
  <2>16. CASE SaveEmbeddings(r)
    <3>1. /\ state'[doc[r]].status = "completed"
          /\ state'[doc[r]].chunk_count = Total(doc[r])
      BY <2>1, <2>3, <2>4, <2>5, <2>16, FlushInStep
         DEF SaveEmbeddings, Completed, InStep, Statuses
    <3>2. chunks'[doc[r]].embedded
      <4>1. seen[r] = chunks[doc[r]].gen
        BY <2>3, <2>4, <2>16 DEF SaveEmbeddings, InStep
      <4>2. chunks' = [chunks EXCEPT ![doc[r]].embedded =
                                         @ \/ chunks[doc[r]].gen = seen[r]]
        BY <2>16 DEF SaveEmbeddings
      <4>3. chunks \in [Docs -> DocumentChunks] /\ doc[r] \in Docs
        BY <2>1
      <4> HIDE DEF TypeInv, TypeOK, Goto, Answer, Uncaught, Fault, database
      <4> QED
        BY <4>1, <4>2, <4>3 DEF DocumentChunks
    <3>3. pc'[r] = "savedRefresh"
      BY <2>16 DEF SaveEmbeddings
    <3> QED
      BY <2>1, <2>5, <3>1, <3>2, <3>3 DEF InStep, RowTells
  <2>17. CASE MarkFailed(r)
    <3>1. /\ state'[doc[r]].status = "failed"
          /\ state'[doc[r]].chunk_count = 0
      BY <2>1, <2>3, <2>4, <2>17, FlushInStep
         DEF MarkFailed, InStep, Statuses
    <3>2. pc'[r] = "done"
      BY <2>17 DEF MarkFailed
    <3> QED
      BY <2>1, <3>1, <3>2 DEF InStep, RowTells
  <2>18. CASE ListChunks(r)
    <3>1. InStep(r)'
      BY <2>1, <2>3, <2>4, <2>18 DEF ListChunks, InStep
    <3> QED
      BY <2>6, <2>18, <3>1 DEF ListChunks
  <2>19. CASE \/ MarkChunkedFails(r) \/ MarkTransitionalFails(r)
              \/ MarkFailedFails(r) \/ Crash(r) \/ SavedRefresh(r)
              \/ ListChunksRaises(r) \/ ExtractRaises(r)
    <3>1. /\ pc'[r] = "done"
          /\ UNCHANGED <<rows, state, chunks>>
      BY <2>19 DEF MarkChunkedFails, MarkTransitionalFails, MarkFailedFails,
                   Crash, SavedRefresh, ListChunksRaises, ExtractRaises
    <3>2. InStep(r)'
      BY <3>1 DEF InStep
    <3> QED
      BY <2>6, <3>1, <3>2
  <2> QED
    BY <1>3, <2>7, <2>9, <2>10, <2>11, <2>12, <2>13, <2>14, <2>15, <2>16,
       <2>17, <2>18, <2>19
       DEF Serve, ProcessStep, EmbedStep
<1> QED
  BY <1>1, <1>2, <1>3 DEF Next, Terminated

\* Before any request there are no handlers at work and no rows.
LEMMA InitRowInv == Init => RowInv
BY DEF Init, RowInv, SoleHandler, InStep, Working, WorkingLabels, UploadLabels,
       ProcessLabels, EmbedLabels

\* As long as requests on a document have not overlapped its row tells the
\* truth, whatever fails: the number of its chunks if it is chunked or
\* completed, none if it failed, and that it can be found if it is completed.
THEOREM RowTellsTheTruth == Spec => []RowMatchesChunks
<1>1. Init => ChunksInv
  BY DEF Init, ChunksInv, ChunkedHasChunks, ChunksStored
<1>2. TypeInv /\ ChunksInv /\ RowInv => RowMatchesChunks
  BY DEF TypeInv, TypeOK, ChunksInv, ChunkedHasChunks, RowInv, RowTells,
         RowMatchesChunks
<1> QED
  BY <1>1, <1>2, InitTypeInv, NextTypeInv, NextChunksInv, InitUploadInv,
     NextUploadInv, InitRowInv, NextRowInv, PTL
     DEF Spec

\* A handler that comes to mark_document_failed without a fault, on a document
\* it has to itself, leaves the row failed: what its session had loaded is
\* never "failed" already, so the unit of work does not leave the status out.
THEOREM FailureIsRecorded == Spec => ControlledErrorMarksFailed
<1> DEFINE Marks == \A r \in Requests :
                        (/\ pc[r] = "markFailed" /\ pc'[r] = "done"
                         /\ r \notin faulted' /\ doc[r] \notin overlapped)
                            => state'[doc[r]].status = "failed"
<1>1. ASSUME TypeInv, RowInv, [Next]_vars
      PROVE  [Marks]_vars
  <2> SUFFICES ASSUME Next, NEW r \in Requests, pc[r] = "markFailed",
                      pc'[r] = "done", r \notin faulted',
                      doc[r] \notin overlapped
               PROVE  state'[doc[r]].status = "failed"
    BY <1>1
  <2>1. doc[r] \in Docs
    BY <1>1 DEF TypeInv, WorksOnDocument, Working, WorkingLabels
  <2>2. PICK q \in Requests : Arrive(q) \/ Serve(q) \/ Crash(q)
    BY DEF Next, Terminated, vars
  <2>3. q = r /\ ~Arrive(r)
    <3>1. OthersUnchanged(q)
      BY <1>1, <2>2, ArriveFrame, ServeFrame
    <3>2. q = r
      BY <3>1 DEF OthersUnchanged
    <3> QED
      BY <1>1, <3>2, ArriveFrame
  <2>4. MarkFailed(r)
    <3>1. Serve(r) \/ Crash(r)
      BY <2>2, <2>3
    <3> QED
      BY <3>1
         DEF Serve, UploadStep, ProcessStep, EmbedStep, StoreObject,
             StoreObjectFails, InsertDocument, UploadRefresh, InsertFails,
             Compensate, MarkProcessing, ProcessRefresh, Extract, ExtractFails,
             ExtractRaises, DeleteChunks, InsertChunks, InsertChunksConflict,
             ReplaceChunksFails, MarkChunked, MarkChunkedFails,
             ListChunksRaises, ListChunks, MarkEmbedding, EmbedRefresh,
             GenerateEmbeddings, SaveEmbeddings, SavedRefresh,
             SaveEmbeddingsFails, MarkTransitionalFails, MarkFailedFails,
             Crash, Fault
  <2>5. loaded[r] \in {state[doc[r]], Expired}
    BY <1>1 DEF RowInv, InStep
  <2> QED
    BY <1>1, <2>1, <2>4, <2>5, FlushInStep DEF MarkFailed, Statuses
<1> HIDE DEF Marks
<1>2. Spec => [][Marks]_vars
  BY <1>1, InitTypeInv, NextTypeInv, InitUploadInv, NextUploadInv, InitRowInv,
     NextRowInv, PTL
     DEF Spec
<1> QED
  BY <1>2 DEF ControlledErrorMarksFailed, Marks

-----------------------------------------------------------------------------
(* Server errors.                                                          *)

\* The statuses with which the endpoints answer what they foresee.
LEMMA ForeseenAnswers ==
    /\ UploadStatus("ok") # 500
    /\ UploadStatus("ObjectStorageError") # 500
    /\ ProcessStatus("ok") # 500
    /\ ProcessStatus("DocumentProcessingError") # 500
    /\ EmbedStatus("ok") # 500
    /\ EmbedStatus("DocumentEmbeddingError") # 500
BY DEF UploadStatus, ProcessStatus, EmbedStatus

\* If list_document_chunks executed its query, a request that was let in would
\* end in a server error only after a fault or for a file whose parser raises
\* unguarded: the other exceptions, those of requests that overlap included,
\* are all caught and mapped.
THEOREM ServerErrorsAreFaults ==
    Spec => [](ListChunksExecutes => ServerErrorOnlyAfterFault)
<1> DEFINE Inv == ListChunksExecutes => ServerErrorOnlyAfterFault
<1>1. Init => Inv
  BY DEF Init, ServerErrorOnlyAfterFault
<1>2. TypeInv /\ UploadInv /\ Inv /\ [Next]_vars => Inv'
  <2> SUFFICES ASSUME TypeInv, UploadInv, ServerErrorOnlyAfterFault,
                      ListChunksExecutes, [Next]_vars
               PROVE  ServerErrorOnlyAfterFault'
    OBVIOUS
  <2> USE DEF ServerErrorOnlyAfterFault, Escaped, ParserRaises
  <2>1. CASE UNCHANGED vars
    BY <2>1 DEF vars
  <2>2. ASSUME NEW r \in Requests, Arrive(r)
        PROVE  ServerErrorOnlyAfterFault'
    <3>1. /\ OthersUnchanged(r)
          /\ faulted' = faulted
          /\ doc[r] = NoDoc
          /\ resp[r] = 0
      BY <2>2, ArriveFrame DEF UploadInv, Unanswered
    <3>2. doc' = doc \/ resp' = resp
      <4>1. PICK u \in Users, k \in KBs :
                \/ \E c \in Contents, valid \in BOOLEAN :
                       UploadRejected(r, u, k, c, valid)
                \/ \E c \in Contents, d \in Docs : UploadAccepted(r, u, k, c, d)
                \/ \E d \in Docs : \/ ProcessRejected(r, u, k, d)
                                   \/ ProcessAccepted(r, u, k, d)
                                   \/ EmbedRejected(r, u, k, d)
                                   \/ EmbedAccepted(r, u, k, d)
        BY <2>2 DEF Arrive
      <4>2. CASE \E c \in Contents, valid \in BOOLEAN :
                     UploadRejected(r, u, k, c, valid)
        BY <4>2 DEF UploadRejected
      <4>3. CASE \E c \in Contents, d \in Docs : UploadAccepted(r, u, k, c, d)
        BY <4>3 DEF UploadAccepted
      <4>4. CASE \E d \in Docs : \/ ProcessRejected(r, u, k, d)
                                 \/ EmbedRejected(r, u, k, d)
        BY <4>4 DEF ProcessRejected, EmbedRejected
      <4>5. CASE \E d \in Docs : \/ ProcessAccepted(r, u, k, d)
                                 \/ EmbedAccepted(r, u, k, d)
        BY <4>5 DEF ProcessAccepted, EmbedAccepted, Admit
      <4> QED
        BY <4>1, <4>2, <4>3, <4>4, <4>5
    <3>3. \A q \in Requests :
              doc[q] # NoDoc => columns'[doc[q]] = columns[doc[q]]
      BY <2>2, ArriveColumns
    <3> QED
      BY <3>1, <3>2, <3>3 DEF OthersUnchanged
  <2>3. ASSUME NEW r \in Requests, Serve(r) \/ Crash(r)
        PROVE  ServerErrorOnlyAfterFault'
    <3>1. /\ OthersUnchanged(r)
          /\ doc' = doc /\ columns' = columns
          /\ faulted' \in {faulted, faulted \cup {r}}
          /\ resp[r] = 0
      BY <2>3, ServeFrame DEF UploadInv, Unanswered, Working, WorkingLabels,
                              UploadLabels, ProcessLabels, EmbedLabels
    <3>2. resp'[r] # 500 \/ r \in faulted' \/ ParserRaises(doc[r])
      <4> USE DEF TypeInv, TypeOK, Answer, Fault, Uncaught
      <4>1. CASE UploadStep(r)
        BY <3>1, <4>1, ForeseenAnswers
           DEF UploadStep, StoreObject, StoreObjectFails, InsertDocument,
               UploadRefresh, InsertFails, Compensate, UploadInv, UploadOrder
      <4>2. CASE ProcessStep(r)
        BY <3>1, <4>2, ForeseenAnswers
           DEF ProcessStep, ExtractRaises, MarkProcessing, MarkTransitional, ProcessRefresh,
               Refresh, Extract, ExtractFails, DeleteChunks, InsertChunks,
               InsertChunksConflict, ReplaceChunksFails, RollbackAndFail,
               MarkChunked, MarkChunkedFails
      <4>3. CASE EmbedStep(r)
        BY <3>1, <4>3, ForeseenAnswers
           DEF EmbedStep, ListChunksRaises, ListChunks, MarkEmbedding,
               MarkTransitional, EmbedRefresh, Refresh, GenerateEmbeddings,
               SaveEmbeddings, SavedRefresh, SaveEmbeddingsFails,
               RollbackAndFail
      <4>4. CASE \/ MarkTransitionalFails(r) \/ MarkFailed(r)
                 \/ MarkFailedFails(r) \/ Crash(r)
        BY <4>4, ForeseenAnswers
           DEF MarkTransitionalFails, MarkFailed, MarkFailedFails, Crash
      <4> QED
        BY <2>3, <4>1, <4>2, <4>3, <4>4 DEF Serve
    <3> QED
      BY <3>1, <3>2 DEF OthersUnchanged
  <2> QED
    BY <2>1, <2>2, <2>3 DEF Next, Terminated
<1> QED
  BY <1>1, <1>2, InitTypeInv, NextTypeInv, InitUploadInv, NextUploadInv, PTL
     DEF Spec
=============================================================================
