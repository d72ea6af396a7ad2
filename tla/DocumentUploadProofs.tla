------------------------ MODULE DocumentUploadProofs ------------------------
(***************************************************************************)
(* Proofs about DocumentUpload, for any sets of requests, evaluations and  *)
(* contents.                                                               *)
(***************************************************************************)
EXTENDS DocumentUpload, TLAPS

\* No file is lost with power; no COMMIT takes effect without an answer.
PowerKept == ~Happens("power")
NothingLost == PowerKept /\ ~Happens("lost_ack")

(* The initial states are of the right type.                               *)
LEMMA InitTypeOK == Init => TypeOK
  BY SMT DEF Init, TypeOK, PCs, Errors, EarlyErrors, LateErrors,
     Database!Init, Database!TypeOK, Database!States, Database!Row,
     Storage!TypeOK, Storage!Statuses

(* The requests' own part of the type invariant, which each step keeps.    *)
RequestTypeOK ==
    /\ pc \in [Requests -> PCs]
    /\ request \in [Requests -> [evaluation_id : Evaluations, sha256 : Contents]]
    /\ outcome \in [Requests -> Errors \cup {"none", "created"}]
    /\ unsafe \in [Requests -> BOOLEAN]
    /\ position \in [Requests -> {"start", "moved"}]

(* The row of a request is a row of the documents table.                   *)
LEMMA DocumentIsRow ==
    ASSUME RequestTypeOK, NEW r \in Requests
    PROVE  Document(r) \in Database!Row
  BY DEF RequestTypeOK, Document, Database!Row

(* Every step of the database keeps its type.                              *)
LEMMA DatabaseTypes ==
    ASSUME Database!TypeOK, NEW r \in Requests, NEW d \in Database!Row,
           \/ Database!Open(r) \/ Database!Insert(r, d)
           \/ Database!InsertRejected(r, d) \/ Database!InsertLost(r, d)
           \/ Database!Commit(r) \/ Database!CommitUnsent(r)
           \/ Database!CommitUnacknowledged(r) \/ Database!Rollback(r)
           \/ Database!RollbackFails(r) \/ Database!Settle(r)
           \/ UNCHANGED databaseVars
    PROVE  Database!TypeOK'
  <1>1. CASE Database!Insert(r, d)
    BY <1>1 DEF Database!TypeOK, Database!Insert, Database!CanInsert, Database!States
  <1>2. CASE Database!InsertLost(r, d)
    BY <1>2 DEF Database!TypeOK, Database!InsertLost, Database!States
  <1>3. CASE Database!Commit(r)
    BY <1>3 DEF Database!TypeOK, Database!Commit, Database!States
  <1>4. CASE Database!Settle(r)
    BY <1>4 DEF Database!TypeOK, Database!Settle, Database!States
  <1>5. CASE Database!Rollback(r) \/ Database!RollbackFails(r)
    BY <1>5 DEF Database!TypeOK, Database!Rollback, Database!RollbackFails,
       Database!States, Database!vars
  <1>6. CASE \/ Database!Open(r) \/ Database!InsertRejected(r, d)
             \/ Database!CommitUnsent(r) \/ Database!CommitUnacknowledged(r)
    BY <1>6 DEF Database!TypeOK, Database!Open, Database!InsertRejected,
       Database!CommitUnsent, Database!CommitUnacknowledged, Database!States
  <1>7. CASE UNCHANGED databaseVars
    BY <1>7 DEF Database!TypeOK, databaseVars
  <1>8. QED
    BY <1>1, <1>2, <1>3, <1>4, <1>5, <1>6, <1>7

(* Every step of the storage keeps its type.                               *)
LEMMA StorageTypes ==
    ASSUME Storage!TypeOK, NEW r \in Requests,
           \/ \E x \in Contents : Storage!Begin(r, r, x)
           \/ Storage!Publish(r) \/ Storage!Return(r)
           \/ Storage!Fail(r) \/ Storage!Withdraw(r) \/ Storage!Leak(r)
           \/ Storage!Delete(r) \/ Storage!DeleteFails(r)
           \/ UNCHANGED storageVars
    PROVE  Storage!TypeOK'
  <1> USE DEF Storage!TypeOK, Storage!Advance, Storage!Statuses
  <1>1. CASE \E x \in Contents : Storage!Begin(r, r, x)
    BY <1>1 DEF Storage!Begin
  <1>2. CASE Storage!Publish(r)
    BY <1>2 DEF Storage!Publish
  <1>3. CASE Storage!Withdraw(r) \/ Storage!Delete(r)
    BY <1>3 DEF Storage!Withdraw, Storage!Delete
  <1>4. CASE \/ Storage!Return(r) \/ Storage!Fail(r)
             \/ Storage!Leak(r) \/ Storage!DeleteFails(r)
    BY <1>4 DEF Storage!Return, Storage!Fail, Storage!Leak, Storage!DeleteFails
  <1>5. CASE UNCHANGED storageVars
    BY <1>5 DEF storageVars
  <1>6. QED
    BY <1>1, <1>2, <1>3, <1>4, <1>5

-----------------------------------------------------------------------------
(* Type correctness. *)

(* The type invariant is the one of the requests, of the database and of   *)
(* the storage.                                                            *)
LEMMA TypeOKParts == TypeOK <=> RequestTypeOK /\ Database!TypeOK /\ Storage!TypeOK
  BY DEF TypeOK, RequestTypeOK

(* A step of the upload of one request keeps the types of the requests.    *)
LEMMA RequestTypes ==
    ASSUME RequestTypeOK, Database!TypeOK, NEW r \in Requests,
           Receive(r) \/ Upload(r) \/ InsertFails(r)
    PROVE  RequestTypeOK'
  <1> USE DEF RequestTypeOK, PCs, Errors, EarlyErrors, LateErrors, Goto, Proceed,
          Raise, Compensate, Rewound, RewindFails
  <1>1. CASE Receive(r)
    BY <1>1 DEF Receive
  <1>2. CASE FindEvaluation(r)
    BY <1>2 DEF FindEvaluation
  <1>3. CASE Validate(r)
    <2>1. position' \in [Requests -> {"start", "moved"}]
      BY <1>3 DEF Validate
    <2>2. QED
      BY <1>3, <2>1 DEF Validate
  <1>4. CASE FindDuplicate(r)
    BY <1>4 DEF FindDuplicate
  <1>5. CASE PublishFile(r)
    BY <1>5 DEF PublishFile
  <1>6. CASE StoreReturns(r) \/ StoreFails(r)
    <2>1. position' \in [Requests -> {"start", "moved"}]
      BY <1>6 DEF StoreReturns, StoreFails
    <2>2. QED
      BY <1>6, <2>1 DEF StoreReturns, StoreFails
  <1>7. CASE VerifyContent(r)
    <2>1. position' \in [Requests -> {"start", "moved"}]
      BY <1>7 DEF VerifyContent
    <2>2. QED
      BY <1>7, <2>1 DEF VerifyContent
  <1>8. CASE Insert(r) \/ InsertFails(r)
    BY <1>8 DEF Insert, InsertFails, Database!InsertError, Database!InsertRejected
  <1>9. CASE Commit(r)
    BY <1>9 DEF Commit
  <1>10. CASE Rollback(r)
    BY <1>10 DEF Rollback
  <1>11. CASE DeleteFile(r)
    BY <1>11 DEF DeleteFile, Compensated
  <1>12. QED
    BY <1>1, <1>2, <1>3, <1>4, <1>5, <1>6, <1>7, <1>8, <1>9, <1>10, <1>11 DEF Upload

(* What a step of a request does to the database is one step of it.        *)
LEMMA DatabaseSteps ==
    ASSUME NEW r \in Requests, Receive(r) \/ Upload(r) \/ InsertFails(r)
    PROVE  \/ Database!Open(r) \/ Database!Insert(r, Document(r))
           \/ Database!InsertRejected(r, Document(r))
           \/ Database!InsertLost(r, Document(r))
           \/ Database!Commit(r) \/ Database!CommitUnsent(r)
           \/ Database!CommitUnacknowledged(r) \/ Database!Rollback(r)
           \/ Database!RollbackFails(r)
           \/ UNCHANGED databaseVars
  BY DEF Upload, Receive, FindEvaluation, Validate, FindDuplicate, PublishFile,
     StoreReturns, StoreFails, VerifyContent, Insert, InsertFails, Commit,
     Rollback, DeleteFile, Raise

(* What a step of a request does to the storage is one step of it.         *)
LEMMA StorageSteps ==
    ASSUME NEW r \in Requests, Receive(r) \/ Upload(r) \/ InsertFails(r)
    PROVE  \/ \E x \in Contents : Storage!Begin(r, r, x)
           \/ Storage!Publish(r) \/ Storage!Return(r)
           \/ Storage!Fail(r) \/ Storage!Withdraw(r) \/ Storage!Leak(r)
           \/ Storage!Delete(r) \/ Storage!DeleteFails(r)
           \/ UNCHANGED storageVars
  BY DEF Upload, Receive, FindEvaluation, Validate, FindDuplicate, PublishFile,
     StoreReturns, StoreFails, VerifyContent, Insert, InsertFails, Commit,
     Rollback, DeleteFile

(* Every step keeps the types.                                             *)
LEMMA NextTypeOK == TypeOK /\ [Next]_vars => TypeOK'
  <1> SUFFICES ASSUME RequestTypeOK, Database!TypeOK, Storage!TypeOK, [Next]_vars
               PROVE  RequestTypeOK' /\ Database!TypeOK' /\ Storage!TypeOK'
    BY TypeOKParts, TypeOKParts' DEF TypeOK, RequestTypeOK
  <1>1. ASSUME NEW r \in Requests, Receive(r) \/ Upload(r) \/ InsertFails(r)
        PROVE  RequestTypeOK' /\ Database!TypeOK' /\ Storage!TypeOK'
    <2>1. RequestTypeOK'
      BY <1>1, RequestTypes
    <2>2. Database!TypeOK'
      BY <1>1, DocumentIsRow, DatabaseSteps, DatabaseTypes
    <2>3. Storage!TypeOK'
      BY <1>1, StorageSteps, StorageTypes
    <2>4. QED
      BY <2>1, <2>2, <2>3
  <1>2. ASSUME NEW r \in Requests, ServerSettles(r)
        PROVE  RequestTypeOK' /\ Database!TypeOK' /\ Storage!TypeOK'
    <2>1. Database!TypeOK'
      BY <1>2, DocumentIsRow, DatabaseTypes DEF ServerSettles
    <2>2. QED
      BY <1>2, <2>1 DEF ServerSettles, requestVars, storageVars, RequestTypeOK,
         Storage!TypeOK
  <1>3. ASSUME NEW e \in Evaluations, RemoveEvaluation(e)
        PROVE  RequestTypeOK' /\ Database!TypeOK' /\ Storage!TypeOK'
    BY <1>3 DEF RemoveEvaluation, Database!RemoveEvaluation, requestVars,
       storageVars, RequestTypeOK, Storage!TypeOK, Database!TypeOK
  <1>4. CASE Crash \/ PowerLoss
    <2>1. RequestTypeOK'
      BY <1>4 DEF Crash, PowerLoss, Die, RequestTypeOK, PCs
    <2>2. Database!TypeOK'
      BY <1>4 DEF Crash, PowerLoss, Die, Database!Disconnect, Database!TypeOK, Database!States
    <2>3. Storage!TypeOK'
      BY <1>4 DEF Crash, PowerLoss, Storage!Crash, Storage!PowerLoss,
         Storage!TypeOK, Storage!Statuses
    <2>4. QED
      BY <2>1, <2>2, <2>3
  <1>5. CASE UNCHANGED vars
    BY <1>5 DEF vars, requestVars, databaseVars, storageVars, RequestTypeOK,
       Storage!TypeOK, Database!TypeOK
  <1>6. QED
    BY <1>1, <1>2, <1>3, <1>4, <1>5 DEF Next

(* Every variable keeps its type, whatever the requests, contents,         *)
(* evaluations and faults.                                                 *)
THEOREM TypeCorrect == Spec => []TypeOK
  BY InitTypeOK, NextTypeOK, PTL DEF Spec

-----------------------------------------------------------------------------
(* What a step of one request may touch.                                   *)

(* The two ways of FindDuplicate: store() begins, or upload() raises.       *)
LEMMA FindDuplicateCases ==
    ASSUME NEW r \in Requests, FindDuplicate(r)
    PROVE  \/ \E x \in Contents :
                 /\ Proceed(r, "find_duplicate", "store")
                 /\ position[r] = "start"
                 /\ Storage!Begin(r, r, x)
                 /\ UNCHANGED <<position, databaseVars>>
           \/ \E error \in EarlyErrors \ {"storage_error"} :
                 /\ Raise(r, "find_duplicate", error)
                 /\ error = "duplicate"
                       => Database!ExistsByEvaluationAndSha256(
                              request[r].evaluation_id, request[r].sha256)
                 /\ error = "non_seekable"
                       => position[r] # "start" \/ Happens("seek")
                 /\ UNCHANGED <<position, storageVars>>
  BY DEF FindDuplicate, EarlyErrors

(* A step of one request leaves what belongs to the others alone, and the  *)
(* evaluations; it only ever adds rows, its own, by a COMMIT.              *)
LEMMA OnlyItsOwn ==
    ASSUME TypeOK, NEW r \in Requests, Receive(r) \/ Upload(r) \/ InsertFails(r)
    PROVE  /\ \A q \in Requests \ {r} :
                 /\ pc'[q] = pc[q] /\ outcome'[q] = outcome[q]
                 /\ unsafe'[q] = unsafe[q] /\ position'[q] = position[q]
                 /\ transaction'[q] = transaction[q] /\ pending'[q] = pending[q]
                 /\ files'[q] = files[q] /\ status'[q] = status[q]
                 /\ content'[q] = content[q]
           /\ UNCHANGED <<request, evaluations>>
           /\ \/ UNCHANGED rows
              \/ pc[r] = "commit" /\ rows' = rows \cup pending[r]
  <1>1. \A q \in Requests \ {r} :
           transaction'[q] = transaction[q] /\ pending'[q] = pending[q]
    BY DatabaseSteps DEF TypeOK, Database!TypeOK, Database!Open, Database!Insert,
       Database!InsertRejected, Database!InsertLost, Database!Commit,
       Database!CommitUnsent, Database!CommitUnacknowledged, Database!Rollback,
       Database!RollbackFails, databaseVars, Database!vars
  <1>2. \A q \in Requests \ {r} :
           /\ files'[q] = files[q] /\ status'[q] = status[q]
           /\ content'[q] = content[q]
    <2> USE DEF TypeOK, Storage!TypeOK, Storage!Advance
    <2>1. CASE \E x \in Contents : Storage!Begin(r, r, x)
      BY <2>1 DEF Storage!Begin
    <2>2. CASE Storage!Publish(r)
      BY <2>2 DEF Storage!Publish
    <2>3. CASE Storage!Withdraw(r) \/ Storage!Delete(r)
      BY <2>3 DEF Storage!Withdraw, Storage!Delete
    <2>4. CASE \/ Storage!Return(r) \/ Storage!Fail(r)
               \/ Storage!Leak(r) \/ Storage!DeleteFails(r)
      BY <2>4 DEF Storage!Return, Storage!Fail, Storage!Leak, Storage!DeleteFails
    <2>5. CASE UNCHANGED storageVars
      BY <2>5 DEF storageVars
    <2>6. QED
      BY <2>1, <2>2, <2>3, <2>4, <2>5, StorageSteps
  <1>3. /\ \A q \in Requests \ {r} :
              /\ pc'[q] = pc[q] /\ outcome'[q] = outcome[q]
              /\ unsafe'[q] = unsafe[q] /\ position'[q] = position[q]
        /\ UNCHANGED request
    <2> USE DEF TypeOK, Goto, Proceed, Raise, Compensate, Rewound, RewindFails
    <2>1. CASE Receive(r) \/ FindEvaluation(r) \/ Validate(r)
      BY <2>1 DEF Receive, FindEvaluation, Validate
    <2>2. CASE FindDuplicate(r)
      BY <2>2 DEF FindDuplicate
    <2>3. CASE PublishFile(r) \/ StoreReturns(r) \/ StoreFails(r)
      BY <2>3 DEF PublishFile, StoreReturns, StoreFails
    <2>4. CASE VerifyContent(r) \/ Insert(r) \/ InsertFails(r)
      BY <2>4 DEF VerifyContent, Insert, InsertFails
    <2>5. CASE Commit(r) \/ Rollback(r) \/ DeleteFile(r)
      BY <2>5 DEF Commit, Rollback, DeleteFile
    <2>6. QED
      BY <2>1, <2>2, <2>3, <2>4, <2>5 DEF Upload
  <1>4. UNCHANGED evaluations
    BY DatabaseSteps DEF Database!Open, Database!Insert,
       Database!InsertRejected, Database!InsertLost, Database!Commit,
       Database!CommitUnsent, Database!CommitUnacknowledged, Database!Rollback,
       Database!RollbackFails, databaseVars, Database!vars
  <1>5. \/ UNCHANGED rows
        \/ pc[r] = "commit" /\ rows' = rows \cup pending[r]
    <2> USE DEF Database!Open, Database!Insert, Database!InsertRejected,
            Database!InsertLost, Database!Commit, Database!CommitUnsent,
            Database!CommitUnacknowledged, Database!Rollback,
            Database!RollbackFails, databaseVars, Database!vars
    <2>1. CASE Commit(r)
      BY <2>1 DEF Commit, Goto, Compensate
    <2>2. CASE ~Commit(r)
      BY <2>2 DEF Upload, Receive, FindEvaluation, Validate, FindDuplicate,
         PublishFile, StoreReturns, StoreFails, VerifyContent, Insert,
         InsertFails, Rollback, DeleteFile, Raise
    <2>3. QED
      BY <2>1, <2>2
  <1>6. QED
    BY <1>1, <1>2, <1>3, <1>4, <1>5

(* The server settles the transaction of one request, and nothing else.   *)
LEMMA SettleStep ==
    ASSUME TypeOK, NEW r \in Requests, ServerSettles(r)
    PROVE  /\ UNCHANGED <<requestVars, storageVars, evaluations>>
           /\ \A q \in Requests \ {r} :
                 transaction'[q] = transaction[q] /\ pending'[q] = pending[q]
           /\ transaction[r] \in {"severed", "in_doubt"}
           /\ transaction'[r] = "closed" /\ pending'[r] = {}
           /\ \/ UNCHANGED rows
              \/ transaction[r] = "in_doubt" /\ rows' = rows \cup pending[r]
  BY DEF ServerSettles, Database!Settle, TypeOK, Database!TypeOK

(* A removal takes an evaluation and its rows, and nothing else.          *)
LEMMA RemovalStep ==
    ASSUME TypeOK, NEW e \in Evaluations, RemoveEvaluation(e)
    PROVE  /\ UNCHANGED <<requestVars, storageVars, transaction, pending>>
           /\ evaluations' = evaluations \ {e}
           /\ rows' = {d \in rows : d.evaluation_id # e}
  BY DEF RemoveEvaluation, Database!RemoveEvaluation

(* The death of the process loses no row, and leaves the requests alone that*)
(* had ended or not begun.                                                *)
LEMMA DeathStep ==
    ASSUME TypeOK, Crash \/ PowerLoss
    PROVE  /\ UNCHANGED <<request, outcome, unsafe, position, evaluations,
                          rows, pending, content>>
           /\ \A q \in Requests :
                 /\ \/ /\ pc[q] \in {"idle", "replied", "crashed"}
                       /\ pc'[q] = pc[q] /\ transaction'[q] = transaction[q]
                    \/ /\ pc[q] \notin {"idle", "replied", "crashed"}
                       /\ pc'[q] = "crashed" /\ transaction'[q] # "open"
                 /\ \/ transaction'[q] = transaction[q]
                    \/ transaction[q] = "open" /\ transaction'[q] = "severed"
                    \/ /\ transaction[q] = "open" /\ transaction'[q] = "in_doubt"
                       /\ pc[q] = "commit"
                 /\ status'[q] = "idle" <=> status[q] = "idle"
  <1>1. Die
    BY DEF Crash, PowerLoss
  <1>2. /\ UNCHANGED content
        /\ \A q \in Requests : status'[q] = "idle" <=> status[q] = "idle"
    BY DEF Crash, PowerLoss, Storage!Crash, Storage!PowerLoss
  <1>3. QED
    BY <1>1, <1>2 DEF Die, InFlight, Database!Disconnect

-----------------------------------------------------------------------------
(* What a step does to its own request: the parts it leaves, and the table *)
(* of its calls.                                                           *)

KeepsFile(r) ==
    status'[r] = status[r] /\ files'[r] = files[r] /\ content'[r] = content[r]
KeepsRow(r) ==
    transaction'[r] = transaction[r] /\ pending'[r] = pending[r] /\ UNCHANGED rows
KeepsAnswer(r) == outcome'[r] = outcome[r]
KeepsSource(r) == position'[r] = position[r]
Moves(r, from, to) == pc[r] = from /\ pc'[r] = to
Closes(r) ==
    /\ UNCHANGED rows
    /\ IF transaction[r] = "open" THEN transaction'[r] = "closed" /\ pending'[r] = {}
       ELSE KeepsRow(r)

(* A request that is received opens a transaction.                        *)
LEMMA ReceiveCall ==
    ASSUME TypeOK, NEW r \in Requests, Receive(r)
    PROVE  /\ Moves(r, "idle", "find_evaluation")
           /\ KeepsFile(r) /\ KeepsAnswer(r) /\ KeepsSource(r)
           /\ transaction[r] = "idle" /\ transaction'[r] = "open"
           /\ pending'[r] = pending[r] /\ UNCHANGED rows
  BY DEF TypeOK, Database!TypeOK, Goto, Proceed, Raise, KeepsFile, KeepsRow,
     KeepsAnswer, KeepsSource, Moves, Closes, Database!Rollback,
     Database!vars, storageVars, databaseVars, Receive, Database!Open

(* A missing evaluation, or a query that fails, ends the request.         *)
LEMMA FindEvaluationCall ==
    ASSUME TypeOK, NEW r \in Requests, FindEvaluation(r)
    PROVE  /\ KeepsFile(r) /\ KeepsSource(r)
           /\ \/ /\ Moves(r, "find_evaluation", "validate")
                 /\ KeepsAnswer(r) /\ KeepsRow(r)
              \/ /\ Moves(r, "find_evaluation", "replied")
                 /\ outcome'[r] \in {"evaluation_not_found", "persistence_error"}
                 /\ outcome'[r] = "evaluation_not_found"
                       => request[r].evaluation_id \notin evaluations
                 /\ Closes(r)
  BY DEF TypeOK, Database!TypeOK, Goto, Proceed, Raise, KeepsFile, KeepsRow,
     KeepsAnswer, KeepsSource, Moves, Closes, Database!Rollback,
     Database!vars, storageVars, databaseVars, FindEvaluation,
     Database!EvaluationExists

(* The validation rewinds the source, unless seeking fails.               *)
LEMMA ValidateCall ==
    ASSUME TypeOK, NEW r \in Requests, Validate(r)
    PROVE  /\ KeepsFile(r)
           /\ position'[r] = "start" \/ Happens("seek")
           /\ \/ /\ Moves(r, "validate", "find_duplicate")
                 /\ KeepsAnswer(r) /\ KeepsRow(r)
              \/ /\ Moves(r, "validate", "replied")
                 /\ outcome'[r] \in {"validation_error", "non_seekable"}
                 /\ Closes(r)
  BY DEF TypeOK, Database!TypeOK, Goto, Proceed, Raise, KeepsFile, KeepsRow,
     KeepsAnswer, KeepsSource, Moves, Closes, Database!Rollback,
     Database!vars, storageVars, databaseVars, Validate, Rewound,
     RewindFails

(* The preventive check ends the request, or store() begins to read.      *)
LEMMA FindDuplicateCall ==
    ASSUME TypeOK, NEW r \in Requests, FindDuplicate(r)
    PROVE  /\ KeepsSource(r)
           /\ \/ /\ Moves(r, "find_duplicate", "store")
                 /\ KeepsAnswer(r) /\ KeepsRow(r)
                 /\ status[r] = "idle" /\ status'[r] = "running"
                 /\ files'[r] = files[r]
              \/ /\ Moves(r, "find_duplicate", "replied")
                 /\ outcome'[r] \in {"duplicate", "non_seekable", "persistence_error"}
                 /\ outcome'[r] = "duplicate"
                       => \E d \in rows : Database!SameDocument(d, Document(r))
                 /\ KeepsFile(r) /\ Closes(r)
  <1> USE DEF TypeOK, Database!TypeOK, Goto, Proceed, Raise, KeepsFile, KeepsRow,
          KeepsAnswer, KeepsSource, Moves, Closes, Database!Rollback,
          Database!vars, storageVars, databaseVars
  <1>1. CASE \E x \in Contents :
                /\ Proceed(r, "find_duplicate", "store")
                /\ Storage!Begin(r, r, x)
                /\ UNCHANGED <<position, databaseVars>>
    BY <1>1 DEF Storage!Begin, Storage!Advance, Storage!TypeOK
  <1>2. CASE \E error \in EarlyErrors \ {"storage_error"} :
                /\ Raise(r, "find_duplicate", error)
                /\ UNCHANGED <<position, storageVars>>
    <2>1. \/ Raise(r, "find_duplicate", "non_seekable")
          \/ /\ Raise(r, "find_duplicate", "duplicate")
             /\ \E d \in rows : Database!SameDocument(d, Document(r))
          \/ Raise(r, "find_duplicate", "persistence_error")
      BY <1>2 DEF FindDuplicate, Database!ExistsByEvaluationAndSha256,
         Database!SameDocument, Document
    <2>2. QED
      BY <1>2, <2>1
  <1>3. QED
    BY <1>1, <1>2, FindDuplicateCases

(* store() publishes what it read under a free key.                       *)
LEMMA PublishFileCall ==
    ASSUME TypeOK, NEW r \in Requests, PublishFile(r)
    PROVE  /\ pc[r] = "store" /\ pc'[r] = pc[r]
           /\ KeepsAnswer(r) /\ KeepsRow(r)
           /\ status[r] = "running" /\ status'[r] = "published"
           /\ files[r] = NoFile /\ files'[r] = content[r]
           /\ content'[r] = content[r]
  BY DEF TypeOK, Database!TypeOK, Storage!TypeOK, Storage!Advance, Goto,
     Proceed, Raise, Compensate, KeepsFile, KeepsRow, KeepsAnswer,
     KeepsSource, Moves, Closes, storageVars, databaseVars, PublishFile,
     Storage!Publish

(* store() returns after it published.                                    *)
LEMMA StoreReturnsCall ==
    ASSUME TypeOK, NEW r \in Requests, StoreReturns(r)
    PROVE  /\ Moves(r, "store", "verify")
           /\ KeepsAnswer(r) /\ KeepsRow(r) /\ KeepsSource(r)
           /\ status[r] = "published" /\ status'[r] = "stored"
           /\ files'[r] = files[r] /\ content'[r] = content[r]
  BY DEF TypeOK, Database!TypeOK, Storage!TypeOK, Storage!Advance, Goto,
     Proceed, Raise, Compensate, KeepsFile, KeepsRow, KeepsAnswer,
     KeepsSource, Moves, Closes, storageVars, databaseVars, StoreReturns,
     Storage!Return

(* A store() that raises ends the request, and leaves nothing or a leak.  *)
LEMMA StoreFailsCall ==
    ASSUME TypeOK, NEW r \in Requests, StoreFails(r)
    PROVE  /\ Moves(r, "store", "replied")
           /\ outcome'[r] = "storage_error"
           /\ Closes(r)
           /\ content'[r] = content[r]
           /\ \/ status[r] = "running" /\ status'[r] = "failed" /\ files'[r] = files[r]
              \/ status[r] = "published" /\ status'[r] = "failed" /\ files'[r] = NoFile
              \/ status[r] = "published" /\ status'[r] = "leaked" /\ files'[r] = files[r]
  <1> USE DEF TypeOK, Database!TypeOK, Storage!TypeOK, Storage!Advance,
          Goto, Proceed, Raise, Compensate, KeepsFile, KeepsRow,
          KeepsAnswer, KeepsSource, Moves, Closes, storageVars, databaseVars
  <1>1. Closes(r)
    BY DEF StoreFails, Database!Rollback, Database!vars
  <1>2. QED
    BY <1>1 DEF StoreFails, Storage!Fail, Storage!Withdraw, Storage!Leak

(* Only a request whose content was verified goes on to insert its row.   *)
LEMMA VerifyContentCall ==
    ASSUME TypeOK, NEW r \in Requests, VerifyContent(r)
    PROVE  /\ KeepsFile(r) /\ KeepsRow(r)
           /\ \/ /\ Moves(r, "verify", "insert")
                 /\ content[r] = request[r].sha256
                 /\ KeepsAnswer(r) /\ position'[r] = "start"
              \/ /\ Moves(r, "verify", "rollback")
                 /\ outcome'[r] \in {"non_seekable", "content_mismatch"}
  BY DEF TypeOK, Database!TypeOK, Storage!TypeOK, Storage!Advance, Goto,
     Proceed, Raise, Compensate, KeepsFile, KeepsRow, KeepsAnswer,
     KeepsSource, Moves, Closes, storageVars, databaseVars, VerifyContent,
     Rewound, RewindFails

(* The INSERT is accepted, or refused for what the database holds.        *)
LEMMA InsertCall ==
    ASSUME TypeOK, NEW r \in Requests, Insert(r)
    PROVE  /\ KeepsFile(r) /\ KeepsSource(r)
           /\ transaction[r] = "open" /\ UNCHANGED rows
           /\ \/ /\ Moves(r, "insert", "commit")
                 /\ KeepsAnswer(r)
                 /\ transaction'[r] = "open" /\ pending'[r] = {Document(r)}
                 /\ Database!InsertError(Document(r)) = "none"
                 /\ ~Database!Blocked(r, Document(r))
              \/ /\ Moves(r, "insert", "rollback")
                 /\ outcome'[r] = Database!InsertError(Document(r))
                 /\ outcome'[r] # "none"
                 /\ transaction'[r] = "closed" /\ pending'[r] = pending[r]
  BY DEF TypeOK, Database!TypeOK, Goto, Proceed, Compensate, KeepsFile,
     KeepsAnswer, KeepsSource, Moves, storageVars, Insert, Database!Insert,
     Database!InsertRejected, Database!CanInsert

(* A connection lost under the INSERT leaves its row to be rolled back.   *)
LEMMA InsertFailsCall ==
    ASSUME TypeOK, NEW r \in Requests, InsertFails(r)
    PROVE  /\ KeepsFile(r) /\ KeepsSource(r)
           /\ Moves(r, "insert", "rollback")
           /\ outcome'[r] = "persistence_error"
           /\ transaction'[r] = "severed" /\ UNCHANGED rows
           /\ pending'[r] \in {pending[r], {Document(r)}}
  BY DEF TypeOK, Database!TypeOK, Goto, Proceed, Compensate, KeepsFile,
     KeepsAnswer, KeepsSource, Moves, storageVars, InsertFails,
     Database!InsertLost

(* A COMMIT takes effect, or the compensation begins.                     *)
LEMMA CommitCall ==
    ASSUME TypeOK, NEW r \in Requests, Commit(r)
    PROVE  /\ KeepsFile(r) /\ KeepsSource(r)
           /\ transaction[r] = "open"
           /\ \/ /\ Moves(r, "commit", "replied")
                 /\ outcome'[r] = "created"
                 /\ transaction'[r] = "closed" /\ pending'[r] = {}
                 /\ rows' = rows \cup pending[r]
              \/ /\ Moves(r, "commit", "rollback")
                 /\ outcome'[r] = "persistence_error"
                 /\ \/ transaction'[r] = "severed"
                    \/ transaction'[r] = "in_doubt" /\ Happens("lost_ack")
                 /\ pending'[r] = pending[r] /\ UNCHANGED rows
  BY DEF TypeOK, Database!TypeOK, Goto, Proceed, Compensate, KeepsFile,
     KeepsAnswer, KeepsSource, Moves, storageVars, Commit, Database!Commit,
     Database!CommitUnsent, Database!CommitUnacknowledged

(* The rollback leaves no open transaction.                               *)
LEMMA RollbackCall ==
    ASSUME TypeOK, NEW r \in Requests, Rollback(r)
    PROVE  /\ Moves(r, "rollback", "delete")
           /\ KeepsFile(r) /\ KeepsAnswer(r) /\ KeepsSource(r)
           /\ \/ Closes(r)
              \/ /\ transaction[r] = "open" /\ transaction'[r] = "severed"
                 /\ pending'[r] = pending[r] /\ UNCHANGED rows
  BY DEF TypeOK, Database!TypeOK, Storage!TypeOK, Goto, KeepsFile, KeepsRow,
     KeepsAnswer, KeepsSource, Moves, Closes, storageVars, databaseVars,
     Rollback, Database!Rollback, Database!RollbackFails, Database!vars

(* The delete takes the file back, or the request says that it could not. *)
LEMMA DeleteFileCall ==
    ASSUME TypeOK, NEW r \in Requests, DeleteFile(r)
    PROVE  /\ Moves(r, "delete", "replied")
           /\ KeepsRow(r)
           /\ position'[r] = "start" \/ Happens("seek")
           /\ outcome'[r] \in {outcome[r], "compensation_error"}
           /\ status[r] = "stored" /\ content'[r] = content[r]
           /\ \/ status'[r] = "deleted" /\ files'[r] = NoFile
              \/ /\ status'[r] = "undeleted" /\ files'[r] = files[r]
                 /\ outcome'[r] = "compensation_error"
  <1> USE DEF TypeOK, Database!TypeOK, Storage!TypeOK, Goto, KeepsFile, KeepsRow,
          KeepsAnswer, KeepsSource, Moves, Closes, storageVars, databaseVars
  <1>1. position'[r] = "start" \/ Happens("seek")
    BY DEF DeleteFile, Rewound, RewindFails
  <1>2. QED
    BY <1>1 DEF DeleteFile, Compensated, Storage!Delete,
       Storage!DeleteFails, Storage!Advance

-----------------------------------------------------------------------------
(* The invariant under every fault, one lemma per conjunct.                *)

(* The steps of a system with TypeOK, one disjunct for each kind.          *)
LEMMA StepCases ==
    ASSUME [Next]_vars
    PROVE  \/ \E r \in Requests : Receive(r) \/ Upload(r) \/ InsertFails(r)
           \/ \E r \in Requests : ServerSettles(r)
           \/ \E e \in Evaluations : RemoveEvaluation(e)
           \/ Crash \/ PowerLoss
           \/ UNCHANGED vars
  BY DEF Next

(* Every step keeps the storage call of a request in step with it.         *)
LEMMA CallsFollowStep ==
    ASSUME TypeOK, CallsFollow, [Next]_vars
    PROVE  CallsFollow'
  <1> USE DEF CallsFollow
  <1>1. ASSUME NEW r \in Requests, Receive(r) \/ Upload(r) \/ InsertFails(r)
        PROVE  CallsFollow'
    BY <1>1, OnlyItsOwn, ReceiveCall, FindEvaluationCall, ValidateCall,
       FindDuplicateCall, PublishFileCall, StoreReturnsCall, StoreFailsCall,
       VerifyContentCall, InsertCall, InsertFailsCall, CommitCall,
       RollbackCall, DeleteFileCall DEF Upload, Moves, KeepsFile
  <1>2. ASSUME NEW r \in Requests, ServerSettles(r) PROVE CallsFollow'
    BY <1>2, SettleStep DEF requestVars, storageVars
  <1>3. ASSUME NEW e \in Evaluations, RemoveEvaluation(e) PROVE CallsFollow'
    BY <1>3, RemovalStep DEF requestVars, storageVars
  <1>4. CASE Crash \/ PowerLoss
    BY <1>4, DeathStep DEF TypeOK, PCs
  <1>5. CASE UNCHANGED vars
    BY <1>5 DEF vars, requestVars, storageVars
  <1>6. QED
    BY <1>1, <1>2, <1>3, <1>4, <1>5, StepCases

(* A step of one request keeps its row in step with it.                    *)
LEMMA TransactionFollowsCall ==
    ASSUME TypeOK, TransactionsFollow,
           NEW r \in Requests, Receive(r) \/ Upload(r) \/ InsertFails(r)
    PROVE  /\ pending'[r] \subseteq {Document(r)}
           /\ transaction'[r] \in {"idle", "closed"} => pending'[r] = {}
           /\ transaction'[r] = "open" /\ pc'[r] # "commit" => pending'[r] = {}
           /\ pc'[r] = "commit" => /\ transaction'[r] = "open"
                                   /\ pending'[r] = {Document(r)}
           /\ transaction'[r] = "open"
                 => pc'[r] \notin {"idle", "delete", "replied", "crashed"}
  <1> DEFINE P == {{}, {Document(r)}}
  <1>1. pending[r] \in P
    BY DEF TransactionsFollow
  <1>2. /\ transaction[r] \in {"idle", "closed"} => pending[r] = {}
        /\ transaction[r] = "open" /\ pc[r] # "commit" => pending[r] = {}
        /\ pc[r] = "commit" => /\ transaction[r] = "open"
                               /\ pending[r] = {Document(r)}
        /\ transaction[r] = "open"
              => pc[r] \notin {"idle", "delete", "replied", "crashed"}
    BY DEF TransactionsFollow
  <1> USE DEF Moves, KeepsRow, Closes
  <1>3. CASE Receive(r)
    BY <1>1, <1>2, <1>3, ReceiveCall
  <1>4. CASE FindEvaluation(r)
    BY <1>1, <1>2, <1>4, FindEvaluationCall
  <1>5. CASE Validate(r)
    BY <1>1, <1>2, <1>5, ValidateCall
  <1>6. CASE FindDuplicate(r)
    BY <1>1, <1>2, <1>6, FindDuplicateCall
  <1>7. CASE PublishFile(r) \/ StoreReturns(r)
    BY <1>1, <1>2, <1>7, PublishFileCall, StoreReturnsCall
  <1>8. CASE StoreFails(r) \/ VerifyContent(r)
    BY <1>1, <1>2, <1>8, StoreFailsCall, VerifyContentCall
  <1>9. CASE Insert(r)
    BY <1>1, <1>2, <1>9, InsertCall
  <1>10. CASE InsertFails(r)
    BY <1>1, <1>2, <1>10, InsertFailsCall
  <1>11. CASE Commit(r)
    BY <1>1, <1>2, <1>11, CommitCall
  <1>12. CASE Rollback(r)
    BY <1>1, <1>2, <1>12, RollbackCall
  <1>13. CASE DeleteFile(r)
    BY <1>1, <1>2, <1>13, DeleteFileCall
  <1>14. QED
    BY <1>3, <1>4, <1>5, <1>6, <1>7, <1>8, <1>9, <1>10, <1>11, <1>12, <1>13 DEF Upload

(* Every step keeps the row of a transaction in step with its request.     *)
LEMMA TransactionsFollowStep ==
    ASSUME TypeOK, TransactionsFollow, [Next]_vars
    PROVE  TransactionsFollow'
  <1> USE DEF TransactionsFollow
  <1>1. ASSUME NEW r \in Requests, Receive(r) \/ Upload(r) \/ InsertFails(r)
        PROVE  TransactionsFollow'
    <2>1. \A q \in Requests : Document(q)' = Document(q)
      BY <1>1, OnlyItsOwn DEF Document
    <2>2. QED
      BY <1>1, <2>1, OnlyItsOwn, TransactionFollowsCall
  <1>2. ASSUME NEW r \in Requests, ServerSettles(r) PROVE TransactionsFollow'
    BY <1>2, SettleStep DEF requestVars, Document
  <1>3. ASSUME NEW e \in Evaluations, RemoveEvaluation(e) PROVE TransactionsFollow'
    BY <1>3, RemovalStep DEF requestVars, Document
  <1>4. CASE Crash \/ PowerLoss
    BY <1>4, DeathStep DEF Document
  <1>5. CASE UNCHANGED vars
    BY <1>5 DEF vars, requestVars, databaseVars, Document
  <1>6. QED
    BY <1>1, <1>2, <1>3, <1>4, <1>5, StepCases

(* Verified content is never replaced: what a request stored stays.        *)
LEMMA VerifiedStays ==
    ASSUME TypeOK, CallsFollow, [Next]_vars, NEW q \in Requests, status[q] # "idle"
    PROVE  status'[q] # "idle" /\ content'[q] = content[q] /\ request' = request
  <1>1. ASSUME NEW r \in Requests, Receive(r) \/ Upload(r) \/ InsertFails(r)
        PROVE  status'[q] # "idle" /\ content'[q] = content[q] /\ request' = request
    BY <1>1, OnlyItsOwn, ReceiveCall, FindEvaluationCall, ValidateCall,
       FindDuplicateCall, PublishFileCall, StoreReturnsCall, StoreFailsCall,
       VerifyContentCall, InsertCall, InsertFailsCall, CommitCall,
       RollbackCall, DeleteFileCall DEF Upload, KeepsFile
  <1>2. QED
    BY <1>1, StepCases, SettleStep, RemovalStep, DeathStep
       DEF vars, requestVars, storageVars

(* A row in the database, or about to be, comes from a verified INSERT.    *)
LEMMA RowsComeVerified ==
    ASSUME TypeOK, CallsFollow, TransactionsFollow, RowsAreVerified, [Next]_vars,
           NEW q \in Requests,
           pc'[q] \in {"insert", "commit"} \/ pending'[q] # {} \/ Recorded(q)'
    PROVE  status[q] # "idle" /\ content[q] = request[q].sha256
  <1>1. /\ pc[q] = "verify" => status[q] # "idle"
        /\ pc[q] \in {"insert", "commit"} \/ pending[q] # {} \/ Recorded(q)
              => status[q] # "idle" /\ content[q] = request[q].sha256
    BY DEF CallsFollow, RowsAreVerified
  <1>2. ASSUME NEW r \in Requests, Receive(r) \/ Upload(r) \/ InsertFails(r)
        PROVE  status[q] # "idle" /\ content[q] = request[q].sha256
    <2>1. \/ UNCHANGED rows
          \/ pc[r] = "commit" /\ rows' = rows \cup pending[r]
      BY <1>2, OnlyItsOwn
    <2>2. Recorded(q)' => Recorded(q) \/ (pc[r] = "commit" /\ r = q)
      BY <2>1 DEF Recorded, TransactionsFollow, Document
    <2>3. pc'[q] \in {"insert", "commit"} \/ pending'[q] # {}
          => \/ pc[q] \in {"insert", "commit"} \/ pending[q] # {}
             \/ pc[q] = "verify" /\ content[q] = request[q].sha256
      <3>1. CASE q # r
        BY <1>2, <3>1, OnlyItsOwn
      <3>2. CASE q = r
        <4> USE <3>2 DEF Moves, KeepsRow, Closes
        <4>1. CASE Receive(r) \/ FindEvaluation(r) \/ Validate(r)
          BY <4>1, ReceiveCall, FindEvaluationCall, ValidateCall
        <4>2. CASE FindDuplicate(r)
          BY <4>2, FindDuplicateCall
        <4>3. CASE PublishFile(r) \/ StoreReturns(r) \/ StoreFails(r)
          BY <4>3, PublishFileCall, StoreReturnsCall, StoreFailsCall
        <4>4. CASE VerifyContent(r)
          BY <4>4, VerifyContentCall
        <4>5. CASE Insert(r) \/ InsertFails(r)
          BY <4>5, InsertCall, InsertFailsCall
        <4>6. CASE Commit(r)
          BY <4>6, CommitCall
        <4>7. CASE Rollback(r) \/ DeleteFile(r)
          BY <4>7, RollbackCall, DeleteFileCall
        <4>8. QED
          BY <1>2, <4>1, <4>2, <4>3, <4>4, <4>5, <4>6, <4>7 DEF Upload
      <3>3. QED
        BY <3>1, <3>2
    <2>4. QED
      BY <1>1, <2>2, <2>3
  <1>3. ASSUME NEW r \in Requests, ServerSettles(r)
        PROVE  status[q] # "idle" /\ content[q] = request[q].sha256
    <2>1. Recorded(q)' => Recorded(q) \/ pending[q] # {}
      BY <1>3, SettleStep DEF Recorded, TransactionsFollow, Document
    <2>2. pc'[q] = pc[q] /\ (pending'[q] # {} => pending[q] # {})
      BY <1>3, SettleStep DEF requestVars
    <2>3. QED
      BY <1>1, <2>1, <2>2 DEF RowsAreVerified
  <1>4. ASSUME NEW e \in Evaluations, RemoveEvaluation(e)
        PROVE  status[q] # "idle" /\ content[q] = request[q].sha256
    BY <1>4, RemovalStep DEF RowsAreVerified, Recorded, requestVars
  <1>5. CASE Crash \/ PowerLoss
    BY <1>5, DeathStep DEF RowsAreVerified, Recorded
  <1>6. CASE UNCHANGED vars
    BY <1>6 DEF vars, requestVars, databaseVars, RowsAreVerified, Recorded
  <1>7. QED
    BY <1>2, <1>3, <1>4, <1>5, <1>6, StepCases

(* A committed row is the document of its request.                         *)
LEMMA RowsAreDocuments ==
    ASSUME TypeOK, TransactionsFollow, [Next]_vars,
           \A d \in rows : d = Document(d.id)
    PROVE  \A d \in rows' : d = Document(d.id)'
  <1>1. ASSUME NEW r \in Requests, rows' \subseteq rows \cup pending[r],
               request' = request
        PROVE  \A d \in rows' : d = Document(d.id)'
    BY <1>1 DEF TransactionsFollow, Document
  <1>2. ASSUME rows' \subseteq rows, request' = request
        PROVE  \A d \in rows' : d = Document(d.id)'
    BY <1>2 DEF Document
  <1>3. ASSUME NEW r \in Requests, Receive(r) \/ Upload(r) \/ InsertFails(r)
        PROVE  \A d \in rows' : d = Document(d.id)'
    BY <1>1, <1>3, OnlyItsOwn
  <1>4. ASSUME NEW r \in Requests, ServerSettles(r)
        PROVE  \A d \in rows' : d = Document(d.id)'
    BY <1>1, <1>4, SettleStep DEF requestVars
  <1>5. QED
    BY <1>2, <1>3, <1>4, StepCases, RemovalStep, DeathStep
       DEF vars, requestVars, databaseVars

(* Every step keeps the rows, there or to come, verified.                  *)
LEMMA RowsAreVerifiedStep ==
    ASSUME TypeOK, CallsFollow, TransactionsFollow, RowsAreVerified, [Next]_vars
    PROVE  RowsAreVerified'
  <1>1. ASSUME NEW q \in Requests,
               pc'[q] \in {"insert", "commit"} \/ pending'[q] # {} \/ Recorded(q)'
        PROVE  status'[q] # "idle" /\ content'[q] = (request[q].sha256)'
    BY <1>1, RowsComeVerified, VerifiedStays
  <1>2. \A d \in rows' : d = Document(d.id)'
    BY RowsAreDocuments DEF RowsAreVerified
  <1>3. QED
    BY <1>1, <1>2 DEF RowsAreVerified

(* Every step leaves to a request no file but its own.                     *)
LEMMA FilesAreWholeStep ==
    ASSUME TypeOK, FilesAreWhole, [Next]_vars
    PROVE  FilesAreWhole'
  <1> USE DEF FilesAreWhole
  <1>1. ASSUME NEW r \in Requests, Receive(r) \/ Upload(r) \/ InsertFails(r)
        PROVE  FilesAreWhole'
    BY <1>1, OnlyItsOwn, ReceiveCall, FindEvaluationCall, ValidateCall,
       FindDuplicateCall, PublishFileCall, StoreReturnsCall, StoreFailsCall,
       VerifyContentCall, InsertCall, InsertFailsCall, CommitCall,
       RollbackCall, DeleteFileCall DEF Upload, KeepsFile
  <1>2. ASSUME NEW r \in Requests, ServerSettles(r) PROVE FilesAreWhole'
    BY <1>2, SettleStep DEF storageVars
  <1>3. ASSUME NEW e \in Evaluations, RemoveEvaluation(e) PROVE FilesAreWhole'
    BY <1>3, RemovalStep DEF storageVars
  <1>4. CASE Crash
    BY <1>4, DeathStep DEF Crash, Storage!Crash
  <1>5. CASE PowerLoss
    <2>1. /\ \A q \in Requests : status'[q] = "idle" <=> status[q] = "idle"
          /\ UNCHANGED content
      BY <1>5, DeathStep
    <2>2. \A q \in Requests :
             \/ files'[q] = NoFile
             \/ status[q] # "idle" /\ files'[q] = content[q]
      BY <1>5 DEF PowerLoss, Storage!PowerLoss
    <2>3. QED
      BY <2>1, <2>2
  <1>6. CASE UNCHANGED vars
    BY <1>6 DEF vars, storageVars
  <1>7. QED
    BY <1>1, <1>2, <1>3, <1>4, <1>5, <1>6, StepCases

(* The error of a refused INSERT is true of the database.                  *)
LEMMA RefusalsAreTrue ==
    ASSUME NEW d
    PROVE  /\ Database!InsertError(d) \in {"none", "persistence_error", "duplicate",
                                          "evaluation_not_found"}
           /\ Database!InsertError(d) = "duplicate"
                 => \E e \in rows : Database!SameDocument(e, d)
           /\ Database!InsertError(d) = "evaluation_not_found"
                 => d.evaluation_id \notin evaluations
  BY DEF Database!InsertError, Database!SameDocument

(* Every step keeps what was answered true.                                *)
LEMMA AnswersStandStep ==
    ASSUME TypeOK, TransactionsFollow, AnswersStand, [Next]_vars
    PROVE  AnswersStand'
  <1> USE DEF AnswersStand, Document, Database!SameDocument
  <1>1. ASSUME NEW r \in Requests, Receive(r) \/ Upload(r) \/ InsertFails(r)
        PROVE  AnswersStand'
    <2>1. ASSUME rows \subseteq rows', KeepsAnswer(r) PROVE AnswersStand'
      BY <1>1, <2>1, OnlyItsOwn DEF KeepsAnswer
    <2>2. ASSUME rows \subseteq rows', outcome'[r] \notin {"created", "duplicate"}
          PROVE  AnswersStand'
      BY <1>1, <2>2, OnlyItsOwn
    <2>3. ASSUME rows \subseteq rows', outcome'[r] = "duplicate",
                 \E d \in rows : Database!SameDocument(d, Document(r))
          PROVE  AnswersStand'
      BY <1>1, <2>3, OnlyItsOwn
    <2>4. rows \subseteq rows'
      BY <1>1, OnlyItsOwn
    <2>5. CASE Receive(r) \/ FindEvaluation(r) \/ Validate(r) \/ FindDuplicate(r)
      BY <2>1, <2>2, <2>3, <2>4, <2>5, ReceiveCall, FindEvaluationCall, ValidateCall,
         FindDuplicateCall
    <2>6. CASE PublishFile(r) \/ StoreReturns(r) \/ StoreFails(r) \/ VerifyContent(r)
      BY <2>1, <2>2, <2>4, <2>6, PublishFileCall, StoreReturnsCall,
         StoreFailsCall, VerifyContentCall
    <2>7. CASE Insert(r)
      BY <2>1, <2>2, <2>3, <2>4, <2>7, InsertCall, RefusalsAreTrue
    <2>8. CASE Commit(r)
      <3>1. CASE outcome'[r] = "created"
        BY <1>1, <2>8, <3>1, OnlyItsOwn, CommitCall DEF TransactionsFollow, Moves
      <3>2. QED
        BY <2>2, <2>4, <2>8, <3>1, CommitCall
    <2>9. CASE InsertFails(r) \/ Rollback(r) \/ DeleteFile(r)
      BY <2>1, <2>2, <2>4, <2>9, InsertFailsCall, RollbackCall, DeleteFileCall
         DEF KeepsAnswer
    <2>10. QED
      BY <1>1, <2>5, <2>6, <2>7, <2>8, <2>9 DEF Upload
  <1>2. ASSUME NEW r \in Requests, ServerSettles(r) PROVE AnswersStand'
    BY <1>2, SettleStep DEF requestVars
  <1>3. ASSUME NEW e \in Evaluations, RemoveEvaluation(e) PROVE AnswersStand'
    BY <1>3, RemovalStep DEF requestVars
  <1>4. CASE Crash \/ PowerLoss
    BY <1>4, DeathStep
  <1>5. CASE UNCHANGED vars
    BY <1>5 DEF vars, requestVars, databaseVars
  <1>6. QED
    BY <1>1, <1>2, <1>3, <1>4, <1>5, StepCases

(* Every step keeps the source where the next call expects it.             *)
LEMMA SourcesFollowStep ==
    ASSUME TypeOK, SourcesFollow, [Next]_vars
    PROVE  SourcesFollow'
  <1> USE DEF SourcesFollow
  <1>1. ASSUME NEW r \in Requests, Receive(r) \/ Upload(r) \/ InsertFails(r)
        PROVE  SourcesFollow'
    BY <1>1, OnlyItsOwn, ReceiveCall, FindEvaluationCall, ValidateCall,
       FindDuplicateCall, PublishFileCall, StoreReturnsCall, StoreFailsCall,
       VerifyContentCall, InsertCall, InsertFailsCall, CommitCall,
       RollbackCall, DeleteFileCall DEF Upload, Moves, KeepsSource, Happens
  <1>2. ASSUME NEW r \in Requests, ServerSettles(r) PROVE SourcesFollow'
    BY <1>2, SettleStep DEF requestVars, Happens
  <1>3. ASSUME NEW e \in Evaluations, RemoveEvaluation(e) PROVE SourcesFollow'
    BY <1>3, RemovalStep DEF requestVars, Happens
  <1>4. CASE Crash \/ PowerLoss
    BY <1>4, DeathStep DEF Happens
  <1>5. CASE UNCHANGED vars
    BY <1>5 DEF vars, requestVars, Happens
  <1>6. QED
    BY <1>1, <1>2, <1>3, <1>4, <1>5, StepCases

-----------------------------------------------------------------------------
(* What holds besides as long as no power, or no acknowledgement, is lost.  *)

(* A step of one request keeps what it owns.                               *)
LEMMA FileIsOwnedCall ==
    ASSUME TypeOK, CallsFollow, FilesAreOwned,
           NEW r \in Requests, Receive(r) \/ Upload(r) \/ InsertFails(r)
    PROVE  /\ status'[r] \in {"published", "stored"} => files'[r] = content'[r]
           /\ status'[r] \in {"idle", "running", "failed", "deleted"}
                 => files'[r] = NoFile
           /\ pc'[r] = "replied" /\ outcome'[r] \notin {"created", "compensation_error"}
                 => status'[r] \in {"idle", "failed", "leaked", "deleted"}
  <1>1. /\ status[r] \in {"published", "stored"} => files[r] = content[r]
        /\ status[r] \in {"idle", "running", "failed", "deleted"}
              => files[r] = NoFile
    BY DEF FilesAreOwned
  <1> USE DEF Moves, KeepsFile
  <1>2. CASE Receive(r) \/ FindEvaluation(r) \/ Validate(r)
    BY <1>1, <1>2, ReceiveCall, FindEvaluationCall, ValidateCall DEF CallsFollow
  <1>3. CASE FindDuplicate(r)
    BY <1>1, <1>3, FindDuplicateCall DEF CallsFollow
  <1>4. CASE PublishFile(r) \/ StoreReturns(r)
    BY <1>1, <1>4, PublishFileCall, StoreReturnsCall
  <1>5. CASE StoreFails(r)
    BY <1>1, <1>5, StoreFailsCall
  <1>6. CASE VerifyContent(r) \/ Insert(r) \/ InsertFails(r)
    BY <1>1, <1>6, VerifyContentCall, InsertCall, InsertFailsCall
  <1>7. CASE Commit(r) \/ Rollback(r)
    BY <1>1, <1>7, CommitCall, RollbackCall
  <1>8. CASE DeleteFile(r)
    BY <1>1, <1>8, DeleteFileCall
  <1>9. QED
    BY <1>2, <1>3, <1>4, <1>5, <1>6, <1>7, <1>8 DEF Upload

(* Without a power loss, every step keeps each file with its request.      *)
LEMMA FilesAreOwnedStep ==
    ASSUME PowerKept, TypeOK, CallsFollow, FilesAreOwned, [Next]_vars
    PROVE  FilesAreOwned'
  <1>1. ASSUME NEW r \in Requests, Receive(r) \/ Upload(r) \/ InsertFails(r)
        PROVE  FilesAreOwned'
    BY <1>1, OnlyItsOwn, FileIsOwnedCall DEF FilesAreOwned
  <1>2. ASSUME NEW r \in Requests, ServerSettles(r) PROVE FilesAreOwned'
    BY <1>2, SettleStep DEF requestVars, storageVars, FilesAreOwned
  <1>3. ASSUME NEW e \in Evaluations, RemoveEvaluation(e) PROVE FilesAreOwned'
    BY <1>3, RemovalStep DEF requestVars, storageVars, FilesAreOwned
  <1>4. CASE Crash
    <2>1. \A q \in Requests : pc'[q] = "replied" => pc[q] = "replied"
      BY <1>4, DeathStep
    <2>2. \A q \in Requests :
             /\ files'[q] = files[q] /\ content'[q] = content[q]
             /\ outcome'[q] = outcome[q]
             /\ \/ status'[q] = status[q]
                \/ status'[q] = "crashed" /\ status[q] \in {"running", "published"}
      BY <1>4 DEF Crash, Die, Storage!Crash
    <2>3. QED
      BY <2>1, <2>2 DEF FilesAreOwned
  <1>5. ~PowerLoss
    BY DEF PowerLoss, PowerKept
  <1>6. CASE UNCHANGED vars
    BY <1>6 DEF vars, requestVars, storageVars, FilesAreOwned
  <1>7. QED
    BY <1>1, <1>2, <1>3, <1>4, <1>5, <1>6, StepCases

(* A step of one request never leaves its row, there or in doubt, without  *)
(* its file.                                                               *)
LEMMA RowIsBackedCall ==
    ASSUME NothingLost, TypeOK, CallsFollow, TransactionsFollow, RowsAreBacked,
           NEW r \in Requests, Receive(r) \/ Upload(r) \/ InsertFails(r)
    PROVE  /\ transaction'[r] = "in_doubt" => pc'[r] = "crashed"
           /\ Recorded(r)' => \/ pc'[r] = "crashed"
                              \/ pc'[r] = "replied" /\ outcome'[r] = "created"
           /\ transaction'[r] = "in_doubt" \/ Recorded(r)' => status'[r] = "stored"
  <1>1. pc[r] \notin {"crashed", "replied"}
    BY ReceiveCall, FindEvaluationCall, ValidateCall,
       FindDuplicateCall, PublishFileCall, StoreReturnsCall, StoreFailsCall,
       VerifyContentCall, InsertCall, InsertFailsCall, CommitCall,
       RollbackCall, DeleteFileCall DEF Upload, Moves
  <1>2. ~Recorded(r) /\ transaction[r] # "in_doubt"
    BY <1>1 DEF RowsAreBacked
  <1>3. transaction'[r] # "in_doubt"
    BY <1>2, ReceiveCall, FindEvaluationCall, ValidateCall,
       FindDuplicateCall, PublishFileCall, StoreReturnsCall, StoreFailsCall,
       VerifyContentCall, InsertCall, InsertFailsCall, CommitCall,
       RollbackCall, DeleteFileCall DEF Upload, KeepsRow, Closes, NothingLost
  <1>4. CASE UNCHANGED rows
    BY <1>2, <1>3, <1>4 DEF Recorded
  <1>5. CASE ~UNCHANGED rows
    <2>1. pc[r] = "commit"
      BY <1>5, OnlyItsOwn
    <2>2. Commit(r)
      BY <2>1, ReceiveCall, FindEvaluationCall, ValidateCall,
         FindDuplicateCall, PublishFileCall, StoreReturnsCall, StoreFailsCall,
         VerifyContentCall, InsertCall, InsertFailsCall, RollbackCall,
         DeleteFileCall DEF Upload, Moves
    <2>3. pc'[r] = "replied" /\ outcome'[r] = "created" /\ status'[r] = status[r]
      BY <1>5, <2>2, CommitCall DEF Moves, KeepsFile
    <2>4. QED
      BY <1>3, <2>1, <2>3 DEF CallsFollow
  <1>6. QED
    BY <1>4, <1>5

(* Without a power loss or a lost acknowledgement, every step keeps the    *)
(* rows, there or in doubt, with their files.                              *)
LEMMA RowsAreBackedStep ==
    ASSUME NothingLost, TypeOK, CallsFollow, TransactionsFollow, RowsAreBacked,
           [Next]_vars
    PROVE  RowsAreBacked'
  <1>1. ASSUME NEW r \in Requests, Receive(r) \/ Upload(r) \/ InsertFails(r)
        PROVE  RowsAreBacked'
    <2>1. \A q \in Requests \ {r} : Recorded(q)' => Recorded(q)
      BY <1>1, OnlyItsOwn DEF Recorded, TransactionsFollow, Document
    <2>2. QED
      BY <1>1, <2>1, OnlyItsOwn, RowIsBackedCall DEF RowsAreBacked
  <1>2. ASSUME NEW r \in Requests, ServerSettles(r) PROVE RowsAreBacked'
    <2>1. \A q \in Requests :
             Recorded(q)' => Recorded(q) \/ transaction[q] = "in_doubt"
      BY <1>2, SettleStep DEF Recorded, TransactionsFollow, Document
    <2>2. QED
      BY <1>2, <2>1, SettleStep DEF requestVars, storageVars, RowsAreBacked
  <1>3. ASSUME NEW e \in Evaluations, RemoveEvaluation(e) PROVE RowsAreBacked'
    BY <1>3, RemovalStep DEF requestVars, storageVars, RowsAreBacked, Recorded
  <1>4. CASE Crash
    <2>1. \A q \in Requests : Recorded(q)' <=> Recorded(q)
      BY <1>4, DeathStep DEF Recorded
    <2>2. \A q \in Requests : status[q] = "stored" => status'[q] = "stored"
      BY <1>4 DEF Crash, Storage!Crash
    <2>3. QED
      BY <1>4, <2>1, <2>2, DeathStep DEF RowsAreBacked, CallsFollow
  <1>5. ~PowerLoss
    BY DEF PowerLoss, NothingLost, PowerKept
  <1>6. CASE UNCHANGED vars
    BY <1>6 DEF vars, requestVars, databaseVars, storageVars, RowsAreBacked,
       Recorded
  <1>7. QED
    BY <1>1, <1>2, <1>3, <1>4, <1>5, <1>6, StepCases

-----------------------------------------------------------------------------
(* The invariants, and the properties that follow from them. *)

(* The initial states satisfy all of it.                                   *)
LEMMA InitInv == Init => UploadInv
  <1> SUFFICES ASSUME Init PROVE UploadInv
    OBVIOUS
  <1>1. TypeOK
    BY InitTypeOK
  <1>2. QED
    BY <1>1 DEF Init, Database!Init, UploadInv, OwnedInv, SoundInv, CallsFollow,
       TransactionsFollow, RowsAreVerified, FilesAreWhole, AnswersStand,
       SourcesFollow, FilesAreOwned, RowsAreBacked, Recorded, Document, Happens

(* Every step keeps what holds under every fault.                          *)
LEMMA NextSoundInv == SoundInv /\ [Next]_vars => SoundInv'
  BY NextTypeOK, CallsFollowStep, TransactionsFollowStep, RowsAreVerifiedStep,
     FilesAreWholeStep, AnswersStandStep, SourcesFollowStep DEF SoundInv

(* The storage calls, the transactions, the rows, the files, the answers   *)
(* and the sources stay in step with the requests under every fault.       *)
THEOREM SoundInvariant == Spec => []SoundInv
  <1>1. Init => SoundInv
    BY InitInv DEF UploadInv, OwnedInv
  <1>2. QED
    BY <1>1, NextSoundInv, PTL DEF Spec

(* As long as no power is lost each file also stays with its request.      *)
THEOREM OwnedInvariant == ASSUME PowerKept PROVE Spec => []OwnedInv
  <1>1. Init => OwnedInv
    BY InitInv DEF UploadInv
  <1>2. OwnedInv /\ [Next]_vars => OwnedInv'
    BY NextSoundInv, FilesAreOwnedStep DEF OwnedInv, SoundInv
  <1>3. QED
    BY <1>1, <1>2, PTL DEF Spec

(* As long as no acknowledgement is lost either each row, there or in      *)
(* doubt, stays with its file.                                             *)
THEOREM UploadInvariant == ASSUME NothingLost PROVE Spec => []UploadInv
  <1>1. UploadInv /\ [Next]_vars => UploadInv'
    BY NextSoundInv, FilesAreOwnedStep, RowsAreBackedStep
       DEF UploadInv, OwnedInv, SoundInv, NothingLost
  <1>2. QED
    BY <1>1, InitInv, PTL DEF Spec

(* Under every fault a committed row misses its file or finds it whole.    *)
THEOREM RowFilesAreWhole == Spec => []RowFileIsWhole
  <1>1. SoundInv => RowFileIsWhole
    <2> SUFFICES ASSUME SoundInv, NEW d \in rows
                 PROVE  files[d.id] \in {NoFile, d.sha256}
      BY DEF RowFileIsWhole
    <2>1. d.id \in Requests /\ Recorded(d.id)
      BY DEF SoundInv, TypeOK, Database!TypeOK, Database!Row, Recorded
    <2>2. content[d.id] = request[d.id].sha256 /\ d = Document(d.id)
      BY <2>1 DEF SoundInv, RowsAreVerified
    <2>3. d.sha256 = content[d.id]
      BY <2>2 DEF Document
    <2>4. QED
      BY <2>1, <2>3 DEF SoundInv, FilesAreWhole
  <1>2. QED
    BY <1>1, SoundInvariant, PTL

(* Under every fault a document whose upload returned stays as long as its *)
(* evaluation.                                                             *)
THEOREM CreatedStays == Spec => []CreatedIsKept
  <1>1. SoundInv => CreatedIsKept
    BY DEF SoundInv, AnswersStand, CreatedIsKept
  <1>2. QED
    BY <1>1, SoundInvariant, PTL

(* Whatever else fails, a source that can seek is back at its start once   *)
(* upload() answered, unless store() raised.                               *)
THEOREM SourcesAreRestored == Spec => []SourceRestored
  <1>1. SoundInv => SourceRestored
    BY DEF SoundInv, SourcesFollow, SourceRestored
  <1>2. QED
    BY <1>1, SoundInvariant, PTL

(* As long as no power is lost, a file without a row has a known cause,    *)
(* lost acknowledgements included.                                         *)
THEOREM OrphansHaveACause == ASSUME PowerKept PROVE Spec => []OrphansAreExplained
  <1>1. OwnedInv => OrphansAreExplained
    <2> SUFFICES ASSUME OwnedInv, NEW r \in Requests, Ended(r), files[r] # NoFile,
                        ~Recorded(r), pc[r] # "crashed",
                        outcome[r] # "compensation_error",
                        request[r].evaluation_id \in evaluations
                 PROVE  status[r] = "leaked"
      BY DEF OrphansAreExplained
    <2>1. outcome[r] # "created"
      BY DEF OwnedInv, SoundInv, AnswersStand, Recorded, Document
    <2>2. QED
      BY <2>1 DEF OwnedInv, FilesAreOwned, Ended
  <1>2. QED
    BY <1>1, OwnedInvariant, PTL

(* A row that is backed has its file, with the bytes its hash announces.   *)
LEMMA BackedRowsHaveFiles == UploadInv => RowHasFile
  <1> SUFFICES ASSUME UploadInv, NEW d \in rows PROVE files[d.id] = d.sha256
    BY DEF RowHasFile
  <1>1. d.id \in Requests /\ Recorded(d.id)
    BY DEF UploadInv, OwnedInv, SoundInv, TypeOK, Database!TypeOK,
       Database!Row, Recorded
  <1>2. content[d.id] = request[d.id].sha256 /\ d = Document(d.id)
    BY <1>1 DEF UploadInv, OwnedInv, SoundInv, RowsAreVerified
  <1>3. d.sha256 = content[d.id]
    BY <1>2 DEF Document
  <1>4. files[d.id] = content[d.id]
    BY <1>1 DEF UploadInv, OwnedInv, FilesAreOwned, RowsAreBacked
  <1>5. QED
    BY <1>3, <1>4

(* Every committed row has its file, with the bytes its hash announces, in *)
(* every reachable state, as long as nothing is lost.                      *)
THEOREM RowsHaveFiles == ASSUME NothingLost PROVE Spec => []RowHasFile
  BY BackedRowsHaveFiles, UploadInvariant, PTL

(* An upload that raised leaves neither a row, nor one to come, nor a file *)
(* it does not answer for.                                                 *)
THEOREM ErrorsLeaveNothing == ASSUME NothingLost PROVE Spec => []NoPartialSuccess
  <1>1. UploadInv => NoPartialSuccess
    <2> SUFFICES ASSUME UploadInv, NEW r \in Requests, pc[r] = "replied",
                        outcome[r] \notin {"created", "compensation_error"}
                 PROVE  /\ ~Recorded(r)
                        /\ transaction[r] # "in_doubt"
                        /\ status[r] # "leaked" => files[r] = NoFile
      BY DEF NoPartialSuccess
    <2>1. ~Recorded(r) /\ transaction[r] # "in_doubt"
      BY DEF UploadInv, RowsAreBacked
    <2>2. status[r] # "leaked" => files[r] = NoFile
      BY DEF UploadInv, OwnedInv, FilesAreOwned
    <2>3. QED
      BY <2>1, <2>2
  <1>2. QED
    BY <1>1, UploadInvariant, PTL

(* An upload refused as a duplicate can point to a readable document with  *)
(* the same content, as long as the evaluation exists and nothing is lost. *)
THEOREM DuplicatesAreReadable == ASSUME NothingLost PROVE Spec => []DuplicateIsThere
  <1>1. UploadInv => DuplicateIsThere
    BY BackedRowsHaveFiles DEF UploadInv, OwnedInv, SoundInv, AnswersStand, DuplicateIsThere,
       RowHasFile, Database!SameDocument, Document
  <1>2. QED
    BY <1>1, UploadInvariant, PTL

-----------------------------------------------------------------------------
(* The upload implements its database, and inherits what is proved of it.  *)

Schema == INSTANCE DocumentPersistenceProofs
    WITH Sessions <- Requests, Documents <- Requests, Hashes <- Contents

(* The steps of the database, as its own proofs name them.                 *)
LEMMA SameSteps ==
    ASSUME NEW r \in Requests, NEW d
    PROVE  /\ Database!Open(r) <=> Schema!Open(r)
           /\ Database!Insert(r, d) <=> Schema!Insert(r, d)
           /\ Database!InsertRejected(r, d) <=> Schema!InsertRejected(r, d)
           /\ Database!InsertLost(r, d) <=> Schema!InsertLost(r, d)
           /\ Database!Commit(r) <=> Schema!Commit(r)
           /\ Database!CommitUnsent(r) <=> Schema!CommitUnsent(r)
           /\ Database!CommitUnacknowledged(r) <=> Schema!CommitUnacknowledged(r)
           /\ Database!Rollback(r) <=> Schema!Rollback(r)
           /\ Database!RollbackFails(r) <=> Schema!RollbackFails(r)
           /\ Database!Settle(r) <=> Schema!Settle(r)
  <1>1. Database!CanInsert(r, d) <=> Schema!CanInsert(r, d)
    BY DEF Database!CanInsert, Schema!CanInsert, Database!Blocked, Schema!Blocked,
       Database!Conflicts, Schema!Conflicts, Database!SameDocument,
       Schema!SameDocument
  <1>2. Database!Blocked(r, d) <=> Schema!Blocked(r, d)
    BY DEF Database!Blocked, Schema!Blocked, Database!Conflicts,
       Schema!Conflicts, Database!SameDocument, Schema!SameDocument
  <1>3. Database!InsertError(d) = Schema!InsertError(d)
    BY DEF Database!InsertError, Schema!InsertError, Database!SameDocument,
       Schema!SameDocument
  <1>4. /\ Database!Insert(r, d) <=> Schema!Insert(r, d)
        /\ Database!InsertRejected(r, d) <=> Schema!InsertRejected(r, d)
        /\ Database!InsertLost(r, d) <=> Schema!InsertLost(r, d)
    BY <1>1, <1>2, <1>3 DEF Database!Insert, Schema!Insert,
       Database!InsertRejected, Schema!InsertRejected, Database!InsertLost,
       Schema!InsertLost
  <1>5. QED
    BY <1>4 DEF Database!Open, Schema!Open, Database!Commit, Schema!Commit,
       Database!CommitUnsent, Schema!CommitUnsent,
       Database!CommitUnacknowledged, Schema!CommitUnacknowledged,
       Database!Rollback, Schema!Rollback, Database!RollbackFails,
       Schema!RollbackFails, Database!Settle, Schema!Settle, Database!vars,
       Schema!vars

(* Every step of the upload is a step of its database, or none.            *)
LEMMA DatabaseRefinement == TypeOK /\ [Next]_vars => [Schema!Next]_Schema!vars
  <1> SUFFICES ASSUME TypeOK, [Next]_vars PROVE [Schema!Next]_Schema!vars
    OBVIOUS
  <1>1. ASSUME NEW r \in Requests, Receive(r) \/ Upload(r) \/ InsertFails(r)
        PROVE  [Schema!Next]_Schema!vars
    <2>1. Document(r) \in Schema!Row
      BY DocumentIsRow DEF TypeOK, RequestTypeOK, Schema!Row, Database!Row
    <2>2. CASE UNCHANGED databaseVars
      BY <2>2 DEF databaseVars, Schema!vars
    <2>3. CASE ~UNCHANGED databaseVars
      BY <1>1, <2>1, <2>3, DatabaseSteps, SameSteps DEF Schema!Next
    <2>4. QED
      BY <2>2, <2>3
  <1>2. ASSUME NEW r \in Requests, ServerSettles(r)
        PROVE  [Schema!Next]_Schema!vars
    BY <1>2, SameSteps DEF ServerSettles, Schema!Next
  <1>3. ASSUME NEW e \in Evaluations, RemoveEvaluation(e)
        PROVE  [Schema!Next]_Schema!vars
    BY <1>3 DEF RemoveEvaluation, Database!RemoveEvaluation,
       Schema!RemoveEvaluation, Schema!Next
  <1>4. CASE Crash \/ PowerLoss
    <2>1. PICK sent \in SUBSET {r \in InFlight : pc[r] = "commit"} :
             Database!Disconnect(InFlight, sent)
      BY <1>4 DEF Crash, PowerLoss, Die
    <2>2. Schema!Disconnect(InFlight, sent)
      BY <2>1 DEF Database!Disconnect, Schema!Disconnect
    <2>3. InFlight \in SUBSET Requests /\ sent \in SUBSET InFlight
      BY DEF InFlight
    <2>4. QED
      BY <2>2, <2>3 DEF Schema!Next
  <1>5. CASE UNCHANGED vars
    BY <1>5 DEF vars, databaseVars, Schema!vars
  <1>6. QED
    BY <1>1, <1>2, <1>3, <1>4, <1>5 DEF Next

(* Concurrent uploads never bring an evaluation the same content twice, and *)
(* none leaves a document without its evaluation, whatever the faults,     *)
(* lost acknowledgements included.                                         *)
THEOREM UploadsStayUnique == Spec => []UploadsAreUnique
  <1>1. Init => Schema!Init
    BY DEF Init, Database!Init, Schema!Init
  <1>2. Schema!SchemaInv => UploadsAreUnique
    BY DEF Schema!SchemaInv, UploadsAreUnique, Schema!DocumentsAreUnique,
       Database!DocumentsAreUnique, Schema!ReferencesExist,
       Database!ReferencesExist, Schema!Stored, Database!Stored,
       Schema!Conflicts, Database!Conflicts, Schema!SameDocument,
       Database!SameDocument
  <1>3. Init => Schema!SchemaInv
    BY <1>1, Schema!InitSchemaInv
  <1>4. TypeOK /\ Schema!SchemaInv /\ [Next]_vars => Schema!SchemaInv'
    BY DatabaseRefinement, Schema!NextSchemaInv
  <1>5. QED
    BY <1>2, <1>3, <1>4, TypeCorrect, PTL DEF Spec
=============================================================================
