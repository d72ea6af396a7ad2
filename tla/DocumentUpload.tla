--------------------------- MODULE DocumentUpload ---------------------------
(***************************************************************************)
(* DocumentUploadService.upload(), run by concurrent requests against one  *)
(* file store and one database.  The two take part in no common            *)
(* transaction: the file is published first, the row is inserted and       *)
(* committed last, and what fails in between is compensated.               *)
(*                                                                         *)
(* pc[r] names the call that request r is about to make.  Code between two *)
(* calls touches nothing shared and belongs to the action before it.       *)
(***************************************************************************)
CONSTANTS
    Requests,     \* upload requests; each draws a fresh document id: itself
    Evaluations,  \* evaluation identifiers
    Contents,     \* document contents; a content stands for its SHA-256
    NoFile,       \* what a storage key without a file maps to
    Faults        \* the faults that may happen

FaultKinds ==
    {"seek",       \* seek() or tell() of the source raises
     "drift",      \* the source yields other bytes when it is read again
     "store",      \* store() raises, leaving nothing
     "leak",       \* store() raises, its published file stays
     "delete",     \* delete() raises, its file stays
     "database",   \* a statement fails or its connection drops
     "lost_ack",   \* the connection drops after COMMIT was sent
     "removal",    \* evaluations are removed by somebody else
     "crash",      \* the API process dies and is started again
     "power"}      \* the machine of the API and its files loses power

ASSUME UploadAssumption ==
    /\ NoFile \notin Contents
    /\ Faults \subseteq FaultKinds

VARIABLES
    pc,            \* the next call of each request
    request,       \* its target evaluation and the hash of what was validated
    outcome,       \* "created", the exception raised or about to be, or "none"
    unsafe,        \* rollback() raised during its compensation
    position,      \* where its source is positioned
    evaluations, rows, transaction, pending,   \* the database
    files, status, content                     \* the storage

databaseVars == <<evaluations, rows, transaction, pending>>
storageVars == <<files, status, content>>
requestVars == <<pc, request, outcome, unsafe, position>>
vars == <<requestVars, databaseVars, storageVars>>

Database == INSTANCE DocumentPersistence
    WITH Sessions <- Requests, Documents <- Requests, Hashes <- Contents

\* The storage key is made of the evaluation and the fresh document id.
Storage == INSTANCE DocumentStorage
    WITH Calls <- Requests, Keys <- Requests, key <- [r \in Requests |-> r]

\* The row, made of the validated metadata.
Document(r) == [id |-> r, evaluation_id |-> request[r].evaluation_id,
                sha256 |-> request[r].sha256]

PCs == {"idle", "find_evaluation", "validate", "find_duplicate", "store",
        "verify", "insert", "commit", "rollback", "delete", "replied", "crashed"}

\* Exceptions raised before store() returned, when there is nothing to undo,
\* and after.
EarlyErrors == {"evaluation_not_found", "validation_error", "non_seekable",
                "duplicate", "persistence_error", "storage_error"}
LateErrors == {"content_mismatch", "non_seekable", "duplicate",
               "evaluation_not_found", "persistence_error"}
Errors == EarlyErrors \cup LateErrors \cup {"compensation_error"}

TypeOK ==
    /\ pc \in [Requests -> PCs]
    /\ request \in [Requests -> [evaluation_id : Evaluations, sha256 : Contents]]
    /\ outcome \in [Requests -> Errors \cup {"none", "created"}]
    /\ unsafe \in [Requests -> BOOLEAN]
    /\ position \in [Requests -> {"start", "moved"}]
    /\ Database!TypeOK
    /\ Storage!TypeOK

Init ==
    /\ pc = [r \in Requests |-> "idle"]
    /\ request \in [Requests -> [evaluation_id : Evaluations, sha256 : Contents]]
    /\ outcome = [r \in Requests |-> "none"]
    /\ unsafe = [r \in Requests |-> FALSE]
    /\ position = [r \in Requests |-> "start"]
    /\ Database!Init
    /\ files = [r \in Requests |-> NoFile]
    /\ status = [r \in Requests |-> "idle"]
    /\ content = [r \in Requests |-> request[r].sha256]

-----------------------------------------------------------------------------
Goto(r, from, to) ==
    /\ pc[r] = from
    /\ pc' = [pc EXCEPT ![r] = to]

Happens(fault) == fault \in Faults

\* The source position after code that rewinds, and that may fail to.
Rewound(r) == position' = [position EXCEPT ![r] = "start"]
RewindFails(r) ==
    /\ Happens("seek")
    /\ \E p \in {"start", "moved"} : position' = [position EXCEPT ![r] = p]

\* Mutation: the session is not closed.
RaiseUnclosed(r, from, error) ==
    /\ Goto(r, from, "replied")
    /\ outcome' = [outcome EXCEPT ![r] = error]
    /\ UNCHANGED <<request, unsafe, databaseVars>>

\* upload() raises with nothing to undo; the session is closed.
Raise(r, from, error) ==
    /\ Goto(r, from, "replied")
    /\ outcome' = [outcome EXCEPT ![r] = error]
    /\ Database!Rollback(r)
    /\ UNCHANGED <<request, unsafe>>

\* upload() catches an exception after store() returned.
Compensate(r, from, error) ==
    /\ Goto(r, from, "rollback")
    /\ outcome' = [outcome EXCEPT ![r] = error]
    /\ UNCHANGED <<request, unsafe>>

Proceed(r, from, to) ==
    /\ Goto(r, from, to)
    /\ UNCHANGED <<request, outcome, unsafe>>

-----------------------------------------------------------------------------
Receive(r) ==
    /\ Proceed(r, "idle", "find_evaluation")
    /\ Database!Open(r)
    /\ UNCHANGED <<position, storageVars>>

FindEvaluation(r) ==
    /\ \/ /\ Database!EvaluationExists(request[r].evaluation_id)
          /\ Proceed(r, "find_evaluation", "validate")
          /\ UNCHANGED databaseVars
       \/ /\ ~Database!EvaluationExists(request[r].evaluation_id)
          /\ Raise(r, "find_evaluation", "evaluation_not_found")
       \/ /\ Happens("database")
          /\ Raise(r, "find_evaluation", "persistence_error")
    /\ UNCHANGED <<position, storageVars>>

\* The validator reads the source and rewinds it, whatever it finds
\* (DocumentValidation has the detail), and the filename length is checked.
\* "validation_error" stands for every exception but the one of seeking.
Validate(r) ==
    /\ \/ /\ Proceed(r, "validate", "find_duplicate")
          /\ Rewound(r)
          /\ UNCHANGED databaseVars
       \/ /\ Raise(r, "validate", "validation_error")
          /\ Rewound(r) \/ RewindFails(r)
       \/ /\ Raise(r, "validate", "non_seekable")
          /\ RewindFails(r)
    /\ UNCHANGED storageVars

\* The preventive check, the fresh identifier, and the source still at its
\* start; then store() is called.
FindDuplicate(r) ==
    LET duplicate == Database!ExistsByEvaluationAndSha256(
                         request[r].evaluation_id, request[r].sha256)
    IN  /\ \/ /\ ~duplicate
              /\ position[r] = "start"
              /\ Proceed(r, "find_duplicate", "store")
              /\ \E x \in Contents :
                    /\ x # request[r].sha256 => Happens("drift")
                    /\ Storage!Begin(r, r, x)
              /\ UNCHANGED databaseVars
           \/ /\ ~duplicate
              /\ position[r] # "start" \/ Happens("seek")
              /\ Raise(r, "find_duplicate", "non_seekable")
              /\ UNCHANGED storageVars
           \/ /\ duplicate
              /\ Raise(r, "find_duplicate", "duplicate")
              /\ UNCHANGED storageVars
           \/ /\ Happens("database")
              /\ Raise(r, "find_duplicate", "persistence_error")
              /\ UNCHANGED storageVars
        /\ UNCHANGED position

\* Inside store(): the copy reads the source to its end.
PublishFile(r) ==
    /\ pc[r] = "store"
    /\ Storage!Publish(r)
    /\ position' = [position EXCEPT ![r] = "moved"]
    /\ UNCHANGED <<pc, request, outcome, unsafe, databaseVars>>

StoreReturns(r) ==
    /\ Proceed(r, "store", "verify")
    /\ Storage!Return(r)
    /\ UNCHANGED <<position, databaseVars>>

\* store() is called outside the try block: its exception passes through
\* with no compensation and no rewind.
StoreFails(r) ==
    /\ Raise(r, "store", "storage_error")
    /\ \/ /\ Happens("store")
          /\ Storage!Fail(r)
          /\ \E p \in {"start", "moved"} : position' = [position EXCEPT ![r] = p]
       \/ /\ Happens("store")
          /\ Storage!Withdraw(r)
          /\ UNCHANGED position
       \/ /\ Happens("leak")
          /\ Storage!Leak(r)
          /\ UNCHANGED position

\* Mutations: the bytes are not compared; the comparison is made outside the
\* try block.
VerifyNothing(r) ==
    /\ Proceed(r, "verify", "insert")
    /\ Rewound(r)
    /\ UNCHANGED <<databaseVars, storageVars>>
VerifyOutside(r) ==
    /\ \/ /\ content[r] = request[r].sha256
          /\ Proceed(r, "verify", "insert")
          /\ Rewound(r)
          /\ UNCHANGED databaseVars
       \/ /\ content[r] # request[r].sha256
          /\ Raise(r, "verify", "content_mismatch")
          /\ UNCHANGED position
    /\ UNCHANGED storageVars

\* The bytes that storage read are the ones that were validated, or not;
\* the source is rewound and the document handed to the session.
VerifyContent(r) ==
    /\ \/ /\ content[r] = request[r].sha256
          /\ Proceed(r, "verify", "insert")
          /\ Rewound(r)
       \/ /\ content[r] = request[r].sha256
          /\ Compensate(r, "verify", "non_seekable")
          /\ RewindFails(r)
       \/ /\ content[r] # request[r].sha256
          /\ Compensate(r, "verify", "content_mismatch")
          /\ UNCHANGED position
    /\ UNCHANGED <<databaseVars, storageVars>>

\* Mutation: every persistence error is reported as a duplicate.
InsertAlwaysDuplicate(r) ==
    /\ \/ /\ Database!Insert(r, Document(r))
          /\ Proceed(r, "insert", "commit")
       \/ /\ Database!InsertRejected(r, Document(r))
          /\ Compensate(r, "insert", "duplicate")
    /\ UNCHANGED <<position, storageVars>>

\* Mutation: a refused INSERT is tried again.
InsertRetried(r) ==
    /\ Database!Insert(r, Document(r))
    /\ Proceed(r, "insert", "commit")
    /\ UNCHANGED <<position, storageVars>>

\* commit(), first half: the session sends the INSERT and may wait for it.
Insert(r) ==
    /\ \/ /\ Database!Insert(r, Document(r))
          /\ Proceed(r, "insert", "commit")
       \/ /\ Database!InsertRejected(r, Document(r))
          /\ Compensate(r, "insert", Database!InsertError(Document(r)))
    /\ UNCHANGED <<position, storageVars>>

\* The connection drops under the INSERT, also while it waits.
InsertFails(r) ==
    /\ Happens("database")
    /\ Database!InsertLost(r, Document(r))
    /\ Compensate(r, "insert", "persistence_error")
    /\ UNCHANGED <<position, storageVars>>

\* commit(), second half: the COMMIT.  The session is closed when the request
\* ends; after a success, as after a compensation, nothing is open any more.
Commit(r) ==
    /\ \/ /\ Database!Commit(r)
          /\ Goto(r, "commit", "replied")
          /\ outcome' = [outcome EXCEPT ![r] = "created"]
          /\ UNCHANGED <<request, unsafe>>
       \/ /\ Happens("database")
          /\ Database!CommitUnsent(r)
          /\ Compensate(r, "commit", "persistence_error")
       \/ /\ Happens("lost_ack")
          /\ Database!CommitUnacknowledged(r)
          /\ Compensate(r, "commit", "persistence_error")
    /\ UNCHANGED <<position, storageVars>>

-----------------------------------------------------------------------------
(* _compensate(): each part is tried whatever became of the one before. *)

Rollback(r) ==
    /\ Goto(r, "rollback", "delete")
    /\ \/ Database!Rollback(r) /\ UNCHANGED unsafe
       \/ /\ Happens("database")
          /\ Database!RollbackFails(r)
          /\ unsafe' = [unsafe EXCEPT ![r] = TRUE]
    /\ UNCHANGED <<request, outcome, position, storageVars>>

\* Mutation: what the compensation did is not looked at.
CompensatedAnyway(r, deleted) == outcome[r]

\* The outcome of a compensation: a failed rollback or delete, or a delete
\* that found nothing, hides the original error; a failed rewind does not.
Compensated(r, deleted) ==
    IF deleted /\ ~unsafe[r] THEN outcome[r] ELSE "compensation_error"

\* Mutation: the source is left where it was.
DeleteWithoutRewind(r) ==
    /\ Goto(r, "delete", "replied")
    /\ Storage!Delete(r)
    /\ outcome' = [outcome EXCEPT ![r] = Compensated(r, Storage!Deletes(r))]
    /\ UNCHANGED <<request, unsafe, position, databaseVars>>

DeleteFile(r) ==
    /\ Goto(r, "delete", "replied")
    /\ \/ /\ Storage!Delete(r)
          /\ outcome' = [outcome EXCEPT ![r] = Compensated(r, Storage!Deletes(r))]
       \/ /\ Happens("delete")
          /\ Storage!DeleteFails(r)
          /\ outcome' = [outcome EXCEPT ![r] = Compensated(r, FALSE)]
    /\ Rewound(r) \/ RewindFails(r)
    /\ UNCHANGED <<request, unsafe, databaseVars>>

-----------------------------------------------------------------------------
(* The environment. *)

InFlight == {r \in Requests : pc[r] \notin {"idle", "replied", "crashed"}}

\* The process dies; each COMMIT being sent may have left or not.  Requests
\* still idle arrive after the restart, which recovers nothing.
Die ==
    /\ \E sent \in SUBSET {r \in InFlight : pc[r] = "commit"} :
          Database!Disconnect(InFlight, sent)
    /\ pc' = [r \in Requests |-> IF r \in InFlight THEN "crashed" ELSE pc[r]]
    /\ UNCHANGED <<request, outcome, unsafe, position>>

Crash ==
    /\ Happens("crash")
    /\ InFlight # {}
    /\ Die
    /\ Storage!Crash({r \in Requests : status[r] \in {"running", "published"}})

\* Committed rows are durable; of the files, each comes back as the disk has
\* it, which may be not at all, and deleted ones may come back.
PowerLoss ==
    /\ Happens("power")
    /\ \E r \in Requests : pc[r] # "idle"
    /\ Die
    /\ Storage!PowerLoss

ServerSettles(r) ==
    /\ Database!Settle(r)
    /\ UNCHANGED <<requestVars, storageVars>>

RemoveEvaluation(e) ==
    /\ Happens("removal")
    /\ Database!RemoveEvaluation(e)
    /\ UNCHANGED <<requestVars, storageVars>>

-----------------------------------------------------------------------------
Upload(r) ==
    \/ FindEvaluation(r) \/ Validate(r) \/ FindDuplicate(r)
    \/ PublishFile(r) \/ StoreReturns(r) \/ StoreFails(r)
    \/ VerifyContent(r) \/ Insert(r) \/ Commit(r)
    \/ Rollback(r) \/ DeleteFile(r)

Next ==
    \/ \E r \in Requests :
          Receive(r) \/ Upload(r) \/ InsertFails(r) \/ ServerSettles(r)
    \/ \E e \in Evaluations : RemoveEvaluation(e)
    \/ Crash \/ PowerLoss

Spec == Init /\ [][Next]_vars

\* Every request runs on a thread of its own until it ends, and the server
\* notices a client that is gone.  A waiting INSERT is not saved by a
\* connection that drops.
Fairness ==
    \A r \in Requests : WF_vars(Upload(r)) /\ WF_vars(ServerSettles(r))

FairSpec == Spec /\ Fairness

-----------------------------------------------------------------------------
(* Safety. *)

Ended(r) == pc[r] \in {"replied", "crashed"}

\* The whole document of r, as a row, has been committed.
Recorded(r) == \E d \in rows : d.id = r

(* Every committed row has its file, holding exactly the bytes its hash    *)
(* announces, at every moment: through concurrent uploads, compensations,  *)
(* crashes and connections lost anywhere but under COMMIT (the order of    *)
(* store(), add() and commit() in upload(), and the delete of the          *)
(* compensation).                                                          *)
RowHasFile == \A d \in rows : files[d.id] = d.sha256

(* Under every fault there is, power losses and lost acknowledgements       *)
(* included, a committed row may miss its file but never shows other bytes *)
(* than its hash announces: what upload() commits was verified, and what   *)
(* storage brings back was whole.                                          *)
RowFileIsWhole == \A d \in rows : files[d.id] \in {NoFile, d.sha256}

(* An upload that raised left neither a row, nor one still to come, nor a  *)
(* file, unless it says that its compensation failed or store() left its   *)
(* own file behind.                                                        *)
NoPartialSuccess ==
    \A r \in Requests :
        /\ pc[r] = "replied"
        /\ outcome[r] \notin {"created", "compensation_error"}
        => /\ ~Recorded(r)
           /\ transaction[r] # "in_doubt"
           /\ status[r] # "leaked" => files[r] = NoFile

(* A document whose upload returned is there as long as its evaluation.    *)
CreatedIsKept ==
    \A r \in Requests :
        /\ outcome[r] = "created"
        /\ request[r].evaluation_id \in evaluations
        => Document(r) \in rows

(* An upload refused as a duplicate can point to a document that has the   *)
(* same content, readable now, as long as the evaluation exists: the check *)
(* and the constraint only ever meet committed documents, and no           *)
(* compensation takes a committed one away.                                *)
DuplicateIsThere ==
    \A r \in Requests :
        /\ outcome[r] = "duplicate"
        /\ request[r].evaluation_id \in evaluations
        => \E d \in rows :
               /\ Database!SameDocument(d, Document(r))
               /\ files[d.id] = request[r].sha256

(* Uploads never bring an evaluation the same content twice, however their *)
(* checks and inserts interleave.                                          *)
UploadsAreUnique == Database!DocumentsAreUnique /\ Database!ReferencesExist

(* A file without a row whose request has ended is an orphan, and an       *)
(* orphan has a known cause: the process died, the compensation reported   *)
(* its failure, store() could not take its file back, or the evaluation    *)
(* was removed with its rows.                                              *)
OrphansAreExplained ==
    \A r \in Requests :
        /\ Ended(r)
        /\ files[r] # NoFile
        /\ ~Recorded(r)
        => \/ pc[r] = "crashed"
           \/ outcome[r] = "compensation_error"
           \/ status[r] = "leaked"
           \/ request[r].evaluation_id \notin evaluations

(* Whatever upload() answers, it leaves its source at the start, except    *)
(* when the source itself refuses to seek, or when store() raised.         *)
SourceRestored ==
    \A r \in Requests :
        /\ pc[r] = "replied"
        /\ ~Happens("seek")
        /\ outcome[r] # "storage_error"
        => position[r] = "start"

(* What the feature document asks for instead: the source is at its start  *)
(* after every failure whenever that is technically possible.              *)
SourceRestoredAfterFailure ==
    \A r \in Requests :
        pc[r] = "replied" /\ ~Happens("seek") => position[r] = "start"

-----------------------------------------------------------------------------
(* The inductive invariant behind the safety properties.  Its parts are    *)
(* grouped by the faults they survive.                                     *)

\* Where the storage call of a request is, by where the request is.
CallsFollow ==
    \A r \in Requests :
        /\ pc[r] \in {"idle", "find_evaluation", "validate", "find_duplicate"}
              => status[r] = "idle"
        /\ pc[r] = "store" => status[r] \in {"running", "published"}
        /\ pc[r] \in {"verify", "insert", "commit", "rollback", "delete"}
              => status[r] = "stored"

\* A transaction holds the row of its request, from INSERT to its end.
TransactionsFollow ==
    \A r \in Requests :
        /\ pending[r] \subseteq {Document(r)}
        /\ transaction[r] \in {"idle", "closed"} => pending[r] = {}
        /\ transaction[r] = "open" /\ pc[r] # "commit" => pending[r] = {}
        /\ pc[r] = "commit" => /\ transaction[r] = "open"
                               /\ pending[r] = {Document(r)}
        /\ transaction[r] = "open"
              => pc[r] \notin {"idle", "delete", "replied", "crashed"}

\* A row that exists, or that can still come, is the one of a request whose
\* content was read for good and verified.
RowsAreVerified ==
    /\ \A r \in Requests :
          pc[r] \in {"insert", "commit"} \/ pending[r] # {} \/ Recorded(r)
          => status[r] # "idle" /\ content[r] = request[r].sha256
    /\ \A d \in rows : d = Document(d.id)

\* A file is what its own request read, once that has begun to read.
FilesAreWhole ==
    \A r \in Requests :
        /\ files[r] \in {NoFile, content[r]}
        /\ status[r] = "idle" => files[r] = NoFile

\* What was answered of the documents is still true, or their evaluation gone.
AnswersStand ==
    \A r \in Requests :
        request[r].evaluation_id \in evaluations
        => /\ outcome[r] = "created" => Document(r) \in rows
           /\ outcome[r] = "duplicate"
                 => \E d \in rows : Database!SameDocument(d, Document(r))

\* Where the source of a request is, when seeking never fails.
SourcesFollow ==
    \A r \in Requests :
        \/ Happens("seek")
        \/ position[r] = "start"
        \/ pc[r] \in {"store", "verify", "rollback", "delete", "crashed"}
        \/ pc[r] = "replied" /\ outcome[r] = "storage_error"

\* True under every fault.
SoundInv ==
    /\ TypeOK
    /\ CallsFollow
    /\ TransactionsFollow
    /\ RowsAreVerified
    /\ FilesAreWhole
    /\ AnswersStand
    /\ SourcesFollow

\* A file is there exactly when its request published it and did not take it
\* back, and a request that raised took it back.
FilesAreOwned ==
    \A r \in Requests :
        /\ status[r] \in {"published", "stored"} => files[r] = content[r]
        /\ status[r] \in {"idle", "running", "failed", "deleted"}
              => files[r] = NoFile
        /\ pc[r] = "replied" /\ outcome[r] \notin {"created", "compensation_error"}
              => status[r] \in {"idle", "failed", "leaked", "deleted"}

\* True as long as no power is lost.
OwnedInv == SoundInv /\ FilesAreOwned

\* A row that exists, or that a COMMIT in doubt may still bring, has its file
\* out of reach of any compensation.
RowsAreBacked ==
    \A r \in Requests :
        /\ transaction[r] = "in_doubt" => pc[r] = "crashed"
        /\ Recorded(r) => \/ pc[r] = "crashed"
                          \/ pc[r] = "replied" /\ outcome[r] = "created"
        /\ transaction[r] = "in_doubt" \/ Recorded(r) => status[r] = "stored"

\* True as long as no acknowledgement is lost either.
UploadInv == OwnedInv /\ RowsAreBacked

-----------------------------------------------------------------------------
(* Liveness. *)

(* Every upload that was received ends, even one whose INSERT waits for    *)
(* the transaction of another.                                             *)
EveryUploadEnds == \A r \in Requests : (pc[r] # "idle") ~> Ended(r)

(* No transaction blocks the others for ever: an uncommitted row is        *)
(* committed or given up, also when its client was lost.                   *)
LocksAreReleased == \A r \in Requests : (pending[r] # {}) ~> (pending[r] = {})

-----------------------------------------------------------------------------
(* The registry that the upload implements. *)

Standing(r) ==
    IF outcome[r] # "none" THEN outcome[r]
    ELSE IF pc[r] = "crashed" THEN "abandoned" ELSE "open"

Registry == INSTANCE DocumentRegistry
    WITH documents <- {[id |-> d.id, evaluation_id |-> d.evaluation_id,
                        sha256 |-> d.sha256, content |-> files[d.id]] : d \in rows},
         standing <- [r \in Requests |-> Standing(r)]

(* Seen from outside an upload is one step: its document appears whole,    *)
(* with its content, or never; "duplicate" and "evaluation not found" are  *)
(* true when they are decided; a request that was refused adds nothing     *)
(* later.                                                                  *)
ImplementsRegistry == Registry!Spec
=============================================================================
