---------------------- MODULE DocumentUploadRefinement ----------------------
(***************************************************************************)
(* DocumentUpload implements DocumentRegistry, for any sets of requests,   *)
(* evaluations and contents, as long as nothing is lost: an upload, with   *)
(* its file, its row and its compensation, is one step seen from outside.  *)
(***************************************************************************)
EXTENDS DocumentUploadProofs

\* What the registry sees of the database and the files, and of the requests.
Shown == {[id |-> d.id, evaluation_id |-> d.evaluation_id,
           sha256 |-> d.sha256, content |-> files[d.id]] : d \in rows}
Standings == [r \in Requests |-> Standing(r)]

\* A request has no outcome before it is decided, and an error while it is
\* compensated; only an undecided one can be in doubt.
OutcomesFollow ==
    \A r \in Requests :
        /\ pc[r] \in {"idle", "find_evaluation", "validate", "find_duplicate",
                      "store", "verify", "insert", "commit"}
              => outcome[r] = "none"
        /\ pc[r] \in {"rollback", "delete"} => outcome[r] \in LateErrors
        /\ transaction[r] = "in_doubt" => outcome[r] = "none"

\* A row that may still come is not there yet.
RowsComeOnce == \A r \in Requests : pending[r] # {} => ~Recorded(r)

\* What the refinement needs of a state.
RefinementInv ==
    /\ UploadInv /\ UploadsAreUnique
    /\ OutcomesFollow /\ RowsComeOnce

-----------------------------------------------------------------------------
(* What the requests are told. *)

(* A step of a request decides it at most once, and spoils an error at     *)
(* most; it leaves the COMMIT of a request in doubt to the server.         *)
LEMMA OutcomeFollowsCall ==
    ASSUME UploadInv, OutcomesFollow, NothingLost, NEW r \in Requests,
           Receive(r) \/ Upload(r) \/ InsertFails(r)
    PROVE  /\ pc'[r] \in {"idle", "find_evaluation", "validate", "find_duplicate",
                          "store", "verify", "insert", "commit"}
                 => outcome'[r] = "none"
           /\ pc'[r] \in {"rollback", "delete"} => outcome'[r] \in LateErrors
           /\ transaction'[r] # "in_doubt"
  <1>1. TypeOK /\ transaction[r] # "in_doubt"
    <2>1. TypeOK /\ (transaction[r] = "in_doubt" => pc[r] = "crashed")
      BY DEF UploadInv, OwnedInv, SoundInv, RowsAreBacked
    <2>2. pc[r] # "crashed"
      BY <2>1, ReceiveCall, FindEvaluationCall, ValidateCall,
         FindDuplicateCall, PublishFileCall, StoreReturnsCall, StoreFailsCall,
         VerifyContentCall, InsertCall, InsertFailsCall, CommitCall,
         RollbackCall, DeleteFileCall DEF Upload, Moves
    <2>3. QED
      BY <2>1, <2>2
  <1> USE DEF OutcomesFollow, LateErrors, Moves, KeepsAnswer, KeepsRow, Closes
  <1>2. CASE Receive(r) \/ FindEvaluation(r) \/ Validate(r) \/ FindDuplicate(r)
    BY <1>1, <1>2, ReceiveCall, FindEvaluationCall, ValidateCall, FindDuplicateCall
  <1>3. CASE PublishFile(r) \/ StoreReturns(r) \/ StoreFails(r) \/ VerifyContent(r)
    BY <1>1, <1>3, PublishFileCall, StoreReturnsCall, StoreFailsCall, VerifyContentCall
  <1>4. CASE Insert(r) \/ InsertFails(r)
    BY <1>1, <1>4, InsertCall, InsertFailsCall, RefusalsAreTrue
  <1>5. CASE Commit(r)
    BY <1>1, <1>5, CommitCall DEF NothingLost
  <1>6. CASE Rollback(r) \/ DeleteFile(r)
    BY <1>1, <1>6, RollbackCall, DeleteFileCall
  <1>7. QED
    BY <1>2, <1>3, <1>4, <1>5, <1>6 DEF Upload

(* Every step keeps the outcomes in step with the requests.                *)
LEMMA OutcomesFollowStep ==
    ASSUME UploadInv, OutcomesFollow, NothingLost, [Next]_vars
    PROVE  OutcomesFollow'
  <1>1. TypeOK
    BY DEF UploadInv, OwnedInv, SoundInv
  <1>2. ASSUME NEW r \in Requests, Receive(r) \/ Upload(r) \/ InsertFails(r)
        PROVE  OutcomesFollow'
    BY <1>1, <1>2, OutcomeFollowsCall, OnlyItsOwn DEF OutcomesFollow
  <1>3. ASSUME NEW r \in Requests, ServerSettles(r) PROVE OutcomesFollow'
    BY <1>1, <1>3, SettleStep DEF OutcomesFollow, requestVars
  <1>4. ASSUME NEW e \in Evaluations, RemoveEvaluation(e) PROVE OutcomesFollow'
    BY <1>1, <1>4, RemovalStep DEF OutcomesFollow, requestVars
  <1>5. CASE Crash \/ PowerLoss
    BY <1>1, <1>5, DeathStep DEF OutcomesFollow
  <1>6. CASE UNCHANGED vars
    BY <1>6 DEF OutcomesFollow, vars, requestVars, databaseVars
  <1>7. QED
    BY <1>2, <1>3, <1>4, <1>5, <1>6, StepCases

(* Every step keeps the rows to come apart from those that are there.      *)
LEMMA RowsComeOnceStep ==
    ASSUME UploadInv, RowsComeOnce, [Next]_vars
    PROVE  RowsComeOnce'
  <1>1. TypeOK /\ TransactionsFollow /\ RowsAreBacked
    BY DEF UploadInv, OwnedInv, SoundInv
  <1>2. ASSUME NEW r \in Requests,
               \/ UNCHANGED rows
               \/ rows' = rows \cup pending[r] /\ pending'[r] = {},
               pending'[r] # {} => pending'[r] = pending[r] \/ ~Recorded(r),
               \A q \in Requests \ {r} : pending'[q] = pending[q]
        PROVE  RowsComeOnce'
    <2>1. \A d \in pending[r] : d.id = r
      BY <1>1 DEF TransactionsFollow, Document
    <2>2. \A q \in Requests \ {r} : Recorded(q)' => Recorded(q)
      BY <1>2, <2>1 DEF Recorded
    <2>3. QED
      BY <1>2, <2>2 DEF RowsComeOnce, Recorded
  <1>3. ASSUME NEW r \in Requests, Receive(r) \/ Upload(r) \/ InsertFails(r)
        PROVE  RowsComeOnce'
    <2>1. \A q \in Requests \ {r} : pending'[q] = pending[q]
      BY <1>1, <1>3, OnlyItsOwn
    <2> USE DEF Moves, KeepsRow, Closes
    <2>2. CASE Commit(r)
      BY <1>1, <1>2, <2>1, <2>2, CommitCall
    <2>3. CASE Insert(r) \/ InsertFails(r)
      <3>1. ~Recorded(r)
        BY <1>1, <2>3, InsertCall, InsertFailsCall DEF RowsAreBacked
      <3>2. UNCHANGED rows
        BY <1>1, <2>3, InsertCall, InsertFailsCall
      <3>3. QED
        BY <1>2, <2>1, <3>1, <3>2
    <2>4. CASE \/ Receive(r) \/ FindEvaluation(r) \/ Validate(r) \/ FindDuplicate(r)
               \/ PublishFile(r) \/ StoreReturns(r) \/ StoreFails(r)
               \/ VerifyContent(r) \/ Rollback(r) \/ DeleteFile(r)
      <3>1. UNCHANGED rows /\ pending'[r] \in {pending[r], {}}
        BY <1>1, <2>4, ReceiveCall, FindEvaluationCall, ValidateCall,
           FindDuplicateCall, PublishFileCall, StoreReturnsCall, StoreFailsCall,
           VerifyContentCall, RollbackCall, DeleteFileCall
      <3>2. QED
        BY <1>2, <2>1, <3>1
    <2>5. QED
      BY <1>3, <2>2, <2>3, <2>4 DEF Upload
  <1>4. ASSUME NEW r \in Requests, ServerSettles(r) PROVE RowsComeOnce'
    BY <1>1, <1>2, <1>4, SettleStep
  <1>5. ASSUME NEW e \in Evaluations, RemoveEvaluation(e) PROVE RowsComeOnce'
    BY <1>1, <1>5, RemovalStep DEF RowsComeOnce, Recorded
  <1>6. CASE UNCHANGED <<rows, pending>>
    BY <1>6 DEF RowsComeOnce, Recorded
  <1>7. QED
    BY <1>1, <1>3, <1>4, <1>5, <1>6, StepCases, DeathStep DEF vars, databaseVars

(* The invariant of the refinement holds throughout.                       *)
LEMMA RefinementInvariant == ASSUME NothingLost PROVE Spec => []RefinementInv
  <1>1. Init => OutcomesFollow /\ RowsComeOnce
    BY DEF Init, Database!Init, OutcomesFollow, RowsComeOnce
  <1>2. UploadInv /\ OutcomesFollow /\ RowsComeOnce /\ [Next]_vars
           => OutcomesFollow' /\ RowsComeOnce'
    BY OutcomesFollowStep, RowsComeOnceStep
  <1>3. QED
    BY <1>1, <1>2, UploadInvariant, UploadsStayUnique, PTL DEF Spec, RefinementInv

-----------------------------------------------------------------------------
(* The steps of the registry, in terms of what it sees. *)

(* The registry's actions, with its variables by their names here.         *)
LEMMA RegistryActions ==
    /\ \A e, c : Registry!Holds(e, c)
          <=> \E d \in Shown : d.evaluation_id = e /\ d.sha256 = c
    /\ \A r : Registry!Spoil(r) <=>
          /\ Standings[r] \in Registry!StateErrors \cup Registry!OtherErrors
          /\ Standings' = [Standings EXCEPT ![r] = "compensation_error"]
          /\ UNCHANGED evaluations /\ Shown' = Shown
    /\ \A R : Registry!Abandon(R) <=>
          /\ \A q \in R : Standings[q] = "open"
          /\ Standings' = [q \in Requests |->
                              IF q \in R THEN "abandoned" ELSE Standings[q]]
          /\ UNCHANGED evaluations /\ Shown' = Shown
    /\ \A e : Registry!RemoveEvaluation(e) <=>
          /\ evaluations' = evaluations \ {e}
          /\ Shown' = {d \in Shown : d.evaluation_id # e}
          /\ Standings' = Standings
    /\ UNCHANGED Registry!vars <=>
          UNCHANGED evaluations /\ Shown' = Shown /\ Standings' = Standings
  BY DEF Shown, Standings, Registry!Holds, Registry!Spoil, Registry!Abandon, Registry!RemoveEvaluation, Registry!vars

(* The document of a request appears.                                      *)
LEMMA RegisterAction ==
    ASSUME NEW r, NEW e, NEW c,
           Standings[r] \in {"open", "abandoned"},
           e \in evaluations, ~Registry!Holds(e, c),
           Shown' = Shown \cup
              {[id |-> r, evaluation_id |-> e, sha256 |-> c, content |-> c]},
           Standings' = IF Standings[r] = "open"
                        THEN [Standings EXCEPT ![r] = "created"] ELSE Standings,
           UNCHANGED evaluations
    PROVE  Registry!Register(r, e, c)
  BY DEF Shown, Standings, Registry!Register

(* A request is refused.                                                   *)
LEMMA RefuseAction ==
    ASSUME NEW r, NEW e, NEW c, NEW why,
           Standings[r] = "open",
           why = "duplicate" => Registry!Holds(e, c),
           why = "evaluation_not_found" => e \notin evaluations,
           Standings' = [Standings EXCEPT ![r] = why],
           UNCHANGED evaluations, Shown' = Shown
    PROVE  Registry!Refuse(r, e, c, why)
  BY DEF Shown, Standings, Registry!Refuse

(* With its file a row shows the content that its hash announces, so that  *)
(* what is shown changes with the rows alone.                              *)
LEMMA ShownFollowsRows ==
    ASSUME RowHasFile, RowHasFile'
    PROVE  /\ rows' = rows => Shown' = Shown
           /\ \A r \in Requests :
                 rows' = rows \cup {Document(r)} =>
                 Shown' = Shown \cup
                    {[id |-> r, evaluation_id |-> request[r].evaluation_id,
                      sha256 |-> request[r].sha256, content |-> request[r].sha256]}
           /\ \A e : rows' = {d \in rows : d.evaluation_id # e}
                     => Shown' = {d \in Shown : d.evaluation_id # e}
           /\ \A e, c : (\E d \in Shown : d.evaluation_id = e /\ d.sha256 = c)
                 <=> \E d \in rows : d.evaluation_id = e /\ d.sha256 = c
  <1> DEFINE Whole(d) == [id |-> d.id, evaluation_id |-> d.evaluation_id,
                          sha256 |-> d.sha256, content |-> d.sha256]
  <1>1. Shown = {Whole(d) : d \in rows}
    BY DEF Shown, RowHasFile
  <1>2. Shown' = {Whole(d) : d \in rows'}
    BY DEF Shown, RowHasFile
  <1>3. \A d : Whole(d).evaluation_id = d.evaluation_id /\ Whole(d).sha256 = d.sha256
    OBVIOUS
  <1>4. rows' = rows => Shown' = Shown
    BY <1>1, <1>2
  <1>5. ASSUME NEW r \in Requests, rows' = rows \cup {Document(r)}
        PROVE  Shown' = Shown \cup
                  {[id |-> r, evaluation_id |-> request[r].evaluation_id,
                    sha256 |-> request[r].sha256, content |-> request[r].sha256]}
    <2>1. Whole(Document(r)) = [id |-> r, evaluation_id |-> request[r].evaluation_id,
                    sha256 |-> request[r].sha256, content |-> request[r].sha256]
      BY DEF Document
    <2> HIDE DEF Whole
    <2>2. Shown' = Shown \cup {Whole(Document(r))}
      BY <1>1, <1>2, <1>5
    <2>3. QED
      BY <2>1, <2>2
  <1> HIDE DEF Whole
  <1>6. ASSUME NEW e, rows' = {d \in rows : d.evaluation_id # e}
        PROVE  Shown' = {d \in Shown : d.evaluation_id # e}
    BY <1>1, <1>2, <1>3, <1>6
  <1>7. ASSUME NEW e, NEW c
        PROVE  (\E d \in Shown : d.evaluation_id = e /\ d.sha256 = c)
                  <=> \E d \in rows : d.evaluation_id = e /\ d.sha256 = c
    BY <1>1, <1>3
  <1>8. QED
    BY <1>4, <1>5, <1>6, <1>7

(* What one request is told changes its own standing and no other.         *)
LEMMA StandingFollowsOutcome ==
    ASSUME TypeOK, NEW r \in Requests, Receive(r) \/ Upload(r) \/ InsertFails(r)
    PROVE  /\ pc[r] # "crashed" /\ pc'[r] # "crashed"
           /\ outcome'[r] = outcome[r] => Standings' = Standings
           /\ outcome'[r] # "none" => Standings' = [Standings EXCEPT ![r] = outcome'[r]]
           /\ outcome[r] = "none" => Standings[r] = "open"
           /\ outcome[r] # "none" => Standings[r] = outcome[r]
  <1>1. pc[r] # "crashed" /\ pc'[r] # "crashed"
    BY ReceiveCall, FindEvaluationCall, ValidateCall, FindDuplicateCall,
       PublishFileCall, StoreReturnsCall, StoreFailsCall, VerifyContentCall,
       InsertCall, InsertFailsCall, CommitCall, RollbackCall, DeleteFileCall
       DEF Upload, Moves
  <1>2. \A q \in Requests \ {r} : pc'[q] = pc[q] /\ outcome'[q] = outcome[q]
    BY OnlyItsOwn
  <1>3. \A q \in Requests \ {r} : Standing(q)' = Standing(q)
    BY <1>2 DEF Standing
  <1>4. Standing(r) = IF outcome[r] # "none" THEN outcome[r] ELSE "open"
    BY <1>1 DEF Standing
  <1>5. Standing(r)' = IF outcome'[r] # "none" THEN outcome'[r] ELSE "open"
    BY <1>1 DEF Standing
  <1> HIDE DEF Standing
  <1>6. QED
    BY <1>1, <1>3, <1>4, <1>5 DEF Standings

-----------------------------------------------------------------------------
(* Every step is one of the registry, or none. *)

(* A row that comes is of an evaluation that exists, and like no other.    *)
LEMMA RowsComeRegistered ==
    ASSUME RefinementInv, NEW r \in Requests, pending[r] = {Document(r)}
    PROVE  /\ request[r].evaluation_id \in evaluations
           /\ ~ \E d \in rows : /\ d.evaluation_id = request[r].evaluation_id
                                /\ d.sha256 = request[r].sha256
  <1>1. Document(r) \in Database!Stored /\ rows \subseteq Database!Stored
    BY DEF Database!Stored
  <1>2. request[r].evaluation_id \in evaluations
    BY <1>1 DEF RefinementInv, UploadsAreUnique, Database!ReferencesExist, Document
  <1>3. ASSUME NEW d \in rows, d.evaluation_id = request[r].evaluation_id,
               d.sha256 = request[r].sha256
        PROVE  FALSE
    <2>1. Database!Conflicts(d, Document(r))
      BY <1>3 DEF Database!Conflicts, Database!SameDocument, Document
    <2>2. d = Document(r)
      BY <1>1, <2>1 DEF RefinementInv, UploadsAreUnique, Database!DocumentsAreUnique
    <2>3. Recorded(r)
      BY <2>2 DEF Recorded, Document
    <2>4. QED
      BY <2>3 DEF RefinementInv, RowsComeOnce
  <1>4. QED
    BY <1>2, <1>3

(* A step of a request is silent, decides it, or spoils its refusal.       *)
LEMMA RequestRefinement ==
    ASSUME NothingLost, RefinementInv, RowHasFile, RowHasFile',
           NEW r \in Requests, Receive(r) \/ Upload(r) \/ InsertFails(r)
    PROVE  [Registry!Next]_(Registry!vars)
  <1>0. PICK e \in Evaluations, c \in Contents :
           request[r].evaluation_id = e /\ request[r].sha256 = c
    BY DEF RefinementInv, UploadInv, OwnedInv, SoundInv, TypeOK
  <1> DEFINE Decides(why) ==
                /\ outcome[r] = "none" /\ outcome'[r] = why /\ rows' = rows
                /\ why = "duplicate"
                      => \E d \in rows : Database!SameDocument(d, Document(r))
                /\ why = "evaluation_not_found" => e \notin evaluations
  <1>1. /\ TypeOK /\ TransactionsFollow /\ OutcomesFollow
    BY DEF RefinementInv, UploadInv, OwnedInv, SoundInv
  <1>2. UNCHANGED evaluations
    BY <1>1, OnlyItsOwn
  <1> USE DEF Moves, KeepsRow, KeepsAnswer, Closes
  <1>3. ASSUME rows' = rows, outcome'[r] = outcome[r]
        PROVE  UNCHANGED Registry!vars
    BY <1>1, <1>2, <1>3, ShownFollowsRows, StandingFollowsOutcome, RegistryActions
  <1>4. ASSUME NEW why \in Registry!StateErrors \cup Registry!OtherErrors, Decides(why)
        PROVE  Registry!Next
    <2>1. why # "none"
      BY DEF Registry!StateErrors, Registry!OtherErrors
    <2>2. Standings[r] = "open" /\ Standings' = [Standings EXCEPT ![r] = why]
      BY <1>1, <1>4, <2>1, StandingFollowsOutcome
    <2>3. why = "duplicate" => Registry!Holds(e, c)
      <3>1. SUFFICES ASSUME why = "duplicate" PROVE Registry!Holds(e, c)
        OBVIOUS
      <3>2. \E d \in rows : d.evaluation_id = e /\ d.sha256 = c
        BY <1>0, <1>4, <3>1 DEF Database!SameDocument, Document
      <3>3. \E d \in Shown : d.evaluation_id = e /\ d.sha256 = c
        BY <3>2, ShownFollowsRows
      <3>4. QED
        BY <3>3, RegistryActions
    <2>4. Shown' = Shown
      BY <1>4, ShownFollowsRows
    <2>5. Registry!Refuse(r, e, c, why)
      BY <1>2, <1>4, <2>2, <2>3, <2>4, RefuseAction
    <2>6. QED
      BY <1>1, <2>5 DEF Registry!Next
  <1> USE DEF Registry!StateErrors, Registry!OtherErrors, Registry!Errors
  <1>5. CASE Receive(r) \/ FindEvaluation(r) \/ Validate(r) \/ FindDuplicate(r)
    <2>1. /\ rows' = rows
          /\ \/ outcome'[r] = outcome[r]
             \/ Decides("evaluation_not_found") \/ Decides("persistence_error")
             \/ Decides("validation_error") \/ Decides("non_seekable")
             \/ Decides("duplicate")
      BY <1>0, <1>1, <1>5, ReceiveCall, FindEvaluationCall, ValidateCall, FindDuplicateCall
         DEF OutcomesFollow
    <2> HIDE DEF Decides
    <2>2. QED
      BY <1>3, <1>4, <2>1
  <1>6. CASE PublishFile(r) \/ StoreReturns(r) \/ StoreFails(r) \/ VerifyContent(r)
    <2>1. /\ rows' = rows
          /\ \/ outcome'[r] = outcome[r]
             \/ Decides("storage_error") \/ Decides("non_seekable")
             \/ Decides("content_mismatch")
      BY <1>1, <1>6, PublishFileCall, StoreReturnsCall, StoreFailsCall,
         VerifyContentCall DEF OutcomesFollow
    <2> HIDE DEF Decides
    <2>2. QED
      BY <1>3, <1>4, <2>1
  <1>7. CASE Insert(r) \/ InsertFails(r)
    <2>1. /\ rows' = rows
          /\ \/ outcome'[r] = outcome[r]
             \/ Decides("persistence_error") \/ Decides("duplicate")
             \/ Decides("evaluation_not_found")
      <3>1. CASE Insert(r)
        <4>1. /\ outcome[r] = "none" /\ rows' = rows
              /\ outcome'[r] \in {outcome[r], Database!InsertError(Document(r))}
          BY <1>1, <3>1, InsertCall DEF OutcomesFollow
        <4>2. Document(r).evaluation_id = e
          BY <1>0 DEF Document
        <4>3. QED
          BY <4>1, <4>2, RefusalsAreTrue
      <3>2. CASE InsertFails(r)
        BY <1>1, <3>2, InsertFailsCall DEF OutcomesFollow
      <3>3. QED
        BY <1>7, <3>1, <3>2
    <2> HIDE DEF Decides
    <2>2. QED
      BY <1>3, <1>4, <2>1
  <1>8. CASE Commit(r)
    <2>1. outcome[r] = "none" /\ pending[r] = {Document(r)}
      BY <1>1, <1>8, CommitCall DEF OutcomesFollow, TransactionsFollow
    <2>2. CASE outcome'[r] = "created" /\ rows' = rows \cup pending[r]
      <3>1. e \in evaluations /\ ~Registry!Holds(e, c)
        BY <1>0, <2>1, RowsComeRegistered, ShownFollowsRows, RegistryActions
      <3>2. Standings[r] = "open" /\ Standings' = [Standings EXCEPT ![r] = "created"]
        BY <1>1, <2>1, <2>2, StandingFollowsOutcome
      <3>3. Shown' = Shown \cup
               {[id |-> r, evaluation_id |-> e, sha256 |-> c, content |-> c]}
        <4>1. rows' = rows \cup {Document(r)}
          BY <2>1, <2>2
        <4>2. QED
          BY <1>0, <4>1, ShownFollowsRows
      <3>4. Registry!Register(r, e, c)
        <4>1. Standings' = IF Standings[r] = "open"
                           THEN [Standings EXCEPT ![r] = "created"] ELSE Standings
          BY <3>2
        <4>2. Standings[r] \in {"open", "abandoned"}
          BY <3>2
        <4> HIDE DEF Decides
        <4>3. QED
          BY <1>2, <3>1, <3>3, <4>1, <4>2, RegisterAction
      <3>5. QED
        BY <1>1, <3>4 DEF Registry!Next
    <2>3. CASE outcome'[r] = "persistence_error" /\ rows' = rows
      <3>1. Decides("persistence_error")
        BY <2>1, <2>3
      <3> HIDE DEF Decides
      <3>2. QED
        BY <1>4, <3>1
    <2>4. QED
      BY <1>1, <1>8, <2>2, <2>3, CommitCall
  <1>9. CASE Rollback(r)
    BY <1>1, <1>3, <1>9, RollbackCall
  <1>10. CASE DeleteFile(r)
    <2>1. /\ rows' = rows /\ outcome[r] \in LateErrors
          /\ outcome'[r] \in {outcome[r], "compensation_error"}
      BY <1>1, <1>10, DeleteFileCall DEF OutcomesFollow
    <2>2. CASE outcome'[r] = "compensation_error"
      <3>1. Standings[r] = outcome[r] /\ Shown' = Shown
            /\ Standings' = [Standings EXCEPT ![r] = "compensation_error"]
        BY <1>1, <2>1, <2>2, StandingFollowsOutcome, ShownFollowsRows DEF LateErrors
      <3>2. Standings[r] \in Registry!StateErrors \cup Registry!OtherErrors
        BY <2>1, <3>1 DEF LateErrors
      <3>3. Registry!Spoil(r)
        BY <1>2, <3>1, <3>2, RegistryActions
      <3>4. QED
        BY <3>3 DEF Registry!Next
    <2>3. QED
      BY <1>3, <2>1, <2>2
  <1>11. QED
    BY <1>5, <1>6, <1>7, <1>8, <1>9, <1>10 DEF Upload

(* Seen from outside every step is one of the registry, or none.           *)
LEMMA RegistryRefinement ==
    ASSUME NothingLost, RefinementInv, RowHasFile, RowHasFile', [Next]_vars
    PROVE  [Registry!Next]_(Registry!vars)
  <1>1. TypeOK /\ TransactionsFollow /\ OutcomesFollow
    BY DEF RefinementInv, UploadInv, OwnedInv, SoundInv
  <1>2. ASSUME NEW r \in Requests, ServerSettles(r)
        PROVE  [Registry!Next]_(Registry!vars)
    <2>0. PICK e \in Evaluations, c \in Contents :
             request[r].evaluation_id = e /\ request[r].sha256 = c
      BY <1>1 DEF TypeOK
    <2>1. /\ UNCHANGED <<evaluations, outcome, pc>>
          /\ \/ rows' = rows
             \/ transaction[r] = "in_doubt" /\ rows' = rows \cup pending[r]
      BY <1>1, <1>2, SettleStep DEF requestVars
    <2>2. Standings' = Standings
      BY <2>1 DEF Standings, Standing
    <2>3. CASE rows' = rows
      BY <2>1, <2>2, <2>3, ShownFollowsRows, RegistryActions
    <2>4. CASE /\ transaction[r] = "in_doubt" /\ rows' = rows \cup pending[r]
               /\ pending[r] # {}
      <3>1. pending[r] = {Document(r)}
        BY <1>1, <2>4 DEF TransactionsFollow
      <3>2. Standings[r] = "abandoned"
        BY <2>4 DEF Standings, Standing, RefinementInv, OutcomesFollow, UploadInv,
           RowsAreBacked
      <3>3. e \in evaluations /\ ~Registry!Holds(e, c)
        BY <2>0, <3>1, RowsComeRegistered, ShownFollowsRows, RegistryActions
      <3>4. Shown' = Shown \cup
               {[id |-> r, evaluation_id |-> e, sha256 |-> c, content |-> c]}
        <4>1. rows' = rows \cup {Document(r)}
          BY <2>4, <3>1
        <4>2. QED
          BY <2>0, <4>1, ShownFollowsRows
      <3>5. Registry!Register(r, e, c)
        BY <2>1, <2>2, <3>2, <3>3, <3>4, RegisterAction
      <3>6. QED
        BY <3>5 DEF Registry!Next
    <2>5. QED
      BY <2>1, <2>3, <2>4
  <1>3. ASSUME NEW e \in Evaluations, RemoveEvaluation(e)
        PROVE  [Registry!Next]_(Registry!vars)
    <2>1. /\ evaluations' = evaluations \ {e} /\ UNCHANGED <<outcome, pc>>
          /\ rows' = {d \in rows : d.evaluation_id # e}
      BY <1>1, <1>3, RemovalStep DEF requestVars
    <2>2. Standings' = Standings
      BY <2>1 DEF Standings, Standing
    <2>3. Registry!RemoveEvaluation(e)
      BY <2>1, <2>2, ShownFollowsRows, RegistryActions
    <2>4. QED
      BY <2>3 DEF Registry!Next
  <1>4. CASE Crash
    <2> DEFINE Dead == {q \in InFlight : outcome[q] = "none"}
    <2>1. /\ UNCHANGED <<evaluations, rows, outcome>>
          /\ pc' = [q \in Requests |-> IF q \in InFlight THEN "crashed" ELSE pc[q]]
      BY <1>1, <1>4, DeathStep DEF Crash, Die
    <2>2. Dead \in SUBSET Requests
      BY DEF InFlight
    <2>3. \A q \in Dead : Standings[q] = "open"
      BY DEF InFlight, Standings, Standing
    <2>4. \A q \in Requests :
             Standing(q)' = IF q \in Dead THEN "abandoned" ELSE Standing(q)
      BY <2>1 DEF InFlight, Standing
    <2>5. Standings' = [q \in Requests |->
                           IF q \in Dead THEN "abandoned" ELSE Standings[q]]
      BY <2>4 DEF Standings
    <2>6. Registry!Abandon(Dead)
      BY <2>1, <2>3, <2>5, ShownFollowsRows, RegistryActions
    <2> HIDE DEF Dead
    <2>7. QED
      BY <2>2, <2>6 DEF Registry!Next
  <1>5. ~PowerLoss
    BY DEF NothingLost, PowerKept, PowerLoss
  <1>6. CASE UNCHANGED vars
    <2>1. UNCHANGED <<evaluations, rows, outcome, pc>>
      BY <1>6 DEF vars, requestVars, databaseVars
    <2>2. Standings' = Standings
      BY <2>1 DEF Standings, Standing
    <2>3. QED
      BY <2>1, <2>2, ShownFollowsRows, RegistryActions
  <1>7. QED
    BY <1>2, <1>3, <1>4, <1>5, <1>6, StepCases, RequestRefinement

(* As long as nothing is lost an upload is one step: its document appears  *)
(* whole or never does, what it answers is true when it is decided, and a  *)
(* request that was refused adds nothing later.                            *)
THEOREM UploadImplementsRegistry == ASSUME NothingLost PROVE Spec => ImplementsRegistry
  <1>1. Init => Registry!Init
    BY DEF Init, Database!Init, Registry!Init, Standing
  <1>2. RefinementInv => RowHasFile
    BY BackedRowsHaveFiles DEF RefinementInv
  <1>3. RefinementInv /\ RowHasFile /\ RowHasFile' /\ [Next]_vars
           => [Registry!Next]_(Registry!vars)
    BY RegistryRefinement
  <1>4. QED
    BY <1>1, <1>2, <1>3, RefinementInvariant, PTL
       DEF Spec, ImplementsRegistry, Registry!Spec

-----------------------------------------------------------------------------
(* The ports the upload calls. *)

(* Every step of the upload is a step of its storage, or none.             *)
LEMMA StorageRefinement == TypeOK /\ [Next]_vars => [Storage!Next]_(Storage!vars)
  <1> SUFFICES ASSUME TypeOK, [Next]_vars PROVE [Storage!Next]_(Storage!vars)
    OBVIOUS
  <1>1. ASSUME UNCHANGED storageVars PROVE UNCHANGED Storage!vars
    BY <1>1 DEF storageVars, Storage!vars
  <1>2. ASSUME NEW r \in Requests, Receive(r) \/ Upload(r) \/ InsertFails(r)
        PROVE  [Storage!Next]_(Storage!vars)
    BY <1>1, <1>2, StorageSteps DEF Storage!Next
  <1>3. CASE Crash \/ PowerLoss
    <2>1. {r \in Requests : status[r] \in {"running", "published"}} \in SUBSET Requests
      OBVIOUS
    <2>2. QED
      BY <1>3, <2>1 DEF Crash, PowerLoss, Storage!Next
  <1>4. QED
    BY <1>1, <1>2, <1>3, StepCases DEF ServerSettles, RemoveEvaluation, vars

(* However requests interleave and fail, upload() calls its storage only   *)
(* as the port allows: it deletes what store() returned to it and nothing  *)
(* else, each key is stored once, and it never acts on a call that raised; *)
(* and its sessions do to the database only what the schema allows.        *)
THEOREM UploadKeepsToItsPorts == Spec => Storage!Spec /\ Schema!Spec
  <1>1. Init => Storage!Init /\ Schema!Init
    BY DEF Init, Storage!Init, Database!Init, Schema!Init
  <1>2. TypeOK /\ [Next]_vars => [Storage!Next]_(Storage!vars) /\ [Schema!Next]_(Schema!vars)
    BY StorageRefinement, DatabaseRefinement
  <1>3. QED
    BY <1>1, <1>2, TypeCorrect, PTL DEF Spec, Storage!Spec, Schema!Spec

=============================================================================
