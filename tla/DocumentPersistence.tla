------------------------ MODULE DocumentPersistence ------------------------
(***************************************************************************)
(* Document metadata in PostgreSQL, as SqlAlchemyDocumentPersistence and   *)
(* its Session use it: one session per request, one INSERT per session,    *)
(* READ COMMITTED, autoflush off (the INSERT is sent by commit()).  The    *)
(* server decides what the constraints of the documents table and its      *)
(* foreign key promise; an INSERT that meets an uncommitted row with the   *)
(* same key waits for the transaction that holds it.                       *)
(***************************************************************************)
CONSTANTS
    Sessions,     \* one database session per request
    Documents,    \* document identifiers
    Evaluations,  \* evaluation identifiers
    Hashes        \* SHA-256 values

VARIABLES
    evaluations,  \* the committed rows of table evaluations
    rows,         \* the committed rows of table documents
    transaction,  \* the state of each session's transaction
    pending       \* the rows each transaction inserted and has not committed

vars == <<evaluations, rows, transaction, pending>>

Row == [id : Documents, evaluation_id : Evaluations, sha256 : Hashes]

\* open: the connection works.  severed: the client lost the connection and
\* no COMMIT was sent.  in_doubt: the client lost the connection while its
\* COMMIT was on its way.  closed: nothing is left of the transaction.
States == {"idle", "open", "severed", "in_doubt", "closed"}

TypeOK ==
    /\ evaluations \subseteq Evaluations
    /\ rows \subseteq Row
    /\ transaction \in [Sessions -> States]
    /\ pending \in [Sessions -> SUBSET Row]

Init ==
    /\ evaluations \in SUBSET Evaluations
    /\ rows = {}
    /\ transaction = [s \in Sessions |-> "idle"]
    /\ pending = [s \in Sessions |-> {}]

-----------------------------------------------------------------------------
(* Queries: they see committed rows only. *)

EvaluationExists(e) == e \in evaluations

\* Mutation: the query forgets the evaluation.
ExistsBySha256(e, h) == \E d \in rows : d.sha256 = h

ExistsByEvaluationAndSha256(e, h) ==
    \E d \in rows : d.evaluation_id = e /\ d.sha256 = h

SameDocument(d, e) == d.evaluation_id = e.evaluation_id /\ d.sha256 = e.sha256

Conflicts(d, e) == d.id = e.id \/ SameDocument(d, e)

\* The INSERT of d waits for whoever holds a conflicting uncommitted row.
Blocked(s, d) ==
    \E t \in Sessions \ {s} : \E e \in pending[t] : Conflicts(d, e)

\* Mutations: the unique constraint is missing from the migration; the
\* violation is not translated.
InsertErrorWithoutUnique(d) ==
    IF \E e \in rows : d.id = e.id THEN "persistence_error"
    ELSE IF d.evaluation_id \notin evaluations THEN "evaluation_not_found"
    ELSE "none"
InsertErrorUntranslated(d) ==
    IF \E e \in rows : Conflicts(d, e) THEN "integrity_error"
    ELSE IF d.evaluation_id \notin evaluations THEN "evaluation_not_found"
    ELSE "none"

\* The error an INSERT of d is answered with, after translation.  The
\* primary key is checked first, then the unique pair, then the foreign key
\* at the end of the statement.
InsertError(d) ==
    IF \E e \in rows : d.id = e.id THEN "persistence_error"
    ELSE IF \E e \in rows : SameDocument(d, e) THEN "duplicate"
    ELSE IF d.evaluation_id \notin evaluations THEN "evaluation_not_found"
    ELSE "none"

-----------------------------------------------------------------------------
Open(s) ==
    /\ transaction[s] = "idle"
    /\ transaction' = [transaction EXCEPT ![s] = "open"]
    /\ UNCHANGED <<evaluations, rows, pending>>

CanInsert(s, d) ==
    /\ transaction[s] = "open"
    /\ pending[s] = {}
    /\ ~Blocked(s, d)

Insert(s, d) ==
    /\ CanInsert(s, d)
    /\ InsertError(d) = "none"
    /\ pending' = [pending EXCEPT ![s] = {d}]
    /\ UNCHANGED <<evaluations, rows, transaction>>

\* Mutation: the transaction is left in its error state.
InsertAborts(s, d) ==
    /\ CanInsert(s, d)
    /\ InsertError(d) # "none"
    /\ transaction' = [transaction EXCEPT ![s] = "aborted"]
    /\ UNCHANGED <<evaluations, rows, pending>>

\* A failed flush rolls the transaction back before the error is raised.
InsertRejected(s, d) ==
    /\ CanInsert(s, d)
    /\ InsertError(d) # "none"
    /\ transaction' = [transaction EXCEPT ![s] = "closed"]
    /\ UNCHANGED <<evaluations, rows, pending>>

\* The connection drops under the INSERT, which the server applied or not.
InsertLost(s, d) ==
    /\ transaction[s] = "open"
    /\ pending[s] = {}
    /\ transaction' = [transaction EXCEPT ![s] = "severed"]
    /\ \/ UNCHANGED pending
       \/ /\ ~Blocked(s, d)
          /\ InsertError(d) = "none"
          /\ pending' = [pending EXCEPT ![s] = {d}]
    /\ UNCHANGED <<evaluations, rows>>

\* Mutation: flush() where commit() is meant.
Flush(s) == transaction[s] = "open" /\ UNCHANGED vars

Commit(s) ==
    /\ transaction[s] = "open"
    /\ transaction' = [transaction EXCEPT ![s] = "closed"]
    /\ rows' = rows \cup pending[s]
    /\ pending' = [pending EXCEPT ![s] = {}]
    /\ UNCHANGED evaluations

\* The connection drops before the COMMIT leaves the client.
CommitUnsent(s) ==
    /\ transaction[s] = "open"
    /\ transaction' = [transaction EXCEPT ![s] = "severed"]
    /\ UNCHANGED <<evaluations, rows, pending>>

\* The connection drops after the COMMIT left: commit() raises all the same.
CommitUnacknowledged(s) ==
    /\ transaction[s] = "open"
    /\ transaction' = [transaction EXCEPT ![s] = "in_doubt"]
    /\ UNCHANGED <<evaluations, rows, pending>>

\* rollback(), or the close of the session; nothing to send on a connection
\* that is gone.
Rollback(s) ==
    IF transaction[s] = "open"
    THEN /\ transaction' = [transaction EXCEPT ![s] = "closed"]
         /\ pending' = [pending EXCEPT ![s] = {}]
         /\ UNCHANGED <<evaluations, rows>>
    ELSE UNCHANGED vars

\* rollback() raises: if the connection was still there, it is gone now.
RollbackFails(s) ==
    IF transaction[s] = "open"
    THEN /\ transaction' = [transaction EXCEPT ![s] = "severed"]
         /\ UNCHANGED <<evaluations, rows, pending>>
    ELSE UNCHANGED vars

-----------------------------------------------------------------------------
(* The server's side, and other writers. *)

\* Mutation: a two-phase COMMIT, whose transaction outlives a lost client.
SettleSevered(s) ==
    /\ transaction[s] = "severed"
    /\ transaction' = [transaction EXCEPT ![s] = "closed"]
    /\ pending' = [pending EXCEPT ![s] = {}]
    /\ UNCHANGED <<evaluations, rows>>

\* The server learns that the client is gone and ends its transaction.  Only
\* a COMMIT that was on its way can still take effect.
Settle(s) ==
    /\ transaction[s] \in {"severed", "in_doubt"}
    /\ \/ UNCHANGED rows
       \/ /\ transaction[s] = "in_doubt"
          /\ rows' = rows \cup pending[s]
    /\ transaction' = [transaction EXCEPT ![s] = "closed"]
    /\ pending' = [pending EXCEPT ![s] = {}]
    /\ UNCHANGED evaluations

\* The clients of the open sessions in S die; those in C had sent COMMIT.
Disconnect(S, C) ==
    /\ transaction' = [s \in Sessions |->
                          IF s \in S /\ transaction[s] = "open"
                          THEN IF s \in C THEN "in_doubt" ELSE "severed"
                          ELSE transaction[s]]
    /\ UNCHANGED <<evaluations, rows, pending>>

\* Mutation: the foreign key does not cascade.
RemoveEvaluationOnly(e) ==
    /\ e \in evaluations
    /\ \A s \in Sessions : \A d \in pending[s] : d.evaluation_id # e
    /\ evaluations' = evaluations \ {e}
    /\ UNCHANGED <<rows, transaction, pending>>

\* An evaluation is deleted, its documents with it (ON DELETE CASCADE).  An
\* uncommitted document that references the evaluation keeps it locked.
RemoveEvaluation(e) ==
    /\ e \in evaluations
    /\ \A s \in Sessions : \A d \in pending[s] : d.evaluation_id # e
    /\ evaluations' = evaluations \ {e}
    /\ rows' = {d \in rows : d.evaluation_id # e}
    /\ UNCHANGED <<transaction, pending>>

Next ==
    \/ \E s \in Sessions :
          \/ Open(s)
          \/ \E d \in Row : Insert(s, d) \/ InsertRejected(s, d) \/ InsertLost(s, d)
          \/ Commit(s) \/ CommitUnsent(s) \/ CommitUnacknowledged(s)
          \/ Rollback(s) \/ RollbackFails(s)
          \/ Settle(s)
    \/ \E S \in SUBSET Sessions : \E C \in SUBSET S : Disconnect(S, C)
    \/ \E e \in Evaluations : RemoveEvaluation(e)

Spec == Init /\ [][Next]_vars

-----------------------------------------------------------------------------
Stored == rows \cup UNION {pending[s] : s \in Sessions}

(* No evaluation ever holds the same content twice, nor two documents one  *)
(* identifier, counting the rows a transaction may still commit: the check *)
(* before the upload cannot promise it, the constraint and the wait for    *)
(* uncommitted rows do.                                                    *)
DocumentsAreUnique == \A d, e \in Stored : Conflicts(d, e) => d = e

(* A document never outlives its evaluation, even when the evaluation is   *)
(* removed while an upload into it is between its INSERT and its COMMIT.   *)
ReferencesExist == \A d \in Stored : d.evaluation_id \in evaluations
=============================================================================
