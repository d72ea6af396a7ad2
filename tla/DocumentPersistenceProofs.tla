---------------------- MODULE DocumentPersistenceProofs ----------------------
(***************************************************************************)
(* Proofs about DocumentPersistence, for any sets of sessions, documents,  *)
(* evaluations and hashes.                                                 *)
(***************************************************************************)
EXTENDS DocumentPersistence, TLAPS

(* Both promises of the schema, with the types they need.                  *)
SchemaInv == TypeOK /\ DocumentsAreUnique /\ ReferencesExist

(* The promises hold of an empty table.                                    *)
LEMMA InitSchemaInv == Init => SchemaInv
  BY DEF Init, SchemaInv, TypeOK, States, Row, DocumentsAreUnique,
     ReferencesExist, Stored

(* Every step keeps the types.                                             *)
LEMMA NextTypeOK == TypeOK /\ [Next]_vars => TypeOK'
  <1> SUFFICES ASSUME TypeOK, [Next]_vars PROVE TypeOK'
    OBVIOUS
  <1> USE DEF TypeOK, States
  <1>1. ASSUME NEW s \in Sessions, NEW d \in Row,
               Insert(s, d) \/ InsertRejected(s, d) \/ InsertLost(s, d)
        PROVE  TypeOK'
    BY <1>1 DEF Insert, InsertRejected, InsertLost, CanInsert
  <1>2. ASSUME NEW s \in Sessions,
               Open(s) \/ CommitUnsent(s) \/ CommitUnacknowledged(s)
        PROVE  TypeOK'
    BY <1>2 DEF Open, CommitUnsent, CommitUnacknowledged
  <1>3. ASSUME NEW s \in Sessions, Commit(s) \/ Settle(s) PROVE TypeOK'
    BY <1>3 DEF Commit, Settle
  <1>4. ASSUME NEW s \in Sessions, Rollback(s) \/ RollbackFails(s)
        PROVE  TypeOK'
    BY <1>4 DEF Rollback, RollbackFails, vars
  <1>5. ASSUME NEW S, NEW C, Disconnect(S, C) PROVE TypeOK'
    BY <1>5 DEF Disconnect
  <1>6. ASSUME NEW e, RemoveEvaluation(e) PROVE TypeOK'
    BY <1>6 DEF RemoveEvaluation
  <1>7. CASE UNCHANGED vars
    BY <1>7 DEF vars
  <1>8. QED
    BY <1>1, <1>2, <1>3, <1>4, <1>5, <1>6, <1>7 DEF Next

(* An INSERT that the server accepts meets no row like it, committed or    *)
(* not: the committed ones are refused and the others waited for.          *)
LEMMA AcceptedIsNew ==
    ASSUME NEW s \in Sessions, NEW d \in Row,
           pending[s] = {}, ~Blocked(s, d), InsertError(d) = "none"
    PROVE  /\ \A e \in Stored : ~Conflicts(d, e) /\ ~Conflicts(e, d)
           /\ d.evaluation_id \in evaluations
  <1>1. \A e \in rows : ~Conflicts(d, e) /\ ~Conflicts(e, d)
    BY DEF InsertError, Conflicts, SameDocument
  <1>2. \A t \in Sessions : \A e \in pending[t] :
           ~Conflicts(d, e) /\ ~Conflicts(e, d)
    BY DEF Blocked, Conflicts, SameDocument
  <1>3. d.evaluation_id \in evaluations
    BY DEF InsertError
  <1>4. QED
    BY <1>1, <1>2, <1>3 DEF Stored

(* Both promises survive a step after which nothing new is stored and no   *)
(* stored document has lost its evaluation.                                *)
LEMMA NothingNew ==
    ASSUME DocumentsAreUnique, ReferencesExist, Stored' \subseteq Stored,
           UNCHANGED evaluations
    PROVE  DocumentsAreUnique' /\ ReferencesExist'
  BY DEF DocumentsAreUnique, ReferencesExist, Conflicts, SameDocument

(* Both promises survive an INSERT that the server accepts.                *)
LEMMA OneMore ==
    ASSUME DocumentsAreUnique, ReferencesExist,
           NEW s \in Sessions, NEW d \in Row,
           pending[s] = {}, ~Blocked(s, d), InsertError(d) = "none",
           Stored' \subseteq Stored \cup {d}, UNCHANGED evaluations
    PROVE  DocumentsAreUnique' /\ ReferencesExist'
  BY AcceptedIsNew
     DEF DocumentsAreUnique, ReferencesExist, Conflicts, SameDocument

(* Every step keeps both promises.                                         *)
LEMMA NextSchemaInv == SchemaInv /\ [Next]_vars => SchemaInv'
  <1> SUFFICES ASSUME TypeOK, DocumentsAreUnique, ReferencesExist, [Next]_vars
               PROVE  DocumentsAreUnique' /\ ReferencesExist'
    BY NextTypeOK DEF SchemaInv
  <1>1. ASSUME NEW s \in Sessions, NEW d \in Row, Insert(s, d)
        PROVE  DocumentsAreUnique' /\ ReferencesExist'
    <2>1. Stored' \subseteq Stored \cup {d}
      BY <1>1 DEF Insert, Stored, TypeOK
    <2>2. QED
      BY <1>1, <2>1, OneMore DEF Insert, CanInsert
  <1>2. ASSUME NEW s \in Sessions, NEW d \in Row, InsertLost(s, d)
        PROVE  DocumentsAreUnique' /\ ReferencesExist'
    <2>1. CASE UNCHANGED pending
      BY <1>2, <2>1, NothingNew DEF InsertLost, Stored
    <2>2. CASE pending' = [pending EXCEPT ![s] = {d}]
      <3>1. Stored' \subseteq Stored \cup {d}
        BY <1>2, <2>2 DEF InsertLost, Stored, TypeOK
      <3>2. QED
        BY <1>2, <2>1, <3>1, OneMore DEF InsertLost
    <2>3. QED
      BY <1>2, <2>1, <2>2 DEF InsertLost
  <1>3. ASSUME NEW s \in Sessions, Commit(s) \/ Settle(s)
        PROVE  DocumentsAreUnique' /\ ReferencesExist'
    <2>1. Stored' \subseteq Stored /\ UNCHANGED evaluations
      BY <1>3 DEF Commit, Settle, Stored, TypeOK
    <2>2. QED
      BY <2>1, NothingNew
  <1>4. ASSUME NEW s \in Sessions, Rollback(s) \/ RollbackFails(s)
        PROVE  DocumentsAreUnique' /\ ReferencesExist'
    <2>1. Stored' \subseteq Stored /\ UNCHANGED evaluations
      BY <1>4 DEF Rollback, RollbackFails, Stored, TypeOK, vars
    <2>2. QED
      BY <2>1, NothingNew
  <1>5. ASSUME UNCHANGED <<evaluations, rows, pending>>
        PROVE  DocumentsAreUnique' /\ ReferencesExist'
    BY <1>5, NothingNew DEF Stored
  <1>6. ASSUME NEW e \in Evaluations, RemoveEvaluation(e)
        PROVE  DocumentsAreUnique' /\ ReferencesExist'
    <2>1. /\ Stored' \subseteq Stored
          /\ \A d \in Stored' : d.evaluation_id # e
      BY <1>6 DEF RemoveEvaluation, Stored, TypeOK
    <2>2. evaluations' = evaluations \ {e}
      BY <1>6 DEF RemoveEvaluation
    <2>3. QED
      BY <2>1, <2>2 DEF DocumentsAreUnique, ReferencesExist, Conflicts,
         SameDocument
  <1>7. QED
    BY <1>1, <1>2, <1>3, <1>4, <1>5, <1>6
       DEF Next, Open, InsertRejected, CommitUnsent, CommitUnacknowledged,
           Disconnect, vars

(* The schema's promises hold throughout.                                  *)
THEOREM SchemaInvariant == Spec => []SchemaInv
  BY InitSchemaInv, NextSchemaInv, PTL DEF Spec

(* However sessions interleave and connections drop, no evaluation holds   *)
(* one content twice and no identifier is used twice, counting the rows    *)
(* that may still be committed (uq_documents_evaluation_sha256).           *)
THEOREM DocumentsStayUnique == Spec => []DocumentsAreUnique
  BY SchemaInvariant, PTL DEF SchemaInv

(* No document outlives its evaluation (fk_documents_evaluation_id and its *)
(* ON DELETE CASCADE).                                                     *)
THEOREM ReferencesStay == Spec => []ReferencesExist
  BY SchemaInvariant, PTL DEF SchemaInv
=============================================================================
