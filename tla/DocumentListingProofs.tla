----------------------- MODULE DocumentListingProofs -----------------------
(***************************************************************************)
(* Proofs about DocumentListing, for any readers beside any sessions.      *)
(***************************************************************************)
EXTENDS DocumentListing, DocumentPersistenceProofs

\* What an evaluation held when a reader came, it holds as long as it stands.
BeforeIsStored ==
    \A r \in Readers :
        target[r] \in evaluations => before[r] \subseteq DocumentsOf(target[r])

\* Only a missing evaluation is answered 404, and none comes back.
MissingStaysMissing ==
    \A r \in Readers : stage[r] = "not_found" => target[r] \notin evaluations

\* The inductive invariant.
ListingInv ==
    ListingTypeOK /\ BeforeIsStored /\ ListIsComplete /\ MissingStaysMissing

-----------------------------------------------------------------------------
(* Reading changes nothing, so the database is the one the schema's        *)
(* theorems are about.                                                     *)
LEMMA ListingSteps ==
    ASSUME [ListingNext]_<<vars, readerVars>>
    PROVE  /\ [Next]_vars
           /\ \/ UNCHANGED readerVars
              \/ /\ UNCHANGED vars
                 /\ \E r \in Readers : Ask(r) \/ FindEvaluation(r) \/ List(r)
  BY DEF ListingNext, Ask, FindEvaluation, List, Reaches

(* No evaluation comes back, and one that stands loses no document.        *)
LEMMA StandingKeepsDocuments ==
    ASSUME [Next]_vars
    PROVE  /\ evaluations' \subseteq evaluations
           /\ \A e \in evaluations' : DocumentsOf(e) \subseteq DocumentsOf(e)'
  <1>1. ASSUME NEW s \in Sessions, NEW d \in Row,
               Insert(s, d) \/ InsertRejected(s, d) \/ InsertLost(s, d)
        PROVE  rows \subseteq rows' /\ evaluations' = evaluations
    BY <1>1 DEF Insert, InsertRejected, InsertLost
  <1>2. ASSUME NEW s \in Sessions,
               \/ Open(s) \/ Commit(s) \/ CommitUnsent(s)
               \/ CommitUnacknowledged(s) \/ Settle(s)
        PROVE  rows \subseteq rows' /\ evaluations' = evaluations
    BY <1>2 DEF Open, Commit, CommitUnsent, CommitUnacknowledged, Settle
  <1>3. ASSUME NEW s \in Sessions, Rollback(s) \/ RollbackFails(s)
        PROVE  rows \subseteq rows' /\ evaluations' = evaluations
    BY <1>3 DEF Rollback, RollbackFails, vars
  <1>4. ASSUME NEW S, NEW C, Disconnect(S, C)
        PROVE  rows \subseteq rows' /\ evaluations' = evaluations
    BY <1>4 DEF Disconnect
  <1>5. CASE rows \subseteq rows' /\ evaluations' = evaluations
    BY <1>5 DEF DocumentsOf
  <1>6. ASSUME NEW e, RemoveEvaluation(e)
        PROVE  /\ evaluations' \subseteq evaluations
               /\ \A f \in evaluations' : DocumentsOf(f) \subseteq DocumentsOf(f)'
    BY <1>6 DEF RemoveEvaluation, DocumentsOf
  <1>7. QED
    BY <1>1, <1>2, <1>3, <1>4, <1>5, <1>6 DEF Next, vars

(* The initial states satisfy the invariant: nobody has asked.             *)
LEMMA InitListingInv == ListingInit => ListingInv
  BY InitSchemaInv DEF ListingInit, ListingInv, ListingTypeOK, SchemaInv,
     BeforeIsStored, ListIsComplete, MissingStaysMissing, Stages

(* A reader's own step keeps the invariant.                                *)
LEMMA ReaderKeepsInv ==
    ASSUME ListingInv, NEW r \in Readers, Ask(r) \/ FindEvaluation(r) \/ List(r)
    PROVE  ListingInv'
  <1> USE DEF ListingInv, ListingTypeOK, TypeOK, BeforeIsStored, ListIsComplete,
          MissingStaysMissing, DocumentsOf, Stages, Reaches, vars
  <1>1. CASE Ask(r)
    BY <1>1 DEF Ask
  <1>2. CASE FindEvaluation(r)
    BY <1>2 DEF FindEvaluation, EvaluationExists
  <1>3. CASE List(r)
    BY <1>3 DEF List, ListByEvaluation
  <1>4. QED
    BY <1>1, <1>2, <1>3

(* Every step keeps the invariant.                                         *)
LEMMA NextListingInv ==
    ListingInv /\ [ListingNext]_<<vars, readerVars>> => ListingInv'
  <1> SUFFICES ASSUME ListingInv, [ListingNext]_<<vars, readerVars>>
               PROVE  ListingInv'
    OBVIOUS
  <1>1. CASE UNCHANGED readerVars
    <2>1. TypeOK'
      BY ListingSteps, NextTypeOK DEF ListingInv, ListingTypeOK
    <2>2. /\ evaluations' \subseteq evaluations
          /\ \A e \in evaluations' : DocumentsOf(e) \subseteq DocumentsOf(e)'
      BY ListingSteps, StandingKeepsDocuments
    <2>3. QED
      BY <1>1, <2>1, <2>2 DEF ListingInv, ListingTypeOK, BeforeIsStored,
         ListIsComplete, MissingStaysMissing, readerVars, DocumentsOf
  <1>2. CASE \E r \in Readers : Ask(r) \/ FindEvaluation(r) \/ List(r)
    BY <1>2, ReaderKeepsInv
  <1>3. QED
    BY <1>1, <1>2, ListingSteps

-----------------------------------------------------------------------------
(* Readers see a database whose promises they cannot disturb: beside them  *)
(* it runs as it does alone.                                               *)
THEOREM ListingImplementsPersistence == ListingSpec => Spec
  <1>1. ListingInit => Init
    BY DEF ListingInit
  <1>2. QED
    BY <1>1, ListingSteps, PTL DEF ListingSpec, Spec

(* What a reader was answered stays in step with the database.             *)
THEOREM ListingInvariant == ListingSpec => []ListingInv
  BY InitListingInv, NextListingInv, PTL DEF ListingSpec

(* Every variable keeps its type, the readers' included.                   *)
THEOREM ListingTypeCorrect == ListingSpec => []ListingTypeOK
  <1>1. ListingInv => ListingTypeOK
    BY DEF ListingInv
  <1>2. QED
    BY <1>1, ListingInvariant, PTL

(* A list misses no document committed before the request came and has     *)
(* none that was given up, as long as its evaluation stands.               *)
THEOREM ListsAreComplete == ListingSpec => []ListIsComplete
  <1>1. ListingInv => ListIsComplete
    BY DEF ListingInv
  <1>2. QED
    BY <1>1, ListingInvariant, PTL

(* What the second query finds: every document of an evaluation that       *)
(* stands, none of one that was removed after the first.                   *)
LEMMA ListsAreCurrent ==
    ASSUME ReferencesExist, ListingInv, [ListingNext]_<<vars, readerVars>>,
           NEW b \in Readers, stage[b] = "list", stage'[b] = "ok"
    PROVE  /\ listed'[b] = DocumentsOf(target[b])
           /\ target[b] \notin evaluations => listed'[b] = {}
  <1>1. List(b)
    <2>1. PICK r \in Readers : Ask(r) \/ FindEvaluation(r) \/ List(r)
      BY ListingSteps DEF readerVars
    <2>2. r = b
      BY <2>1 DEF Ask, FindEvaluation, List, Reaches, ListingInv, ListingTypeOK
    <2>3. QED
      BY <2>1, <2>2 DEF Ask, FindEvaluation, Reaches
  <1>2. listed'[b] = DocumentsOf(target[b])
    BY <1>1 DEF List, Reaches, ListByEvaluation, ListingInv, ListingTypeOK
  <1>3. target[b] \notin evaluations => DocumentsOf(target[b]) = {}
    BY DEF ReferencesExist, Stored, DocumentsOf
  <1>4. QED
    BY <1>2, <1>3

(* No two answers about one evaluation contradict each other: the list of  *)
(* a removed evaluation is empty, no document of an earlier list is        *)
(* missing from a later one, and after a 404 no document is shown.         *)
THEOREM AnswersAgree == ListingSpec => AnswersTellOneStory
  <1>1. /\ ReferencesExist /\ ListingInv
        /\ [ListingNext]_<<vars, readerVars>>
        => [\A b \in Readers :
              stage[b] = "list" /\ stage'[b] = "ok" => Agrees(b)]_<<vars, readerVars>>
    BY ListsAreCurrent DEF Agrees, ListingInv, MissingStaysMissing, ListIsComplete
  <1>2. ListingSpec => []ReferencesExist
    BY ListingImplementsPersistence, ReferencesStay, PTL
  <1>3. QED
    BY <1>1, <1>2, ListingInvariant, PTL DEF ListingSpec, AnswersTellOneStory
=============================================================================
