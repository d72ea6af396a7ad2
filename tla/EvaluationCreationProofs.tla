---------------------- MODULE EvaluationCreationProofs ----------------------
(***************************************************************************)
(* Proofs about EvaluationCreation, for any requests and any pool size.    *)
(***************************************************************************)
EXTENDS EvaluationCreation, FiniteSetTheorems, TLAPS

\* What the type invariant counts can be counted.
Counted == IsFiniteSet(connected) /\ IsFiniteSet(inserting)

BeforeCommit == {"idle", "connect", "get_profile", "insert_profile", "commit"}

\* What a request has stored, by where it is.
EvaluationsFollow ==
    \A r \in Requests :
        /\ stage[r] \in BeforeCommit => r \notin evaluations
        /\ stage[r] \in {"reconnect", "refresh"} => r \in evaluations
        /\ answer[r] # "none" => stage[r] \in {"close", "answered"}
        /\ r \in in_doubt => stage[r] \in {"close", "answered"}

\* The profile is stored, or will be by the same COMMIT as the evaluation.
ProfilesFollow ==
    \A r \in Requests :
        /\ stage[r] = "commit" => profile \/ r \in inserting
        /\ answer[r] = "commit_error" /\ r \in in_doubt
              => profile \/ r \in inserting
        /\ r \in evaluations => profile

\* A request that came late finds the profile.
LateFindProfile ==
    \A r \in late : profile /\ stage[r] # "insert_profile"

\* The inductive invariant.
CreationInv ==
    /\ TypeOK
    /\ Counted
    /\ EvaluationsFollow
    /\ ProfilesFollow
    /\ LateFindProfile
    /\ AnswersAreTrue
    /\ ConflictsAreEarly

-----------------------------------------------------------------------------
(* No request has begun, and nothing contradicts it.                       *)
LEMMA InitCreationInv == Init => CreationInv
  <1> SUFFICES ASSUME Init PROVE CreationInv
    OBVIOUS
  <1>1. IsFiniteSet({}) /\ Cardinality({}) = 0
    BY FS_EmptySet
  <1>2. Counted /\ Cardinality(connected) <= PoolSize /\ Cardinality(inserting) <= 1
    BY <1>1, PoolAssumption DEF Init, Counted
  <1>3. QED
    BY <1>2 DEF Init, CreationInv, TypeOK, Stages, Statements, Answers,
       EvaluationsFollow, ProfilesFollow, LateFindProfile, AnswersAreTrue,
       ConflictsAreEarly, BeforeCommit

(* A finite set with one element more or less.                             *)
LEMMA OneMoreOrLess ==
    ASSUME NEW C, IsFiniteSet(C), NEW r
    PROVE  /\ IsFiniteSet(C \cup {r}) /\ IsFiniteSet(C \ {r})
           /\ Cardinality(C) \in Nat
           /\ Cardinality(C \cup {r}) \in Nat /\ Cardinality(C \ {r}) \in Nat
           /\ Cardinality(C \cup {r}) <= Cardinality(C) + 1
           /\ Cardinality(C \ {r}) <= Cardinality(C)
  <1>1. Cardinality(C) \in Nat
    BY FS_CardinalityType
  <1>2. /\ IsFiniteSet(C \cup {r})
        /\ Cardinality(C \cup {r}) = IF r \in C THEN Cardinality(C) ELSE Cardinality(C) + 1
    BY FS_AddElement
  <1>3. /\ IsFiniteSet(C \ {r})
        /\ Cardinality(C \ {r}) = IF r \in C THEN Cardinality(C) - 1 ELSE Cardinality(C)
    BY FS_RemoveElement
  <1>4. Cardinality(C \cup {r}) \in Nat /\ Cardinality(C \ {r}) \in Nat
    BY <1>2, <1>3, FS_CardinalityType
  <1>5. QED
    BY <1>1, <1>2, <1>3, <1>4

(* The steps of a request, one disjunct for each action.                   *)
LEMMA StepCases ==
    ASSUME [Next]_vars
    PROVE  \/ \E r \in Requests :
                 \/ Receive(r) \/ Checkout(r) \/ CheckoutTimesOut(r)
                 \/ GetProfile(r) \/ InsertProfile(r) \/ Commit(r) \/ Refresh(r)
                 \/ StatementFails(r) \/ LoseConnection(r) \/ ServerEnds(r)
                 \/ Close(r)
           \/ UNCHANGED vars
  BY DEF Next, Step

(* The pool is never exceeded, and one transaction at most holds the       *)
(* profile's key.                                                          *)
LEMMA NextCounted ==
    ASSUME TypeOK, Counted, [Next]_vars
    PROVE  /\ Counted'
           /\ Cardinality(connected') <= PoolSize /\ Cardinality(inserting') <= 1
           /\ connected' \subseteq Requests /\ inserting' \subseteq Requests
  <1>1. CASE UNCHANGED vars
    BY <1>1 DEF vars, db, TypeOK, Counted
  <1>2. ASSUME NEW r \in Requests,
               \/ Receive(r) \/ Checkout(r) \/ CheckoutTimesOut(r)
               \/ GetProfile(r) \/ InsertProfile(r) \/ Commit(r) \/ Refresh(r)
               \/ StatementFails(r) \/ LoseConnection(r) \/ ServerEnds(r)
               \/ Close(r)
        PROVE  /\ Counted'
               /\ Cardinality(connected') <= PoolSize /\ Cardinality(inserting') <= 1
               /\ connected' \subseteq Requests /\ inserting' \subseteq Requests
    <2>1. /\ \/ connected' \in {connected, connected \ {r}}
             \/ /\ connected' = connected \cup {r}
                /\ Cardinality(connected) < PoolSize
          /\ inserting' \in {inserting, {r}, inserting \ {r}}
      BY <1>2 DEF Receive, Checkout, CheckoutTimesOut, GetProfile, InsertProfile,
         Commit, Committed, Refresh, StatementFails, LoseConnection, ServerEnds,
         Close, db
    <2>2. /\ IsFiniteSet(connected') /\ Cardinality(connected') <= PoolSize
          /\ connected' \subseteq Requests
      <3>1. /\ connected \subseteq Requests /\ IsFiniteSet(connected)
            /\ Cardinality(connected) <= PoolSize
        BY DEF TypeOK, Counted
      <3>2. CASE connected' = connected
        BY <3>1, <3>2
      <3>3. CASE connected' = connected \ {r}
        <4>1. /\ IsFiniteSet(connected \ {r})
              /\ Cardinality(connected) \in Nat /\ Cardinality(connected \ {r}) \in Nat
              /\ Cardinality(connected \ {r}) <= Cardinality(connected)
          BY <3>1, OneMoreOrLess
        <4>2. QED
          BY <3>1, <3>3, <4>1, PoolAssumption
      <3>4. CASE connected' = connected \cup {r} /\ Cardinality(connected) < PoolSize
        <4>1. /\ IsFiniteSet(connected \cup {r})
              /\ Cardinality(connected) \in Nat /\ Cardinality(connected \cup {r}) \in Nat
              /\ Cardinality(connected \cup {r}) <= Cardinality(connected) + 1
          BY <3>1, OneMoreOrLess
        <4>2. QED
          BY <3>1, <3>4, <4>1, PoolAssumption
      <3>5. QED
        BY <2>1, <3>2, <3>3, <3>4
    <2>3. IsFiniteSet({r}) /\ Cardinality({r}) = 1
      BY FS_Singleton
    <2>4. /\ IsFiniteSet(inserting') /\ Cardinality(inserting') <= 1
          /\ inserting' \subseteq Requests
      <3>1. /\ inserting \subseteq Requests /\ IsFiniteSet(inserting)
            /\ Cardinality(inserting) <= 1
        BY DEF TypeOK, Counted
      <3>2. /\ IsFiniteSet(inserting \ {r})
            /\ Cardinality(inserting) \in Nat /\ Cardinality(inserting \ {r}) \in Nat
            /\ Cardinality(inserting \ {r}) <= Cardinality(inserting)
        BY <3>1, OneMoreOrLess
      <3>3. Cardinality(inserting \ {r}) <= 1
        BY <3>1, <3>2
      <3>4. QED
        BY <2>1, <2>3, <3>1, <3>2, <3>3
    <2>5. QED
      BY <2>2, <2>4 DEF Counted
  <1>3. QED
    BY <1>1, <1>2, StepCases

(* Every step keeps the types.                                             *)
LEMMA NextTypeOK ==
    ASSUME TypeOK, Counted, [Next]_vars
    PROVE  TypeOK'
  <1>1. /\ stage' \in [Requests -> Stages] /\ answer' \in [Requests -> Answers]
        /\ profile' \in BOOLEAN /\ evaluations' \subseteq Requests
        /\ in_doubt' \subseteq Requests /\ late' \subseteq Requests
    <2> USE DEF TypeOK, Goes, Answering, Failure, Stages, Statements, Answers, db
    <2>1. CASE UNCHANGED vars
      BY <2>1 DEF vars
    <2>2. ASSUME NEW r \in Requests,
                 Receive(r) \/ Checkout(r) \/ CheckoutTimesOut(r) \/ GetProfile(r)
          PROVE  <1>1
      BY <2>2 DEF Receive, Checkout, CheckoutTimesOut, GetProfile
    <2>3. ASSUME NEW r \in Requests,
                 InsertProfile(r) \/ Commit(r) \/ Refresh(r) \/ StatementFails(r)
          PROVE  <1>1
      BY <2>3 DEF InsertProfile, Commit, Committed, Refresh, StatementFails
    <2>4. ASSUME NEW r \in Requests, LoseConnection(r) \/ ServerEnds(r) \/ Close(r)
          PROVE  <1>1
      BY <2>4 DEF LoseConnection, ServerEnds, Committed, Close
    <2>5. QED
      BY <2>1, <2>2, <2>3, <2>4, StepCases
  <1>2. QED
    BY <1>1, NextCounted DEF TypeOK

(* Every step keeps what requests have stored, and what they are told, true. *)
LEMMA NextFollows ==
    ASSUME CreationInv, [Next]_vars
    PROVE  /\ EvaluationsFollow' /\ ProfilesFollow' /\ LateFindProfile'
           /\ AnswersAreTrue' /\ ConflictsAreEarly'
  <1> USE DEF CreationInv, TypeOK, EvaluationsFollow, ProfilesFollow,
          LateFindProfile, AnswersAreTrue, ConflictsAreEarly, BeforeCommit,
          Goes, Answering, Failure, Statements, db
  <1>1. CASE UNCHANGED vars
    BY <1>1 DEF vars
  <1>2. CASE \E r \in Requests : Receive(r)
    BY <1>2 DEF Receive
  <1>3. CASE \E r \in Requests : Checkout(r)
    BY <1>3 DEF Checkout
  <1>4. CASE \E r \in Requests : CheckoutTimesOut(r)
    BY <1>4 DEF CheckoutTimesOut
  <1>5. CASE \E r \in Requests : GetProfile(r)
    BY <1>5 DEF GetProfile
  <1>6. CASE \E r \in Requests : InsertProfile(r)
    BY <1>6 DEF InsertProfile
  <1>7. CASE \E r \in Requests : Commit(r)
    BY <1>7 DEF Commit, Committed
  <1>8. CASE \E r \in Requests : Refresh(r)
    BY <1>8 DEF Refresh
  <1>9. CASE \E r \in Requests : StatementFails(r)
    BY <1>9 DEF StatementFails
  <1>10. CASE \E r \in Requests : LoseConnection(r)
    BY <1>10 DEF LoseConnection
  <1>11. CASE \E r \in Requests : ServerEnds(r)
    <2>1. PICK r \in Requests : ServerEnds(r)
      BY <1>11
    <2>2. CASE answer[r] = "commit_error" /\ Committed(r)
      BY <2>1, <2>2 DEF ServerEnds, Committed
    <2>3. CASE inserting' = inserting \ {r} /\ UNCHANGED <<profile, evaluations>>
      BY <2>1, <2>3 DEF ServerEnds
    <2>4. QED
      BY <2>1, <2>2, <2>3 DEF ServerEnds
  <1>12. CASE \E r \in Requests : Close(r)
    BY <1>12 DEF Close
  <1>13. QED
    BY <1>1, <1>2, <1>3, <1>4, <1>5, <1>6, <1>7, <1>8, <1>9, <1>10, <1>11,
       <1>12, StepCases

-----------------------------------------------------------------------------
(* The pool, the stored evaluations and the profile stay in step with the  *)
(* requests, for any number of them and any pool.                          *)
THEOREM CreationInvariant == Spec => []CreationInv
  <1>1. CreationInv /\ [Next]_vars => CreationInv'
    BY NextCounted, NextTypeOK, NextFollows DEF CreationInv
  <1>2. QED
    BY <1>1, InitCreationInv, PTL DEF Spec

(* No more connections than the pool has are ever held, and no two         *)
(* transactions hold the key of the profile.                               *)
THEOREM TypeCorrect == Spec => []TypeOK
  <1>1. CreationInv => TypeOK
    BY DEF CreationInv
  <1>2. QED
    BY <1>1, CreationInvariant, PTL

(* 201, and a failed refresh, mean that the evaluation is stored; the      *)
(* other refusals, but the lost COMMIT, that it never will be.             *)
THEOREM AnswersStayTrue == Spec => []AnswersAreTrue
  <1>1. CreationInv => AnswersAreTrue
    BY DEF CreationInv
  <1>2. QED
    BY <1>1, CreationInvariant, PTL

(* A request that came when the profile was stored never meets a conflict. *)
THEOREM LateNeverConflict == Spec => []ConflictsAreEarly
  <1>1. CreationInv => ConflictsAreEarly
    BY DEF CreationInv
  <1>2. QED
    BY <1>1, CreationInvariant, PTL
=============================================================================
