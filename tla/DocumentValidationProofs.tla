---------------------- MODULE DocumentValidationProofs ----------------------
(***************************************************************************)
(* Proofs about DocumentValidation, for any size limit, chunk size and     *)
(* length of the source.                                                   *)
(***************************************************************************)
EXTENDS DocumentValidation, TLAPS

ArgumentsOK == source.filename_ok /\ source.content_type_ok

\* The bytes that were counted are the ones in front of the position, and
\* within the limit until the verdict.
ReadingFollows ==
    /\ position <= source.length /\ size_bytes <= source.length
    /\ pc \in {"arguments", "rewind"} => size_bytes = 0
    /\ pc \in {"rewind", "read", "judge", "restore"} => ArgumentsOK
    /\ pc \in {"read", "judge"} => position = size_bytes /\ size_bytes <= MaxSize
    /\ pc = "judge" => size_bytes = source.length /\ 0 < source.length

\* There is a verdict from the moment it is due, and each says what was read.
VerdictsFollow ==
    /\ pc \in {"arguments", "rewind", "read", "judge"} => result = "none"
    /\ pc \in {"restore", "done"} => result # "none"
    /\ result = "accepted"
          => /\ ArgumentsOK /\ source.signature_ok /\ source.structure_ok
             /\ size_bytes = source.length
             /\ source.length \in 1..MaxSize
             /\ pc = "done" => position = 0

\* The inductive invariant.
ValidationInv ==
    /\ TypeOK
    /\ ReadingFollows
    /\ VerdictsFollow
    /\ LimitIsExact
    /\ ReadIsBounded
    /\ SourceIsRestored

-----------------------------------------------------------------------------
(* Nothing was read and nothing said.                                      *)
LEMMA InitValidationInv == Init => ValidationInv
  BY ValidationAssumption DEF Init, ValidationInv, TypeOK, ReadingFollows,
     VerdictsFollow, LimitIsExact, ReadIsBounded, SourceIsRestored, ArgumentsOK,
     PCs, Source, Lengths, Exceptions

(* A read asks for at least one byte, and for one beyond the limit at most. *)
LEMMA RequestedIsBounded ==
    ASSUME size_bytes \in Nat, size_bytes <= MaxSize
    PROVE  Requested \in 1 .. MaxSize - size_bytes + 1
  BY ValidationAssumption DEF Requested

(* One read keeps the count exact and the limit in sight.                  *)
LEMMA ReadKeepsInv ==
    ASSUME ValidationInv, ReadChunk
    PROVE  ValidationInv'
  <1> USE ValidationAssumption DEF ValidationInv, TypeOK, Source, Lengths
  <1>1. PICK n \in 1..Requested :
           /\ position + n <= source.length
           /\ position' = position + n
           /\ size_bytes' = size_bytes + n
    BY DEF ReadChunk
  <1>2. /\ position = size_bytes /\ size_bytes <= MaxSize
        /\ ArgumentsOK /\ result = "none" /\ pc = "read"
    BY DEF ReadChunk, ReadingFollows, VerdictsFollow
  <1>3. n \in Nat /\ size_bytes + n <= MaxSize + 1
    BY <1>1, <1>2, RequestedIsBounded
  <1>4. /\ position' = size_bytes' /\ size_bytes' <= MaxSize + 1
        /\ position' \in Lengths /\ position' <= source.length
        /\ source' = source
    BY <1>1, <1>2, <1>3 DEF ReadChunk
  <1>5. CASE size_bytes' > MaxSize
    <2>1. pc' = "restore" /\ result' = "too_large"
      BY <1>5 DEF ReadChunk, RaiseInside, Goto
    <2>2. QED
      BY <1>2, <1>4, <1>5, <2>1 DEF PCs, Exceptions, ReadingFollows,
         VerdictsFollow, LimitIsExact, ReadIsBounded, SourceIsRestored, ArgumentsOK
  <1>6. CASE ~(size_bytes' > MaxSize)
    <2>1. UNCHANGED <<pc, result>>
      BY <1>6 DEF ReadChunk
    <2>2. QED
      BY <1>2, <1>4, <1>6, <2>1 DEF PCs, Exceptions, ReadingFollows,
         VerdictsFollow, LimitIsExact, ReadIsBounded, SourceIsRestored, ArgumentsOK
  <1>7. QED
    BY <1>5, <1>6

(* Every step keeps the count exact and each verdict true.                 *)
LEMMA NextValidationInv == ValidationInv /\ [Next]_vars => ValidationInv'
  <1> SUFFICES ASSUME ValidationInv, [Next]_vars PROVE ValidationInv'
    OBVIOUS
  <1> USE ValidationAssumption DEF ValidationInv, TypeOK, ReadingFollows,
          VerdictsFollow, LimitIsExact, ReadIsBounded, SourceIsRestored,
          ArgumentsOK, PCs, Source, Lengths, Exceptions, Goto, RaiseInside
  <1>1. CASE CheckArguments
    BY <1>1 DEF CheckArguments
  <1>2. CASE Rewind
    BY <1>2 DEF Rewind
  <1>3. CASE ReadChunk
    BY <1>3, ReadKeepsInv
  <1>4. CASE EndOfSource
    BY <1>4 DEF EndOfSource
  <1>5. CASE ReadFails
    BY <1>5 DEF ReadFails
  <1>6. CASE Judge
    BY <1>6 DEF Judge
  <1>7. CASE Restore
    <2>1. CASE position' = 0 /\ UNCHANGED result
      BY <1>7, <2>1 DEF Restore
    <2>2. CASE /\ ~source.reliable
               /\ result' = IF result = "accepted" THEN "non_seekable" ELSE result
               /\ position' \in {0, position}
      BY <1>7, <2>2 DEF Restore
    <2>3. QED
      BY <1>7, <2>1, <2>2 DEF Restore
  <1>8. CASE UNCHANGED vars
    BY <1>8 DEF vars
  <1>9. QED
    BY <1>1, <1>2, <1>3, <1>4, <1>5, <1>6, <1>7, <1>8 DEF Next, Validate

-----------------------------------------------------------------------------
(* What was read, what was said of it and where the source is agree at     *)
(* every moment.                                                           *)
THEOREM ValidationInvariant == Spec => []ValidationInv
  BY InitValidationInv, NextValidationInv, PTL DEF Spec

(* Every variable keeps its type.                                          *)
THEOREM TypeCorrect == Spec => []TypeOK
  <1>1. ValidationInv => TypeOK
    BY DEF ValidationInv
  <1>2. QED
    BY <1>1, ValidationInvariant, PTL

(* Only a document that was read whole, within the limit, and passed every *)
(* check is accepted, and its source is back at the start.                 *)
THEOREM OnlyWholeIsAccepted == Spec => []AcceptedIsWhole
  <1>1. ValidationInv => AcceptedIsWhole
    BY DEF ValidationInv, TypeOK, Source, Lengths, VerdictsFollow, ArgumentsOK,
       AcceptedIsWhole
  <1>2. QED
    BY <1>1, ValidationInvariant, PTL

(* For any limit and any cut of the reads, the verdicts on the size are    *)
(* true on both sides of the boundary.                                     *)
THEOREM LimitsAreExact == Spec => []LimitIsExact
  <1>1. ValidationInv => LimitIsExact
    BY DEF ValidationInv
  <1>2. QED
    BY <1>1, ValidationInvariant, PTL

(* Never more than one byte beyond the limit is read.                      *)
THEOREM ReadsAreBounded == Spec => []ReadIsBounded
  <1>1. ValidationInv => ReadIsBounded
    BY DEF ValidationInv
  <1>2. QED
    BY <1>1, ValidationInvariant, PTL

(* A source that can seek is left at its start, whatever the verdict.      *)
THEOREM SourcesAreRestored == Spec => []SourceIsRestored
  <1>1. ValidationInv => SourceIsRestored
    BY DEF ValidationInv
  <1>2. QED
    BY <1>1, ValidationInvariant, PTL
=============================================================================
