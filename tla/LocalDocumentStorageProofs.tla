--------------------- MODULE LocalDocumentStorageProofs ---------------------
(***************************************************************************)
(* Proofs about LocalDocumentStorage, for any calls, keys and sizes of     *)
(* sources, with or without power losses.                                  *)
(***************************************************************************)
EXTENDS LocalDocumentStorage, TLAPS

\* The steps before the link.
BeforeLink == {"idle", "prepare", "mkstemp", "copy", "fsync", "link"}

\* A call comes to its link with all its data, on disk.
DataFirst ==
    \A c \in Calls :
        /\ pc[c] \in {"fsync", "link"} => written[c] = size[c]
        /\ pc[c] = "link" => synced[c] = size[c]

\* What a name leads to, in the page cache or on disk, is the whole file of a
\* call that was given this name and has linked it.
NamesFollow ==
    \A k \in Keys, c \in Calls :
        names[k] = c \/ diskNames[k] = c
        => /\ key[c] = k
           /\ written[c] = size[c] /\ synced[c] = size[c]
           /\ pc[c] \notin BeforeLink

\* The inductive invariant.
StorageInv == TypeOK /\ DataFirst /\ NamesFollow /\ OwnNameOnly

-----------------------------------------------------------------------------
(* The initial states satisfy the invariant: nothing is published.         *)
LEMMA InitStorageInv == Init => StorageInv
  BY LocalStorageAssumption DEF Init, StorageInv, TypeOK, DataFirst, NamesFollow,
     OwnNameOnly, PCs, BeforeLink

(* The steps of a call, by what they do to the files.                      *)
LEMMA CallSteps ==
    ASSUME NEW c \in Calls, Begin(c) \/ Store(c) \/ CopyFails(c) \/ Delete(c)
    PROVE  \/ Moves(c, "idle", "prepare")
           \/ Moves(c, "prepare", "mkstemp") \/ Moves(c, "prepare", "raised")
           \/ CreateTemporary(c)
           \/ CopyChunk(c) \/ EndOfSource(c) \/ Sync(c)
           \/ \E from \in {"copy", "fsync", "link"} : Moves(c, from, "cleanup")
           \/ Link(c) \/ UnlinkTemporary(c) \/ Withdraw(c) \/ Cleanup(c)
           \/ Delete(c)
  BY DEF Begin, Store, PrepareDestination, LinkRefused, CopyFails

(* Every step of a call keeps the types.                                   *)
LEMMA CallTypes ==
    ASSUME TypeOK, NEW c \in Calls,
           Begin(c) \/ Store(c) \/ CopyFails(c) \/ Delete(c)
    PROVE  TypeOK'
  <1> USE LocalStorageAssumption DEF TypeOK, PCs, Goto, Moves, diskVars
  <1>1. CASE CopyChunk(c)
    BY <1>1 DEF CopyChunk
  <1>2. CASE Sync(c)
    BY <1>2 DEF Sync
  <1>3. CASE Link(c)
    BY <1>3 DEF Link
  <1>4. CASE UnlinkTemporary(c) \/ Withdraw(c) \/ Cleanup(c) \/ Delete(c)
    BY <1>4 DEF UnlinkTemporary, Withdraw, Cleanup, Delete
  <1>5. CASE CreateTemporary(c) \/ EndOfSource(c)
    BY <1>5 DEF CreateTemporary, EndOfSource
  <1>6. CASE \/ Moves(c, "idle", "prepare")
             \/ Moves(c, "prepare", "mkstemp") \/ Moves(c, "prepare", "raised")
             \/ \E from \in {"copy", "fsync", "link"} : Moves(c, from, "cleanup")
    BY <1>6
  <1>7. QED
    BY <1>1, <1>2, <1>3, <1>4, <1>5, <1>6, CallSteps

(* Every step keeps the types.                                             *)
LEMMA NextTypeOK == TypeOK /\ [Next]_vars => TypeOK'
  <1> SUFFICES ASSUME TypeOK, [Next]_vars PROVE TypeOK'
    OBVIOUS
  <1>1. CASE \E c \in Calls : Begin(c) \/ Store(c) \/ CopyFails(c) \/ Delete(c)
    BY <1>1, CallTypes
  <1>2. CASE Crash
    BY <1>2 DEF Crash, TypeOK, PCs, diskVars
  <1>3. CASE WriteBack
    BY <1>3 DEF WriteBack, TypeOK
  <1>4. CASE PowerLoss
    BY <1>4 DEF PowerLoss, TypeOK, PCs, diskVars
  <1>5. CASE UNCHANGED vars
    BY <1>5 DEF vars, diskVars, TypeOK
  <1>6. QED
    BY <1>1, <1>2, <1>3, <1>4, <1>5 DEF Next

(* Every variable keeps its type.                                          *)
THEOREM TypeCorrect == Spec => []TypeOK
  <1>1. Init => TypeOK
    BY InitStorageInv DEF StorageInv
  <1>2. QED
    BY <1>1, NextTypeOK, PTL DEF Spec

-----------------------------------------------------------------------------
(* Every step of a call keeps the invariant.                               *)
LEMMA CallKeepsInv ==
    ASSUME StorageInv, NEW c \in Calls,
           Begin(c) \/ Store(c) \/ CopyFails(c) \/ Delete(c)
    PROVE  DataFirst' /\ NamesFollow' /\ OwnNameOnly'
  <1> USE LocalStorageAssumption DEF StorageInv, TypeOK, DataFirst, NamesFollow,
          OwnNameOnly, BeforeLink, Goto, Moves, diskVars
  <1>1. CASE CopyChunk(c)
    BY <1>1 DEF CopyChunk
  <1>2. CASE Sync(c)
    BY <1>2 DEF Sync
  <1>3. CASE Link(c)
    BY <1>3 DEF Link
  <1>4. CASE UnlinkTemporary(c)
    BY <1>4 DEF UnlinkTemporary
  <1>5. CASE Withdraw(c)
    BY <1>5 DEF Withdraw
  <1>6. CASE Cleanup(c)
    BY <1>6 DEF Cleanup
  <1>7. CASE Delete(c)
    BY <1>7 DEF Delete
  <1>8. CASE CreateTemporary(c)
    BY <1>8 DEF CreateTemporary
  <1>9. CASE EndOfSource(c)
    BY <1>9 DEF EndOfSource
  <1>10. CASE \/ Moves(c, "idle", "prepare")
              \/ Moves(c, "prepare", "mkstemp") \/ Moves(c, "prepare", "raised")
              \/ \E from \in {"copy", "fsync", "link"} : Moves(c, from, "cleanup")
    BY <1>10
  <1>11. QED
    BY <1>1, <1>2, <1>3, <1>4, <1>5, <1>6, <1>7, <1>8, <1>9, <1>10, CallSteps

(* Every step keeps the invariant, power losses included.                  *)
LEMMA NextStorageInv == StorageInv /\ [Next]_vars => StorageInv'
  <1> SUFFICES ASSUME StorageInv, [Next]_vars
               PROVE  DataFirst' /\ NamesFollow' /\ OwnNameOnly'
    BY NextTypeOK DEF StorageInv
  <1> USE DEF StorageInv, TypeOK, DataFirst, NamesFollow, OwnNameOnly, BeforeLink
  <1>1. CASE \E c \in Calls : Begin(c) \/ Store(c) \/ CopyFails(c) \/ Delete(c)
    BY <1>1, CallKeepsInv
  <1>2. CASE Crash
    BY <1>2 DEF Crash, diskVars
  <1>3. CASE WriteBack
    BY <1>3 DEF WriteBack
  <1>4. CASE PowerLoss
    BY <1>4 DEF PowerLoss, diskVars
  <1>5. CASE UNCHANGED vars
    BY <1>5 DEF vars, diskVars
  <1>6. QED
    BY <1>1, <1>2, <1>3, <1>4, <1>5 DEF Next

(* A name leads to the whole file of the call it was given to, and the     *)
(* file is on disk before the name can be.                                 *)
THEOREM StorageInvariant == Spec => []StorageInv
  BY InitStorageInv, NextStorageInv, PTL DEF Spec

(* No name, cached or on disk, ever leads to part of a document, whatever  *)
(* moment the power fails.                                                 *)
THEOREM NamesAreWhole == Spec => []NoPartialDocument
  <1>1. StorageInv => NoPartialDocument
    BY DEF StorageInv, TypeOK, NamesFollow, NoPartialDocument
  <1>2. QED
    BY <1>1, StorageInvariant, PTL

(* From its link to its last use of the key a call finds its own document  *)
(* under the final name.                                                   *)
THEOREM NamesAreOwn == Spec => []OwnNameOnly
  <1>1. StorageInv => OwnNameOnly
    BY DEF StorageInv
  <1>2. QED
    BY <1>1, StorageInvariant, PTL

-----------------------------------------------------------------------------
(* The system calls implement the port. *)

(* The document under a name is never partial, before a step or after.     *)
LEMMA PublishedIsNamed ==
    /\ StorageInv => Published = names
    /\ StorageInv' => Published' = names'
  BY DEF StorageInv, TypeOK, NamesFollow, Published

(* Where a call stands for its caller.                                     *)
LEMMA PortStatuses ==
    ASSUME NEW c \in Calls
    PROVE  /\ pc[c] \in {"prepare", "mkstemp", "copy", "fsync", "link"}
                 => PortStatus(c) = "running"
           /\ pc[c] \in {"unlink_temp", "withdraw"} => PortStatus(c) = "published"
           /\ pc[c] \in {"cleanup", "raised"} => PortStatus(c) = "failed"
           /\ pc[c] \in {"cleanup_leaked", "leaked"} => PortStatus(c) = "leaked"
           /\ pc[c] \in {"idle", "stored", "deleted", "undeleted", "crashed"}
                 => PortStatus(c) = pc[c]
  BY DEF PortStatus

\* The status of every call, as the port sees it.
StatusMap == [c \in Calls |-> PortStatus(c)]

(* A step of one call never changes where another stands for its caller.   *)
LEMMA OthersStand ==
    ASSUME StorageInv, NEW c \in Calls,
           Begin(c) \/ Store(c) \/ CopyFails(c) \/ Delete(c)
    PROVE  /\ UNCHANGED key
           /\ StatusMap' = [StatusMap EXCEPT ![c] = PortStatus(c)']
  <1>1. /\ UNCHANGED key
        /\ \A d \in Calls \ {c} : pc'[d] = pc[d]
    <2> USE CallSteps DEF StorageInv, TypeOK, Goto, Moves
    <2>1. CASE CreateTemporary(c) \/ CopyChunk(c) \/ EndOfSource(c) \/ Sync(c) \/ Link(c)
      BY <2>1 DEF CreateTemporary, CopyChunk, EndOfSource, Sync, Link
    <2>2. CASE UnlinkTemporary(c) \/ Withdraw(c) \/ Cleanup(c) \/ Delete(c)
      BY <2>2 DEF UnlinkTemporary, Withdraw, Cleanup, Delete
    <2>3. QED
      BY <2>1, <2>2
  <1>2. \A d \in Calls \ {c} : PortStatus(d)' = PortStatus(d)
    BY <1>1 DEF PortStatus
  <1>3. QED
    BY <1>1, <1>2 DEF StatusMap

(* What a step of a call is to the port: one of its steps, or none.        *)
LEMMA CallImplements ==
    ASSUME StorageInv, StorageInv', NEW c \in Calls,
           Begin(c) \/ Store(c) \/ CopyFails(c) \/ Delete(c)
    PROVE  [Port!Next]_Port!vars
  <1>1. /\ Published = names /\ Published' = names'
        /\ key \in [Calls -> Keys] /\ names \in [Keys -> Calls \cup {Nobody}]
        /\ pc \in [Calls -> PCs]
    BY PublishedIsNamed DEF StorageInv, TypeOK
  <1>2. /\ UNCHANGED key
        /\ StatusMap' = [StatusMap EXCEPT ![c] = PortStatus(c)']
        /\ StatusMap[c] = PortStatus(c)
    BY OthersStand DEF StatusMap
  <1>3. /\ pc'[c] \in {"prepare", "mkstemp", "copy", "fsync", "link"}
                 => PortStatus(c)' = "running"
        /\ pc'[c] \in {"unlink_temp", "withdraw"} => PortStatus(c)' = "published"
        /\ pc'[c] \in {"cleanup", "raised"} => PortStatus(c)' = "failed"
        /\ pc'[c] \in {"cleanup_leaked", "leaked"} => PortStatus(c)' = "leaked"
        /\ pc'[c] \in {"idle", "stored", "deleted", "undeleted", "crashed"}
              => PortStatus(c)' = pc'[c]
    BY <1>2 DEF PortStatus
  <1>4. /\ pc[c] \in BeforeLink => names[key[c]] # c
        /\ pc[c] \in {"unlink_temp", "withdraw", "stored"} => names[key[c]] = c
    BY <1>1 DEF StorageInv, NamesFollow, OwnNameOnly
  <1>5. ASSUME UNCHANGED names, PortStatus(c)' = PortStatus(c)
        PROVE  UNCHANGED Port!vars
    <2>1. StatusMap' = StatusMap
      BY <1>2, <1>5 DEF StatusMap
    <2>2. QED
      BY <1>1, <1>2, <1>5, <2>1 DEF Port!vars, StatusMap
  <1>6. ASSUME NEW from, NEW to, PortStatus(c) = from, PortStatus(c)' = to
        PROVE  Port!Advance(c, from, to)
    BY <1>2, <1>6 DEF Port!Advance, StatusMap
  <1> USE PortStatuses DEF Goto, Moves, diskVars, PCs, BeforeLink
  <1>7. CASE Moves(c, "idle", "prepare")
    <2>1. Port!Advance(c, "idle", "running")
      BY <1>1, <1>3, <1>6, <1>7
    <2>2. Port!Begin(c, key[c], c)
      BY <1>1, <1>2, <1>7, <2>1 DEF Port!Begin
    <2>3. QED
      BY <1>1, <2>2 DEF Port!Next
  <1>8. CASE \/ Moves(c, "prepare", "mkstemp")
             \/ CreateTemporary(c) /\ pc'[c] = "copy"
             \/ CopyChunk(c) \/ EndOfSource(c) \/ Sync(c) \/ Cleanup(c)
    BY <1>1, <1>2, <1>3, <1>5, <1>8
       DEF CreateTemporary, CopyChunk, EndOfSource, Sync, Cleanup
  <1>9. CASE \/ Moves(c, "prepare", "raised") \/ Moves(c, "mkstemp", "raised")
             \/ \E from \in {"copy", "fsync", "link"} : Moves(c, from, "cleanup")
    <2>1. Port!Advance(c, "running", "failed")
      BY <1>1, <1>3, <1>4, <1>6, <1>9
    <2>2. Port!Fail(c)
      BY <1>1, <1>2, <1>9, <2>1 DEF Port!Fail
    <2>3. QED
      BY <2>2 DEF Port!Next
  <1>10. CASE Link(c)
    <2>1. Port!Advance(c, "running", "published")
      BY <1>1, <1>3, <1>6, <1>10 DEF Link
    <2>2. Port!Publish(c)
      BY <1>1, <1>2, <1>10, <2>1 DEF Port!Publish, Link
    <2>3. QED
      BY <2>2 DEF Port!Next
  <1>11. CASE UnlinkTemporary(c)
    <2>1. CASE pc'[c] = "withdraw"
      BY <1>1, <1>3, <1>5, <1>11, <2>1 DEF UnlinkTemporary
    <2>2. CASE pc'[c] = "stored"
      <3>1. Port!Advance(c, "published", "stored")
        BY <1>1, <1>3, <1>6, <1>11, <2>2 DEF UnlinkTemporary
      <3>2. Port!Return(c)
        BY <1>1, <1>2, <1>11, <3>1 DEF Port!Return, UnlinkTemporary
      <3>3. QED
        BY <3>2 DEF Port!Next
    <2>3. QED
      BY <1>1, <1>11, <2>1, <2>2 DEF UnlinkTemporary
  <1>12. CASE Withdraw(c)
    <2>1. CASE Moves(c, "withdraw", "cleanup_leaked")
      <3>1. Port!Advance(c, "published", "leaked")
        BY <1>1, <1>3, <1>6, <2>1
      <3>2. Port!Leak(c)
        BY <1>1, <1>2, <2>1, <3>1 DEF Port!Leak
      <3>3. QED
        BY <3>2 DEF Port!Next
    <2>2. CASE /\ Goto(c, "withdraw", "cleanup")
               /\ names' = [names EXCEPT ![key[c]] = Nobody]
      <3>1. Port!Advance(c, "published", "failed")
        BY <1>1, <1>3, <1>6, <2>2
      <3>2. Port!Withdraw(c)
        BY <1>1, <1>2, <2>2, <3>1 DEF Port!Withdraw
      <3>3. QED
        BY <3>2 DEF Port!Next
    <2>3. QED
      BY <1>12, <2>1, <2>2 DEF Withdraw
  <1>13. CASE Delete(c)
    <2>1. CASE UNCHANGED names /\ pc'[c] = "undeleted"
      <3>1. Port!Advance(c, "stored", "undeleted")
        BY <1>1, <1>3, <1>6, <1>13, <2>1 DEF Delete
      <3>2. Port!DeleteFails(c)
        BY <1>1, <1>2, <2>1, <3>1 DEF Port!DeleteFails
      <3>3. QED
        BY <3>2 DEF Port!Next
    <2>2. CASE names' = [names EXCEPT ![key[c]] = Nobody] /\ pc'[c] = "deleted"
      <3>1. Port!Advance(c, "stored", "deleted")
        BY <1>1, <1>3, <1>6, <1>13, <2>2 DEF Delete
      <3>2. Port!Delete(c)
        BY <1>1, <1>2, <2>2, <3>1 DEF Port!Delete
      <3>3. QED
        BY <3>2 DEF Port!Next
    <2>3. QED
      BY <1>1, <1>13, <2>1, <2>2 DEF Delete
  <1>14. QED
    BY <1>1, <1>7, <1>8, <1>9, <1>10, <1>11, <1>12, <1>13, CallSteps
       DEF CreateTemporary

(* Every step is a step of the port, or none.                              *)
LEMMA StepImplements ==
    StorageInv /\ StorageInv' /\ [Next]_vars => [Port!Next]_Port!vars
  <1> SUFFICES ASSUME StorageInv, StorageInv', [Next]_vars
               PROVE  [Port!Next]_Port!vars
    OBVIOUS
  <1>1. /\ Published = names /\ Published' = names'
        /\ key \in [Calls -> Keys] /\ names \in [Keys -> Calls \cup {Nobody}]
        /\ pc \in [Calls -> PCs]
    BY PublishedIsNamed DEF StorageInv, TypeOK
  <1>2. CASE \E c \in Calls : Begin(c) \/ Store(c) \/ CopyFails(c) \/ Delete(c)
    BY <1>2, CallImplements
  <1>3. CASE Crash
    <2> DEFINE S == {c \in Calls : pc[c] \in InStore}
    <2>1. /\ \A c \in S : PortStatus(c) \in {"running", "published", "failed", "leaked"}
          /\ \A c \in Calls \ S : PortStatus(c) \notin {"running", "published"}
      BY <1>1, PortStatuses DEF InStore, PCs
    <2>2. \A c \in Calls :
             PortStatus(c)' = IF c \in S THEN "crashed" ELSE PortStatus(c)
      BY <1>1, <1>3 DEF Crash, PortStatus, InStore
    <2>3. Port!Crash(S)
      BY <1>1, <1>3, <2>1, <2>2 DEF Port!Crash, Crash
    <2>4. QED
      BY <2>3 DEF Port!Next
  <1>4. CASE WriteBack \/ UNCHANGED vars
    <2>1. \A c \in Calls : PortStatus(c)' = PortStatus(c)
      BY <1>4 DEF WriteBack, vars, PortStatus
    <2>2. QED
      BY <1>1, <1>4, <2>1 DEF WriteBack, vars, Port!vars
  <1>5. CASE PowerLoss
    <2>1. \A c \in Calls : PortStatus(c) = "idle" <=> pc[c] = "idle"
      BY <1>1, PortStatuses DEF PCs
    <2>2. \A c \in Calls :
             PortStatus(c)' = IF PortStatus(c) = "idle" THEN "idle" ELSE "crashed"
      BY <1>5, <2>1 DEF PowerLoss, PortStatus
    <2>3. /\ names' \in [Keys -> Calls \cup {Nobody}]
          /\ \A k \in Keys :
                \/ names'[k] = Nobody
                \/ \E c \in Calls : /\ pc[c] # "idle" /\ key[c] = k
                                    /\ names'[k] = c
      BY <1>5 DEF PowerLoss, StorageInv, TypeOK, NamesFollow, BeforeLink
    <2>4. Port!PowerLoss
      BY <1>1, <1>5, <2>1, <2>2, <2>3 DEF Port!PowerLoss, PowerLoss
    <2>5. QED
      BY <2>4 DEF Port!Next
  <1>6. QED
    BY <1>2, <1>3, <1>4, <1>5 DEF Next

(* The system calls of store() and delete() keep every promise of the      *)
(* port, for any calls, keys and sources, with crashes and power losses.   *)
THEOREM StorageImplementsPort == Spec => ImplementsPort
  <1>1. Init => Port!Init
    BY LocalStorageAssumption DEF Init, Port!Init, Published, PortStatus
  <1>2. QED
    BY <1>1, StepImplements, StorageInvariant, PTL DEF Spec, ImplementsPort, Port!Spec

=============================================================================
