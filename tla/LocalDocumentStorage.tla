------------------------ MODULE LocalDocumentStorage ------------------------
(***************************************************************************)
(* LocalDocumentStorage.store() and delete(), one action per system call.  *)
(* A call copies its source into a temporary file, syncs it, hard-links it *)
(* under the final name, which fails when that name exists, and removes    *)
(* the temporary name.                                                     *)
(*                                                                         *)
(* The file of a call is named by the call.  Directory entries and data    *)
(* live in the page cache; diskNames and synced are what a power loss      *)
(* leaves of names and written.  Only data is ever synced by the code,     *)
(* names reach the disk when the kernel likes.                             *)
(***************************************************************************)
EXTENDS Naturals

CONSTANTS
    Calls,      \* calls of store()
    Keys,       \* storage keys (canonical paths below the private root)
    Nobody,     \* the file of a name that does not exist
    MaxChunks,  \* bound: the longest source, in chunks of CHUNK_SIZE
    PowerMayFail

ASSUME LocalStorageAssumption ==
    /\ Nobody \notin Calls
    /\ MaxChunks \in Nat
    /\ PowerMayFail \in BOOLEAN

VARIABLES
    pc,         \* the next system call of each call of store()
    key,        \* its storage key
    size,       \* the chunks of its source
    written,    \* the chunks in its file
    temp,       \* whether the temporary name of its file exists
    names,      \* final names: key -> the call whose file it is, or Nobody
    synced,     \* the chunks of its file that are on disk
    diskNames   \* the final names that are on disk

diskVars == <<synced, diskNames>>
vars == <<pc, key, size, written, temp, names, diskVars>>

PCs == {"idle", "prepare", "mkstemp", "copy", "fsync", "link", "unlink_temp", "withdraw",
        "cleanup", "cleanup_leaked", "stored", "raised", "leaked", "deleted", "undeleted",
        "crashed"}

TypeOK ==
    /\ pc \in [Calls -> PCs]
    /\ key \in [Calls -> Keys]
    /\ size \in [Calls -> 0..MaxChunks]
    /\ written \in [Calls -> 0..MaxChunks]
    /\ temp \in [Calls -> BOOLEAN]
    /\ names \in [Keys -> Calls \cup {Nobody}]
    /\ synced \in [Calls -> 0..MaxChunks]
    /\ diskNames \in [Keys -> Calls \cup {Nobody}]

Init ==
    /\ pc = [c \in Calls |-> "idle"]
    /\ key \in [Calls -> Keys]
    /\ size \in [Calls -> 0..MaxChunks]
    /\ written = [c \in Calls |-> 0]
    /\ temp = [c \in Calls |-> FALSE]
    /\ names = [k \in Keys |-> Nobody]
    /\ synced = [c \in Calls |-> 0]
    /\ diskNames = [k \in Keys |-> Nobody]

-----------------------------------------------------------------------------
Goto(c, from, to) ==
    /\ pc[c] = from
    /\ pc' = [pc EXCEPT ![c] = to]

\* A step of c that changes nothing but where c stands.
Moves(c, from, to) ==
    /\ Goto(c, from, to)
    /\ UNCHANGED <<key, size, written, temp, names, diskVars>>

\* store() is called.
Begin(c) == Moves(c, "idle", "prepare")

\* The destination directory is made and checked, or refused.
PrepareDestination(c) ==
    \/ Moves(c, "prepare", "mkstemp")
    \/ Moves(c, "prepare", "raised")

CreateTemporary(c) ==
    \/ /\ Goto(c, "mkstemp", "copy")
       /\ temp' = [temp EXCEPT ![c] = TRUE]
       /\ UNCHANGED <<key, size, written, names, diskVars>>
    \/ Moves(c, "mkstemp", "raised")

\* Mutation: the copy does not stop at the end of its source.
CopyBeyond(c) ==
    /\ Goto(c, "copy", "copy")
    /\ written' = [written EXCEPT ![c] = @ + 1]
    /\ UNCHANGED <<key, size, temp, names, diskVars>>

CopyChunk(c) ==
    /\ Goto(c, "copy", "copy")
    /\ written[c] < size[c]
    /\ written' = [written EXCEPT ![c] = @ + 1]
    /\ UNCHANGED <<key, size, temp, names, diskVars>>

EndOfSource(c) ==
    /\ written[c] = size[c]
    /\ Moves(c, "copy", "fsync")

\* Mutation: the data is flushed to the kernel, not to the disk.
FlushOnly(c) == Moves(c, "fsync", "link")

Sync(c) ==
    /\ Goto(c, "fsync", "link")
    /\ synced' = [synced EXCEPT ![c] = written[c]]
    /\ UNCHANGED <<key, size, written, temp, names, diskNames>>

\* Mutation: a rename replaces whatever has the final name.
LinkReplacing(c) ==
    /\ Goto(c, "link", "unlink_temp")
    /\ names' = [names EXCEPT ![key[c]] = c]
    /\ UNCHANGED <<key, size, written, temp, diskVars>>

\* The exclusive publication.
Link(c) ==
    /\ Goto(c, "link", "unlink_temp")
    /\ names[key[c]] = Nobody
    /\ names' = [names EXCEPT ![key[c]] = c]
    /\ UNCHANGED <<key, size, written, temp, diskVars>>

\* Mutation: a taken name is waited for.
LinkAwaits(c) ==
    /\ names[key[c]] # Nobody
    /\ Moves(c, "link", "link")

\* FileExistsError.
LinkRefused(c) ==
    /\ names[key[c]] # Nobody
    /\ Moves(c, "link", "cleanup")

\* The source or a system call raises before the document is published.
CopyFails(c) ==
    \E from \in {"copy", "fsync", "link"} : Moves(c, from, "cleanup")

\* Mutation: a temporary name that stays is left to the finally block alone.
UnlinkTemporaryOnly(c) ==
    \/ /\ Goto(c, "unlink_temp", "stored")
       /\ temp' = [temp EXCEPT ![c] = FALSE]
       /\ UNCHANGED <<key, size, written, names, diskVars>>
    \/ Moves(c, "unlink_temp", "cleanup")

UnlinkTemporary(c) ==
    \/ /\ Goto(c, "unlink_temp", "stored")
       /\ temp' = [temp EXCEPT ![c] = FALSE]
       /\ UNCHANGED <<key, size, written, names, diskVars>>
    \/ Moves(c, "unlink_temp", "withdraw")

\* The temporary name stayed: the published name is taken back.  A missing
\* name is ignored, another error leaves it published.
Withdraw(c) ==
    \/ /\ Goto(c, "withdraw", "cleanup")
       /\ names' = [names EXCEPT ![key[c]] = Nobody]
       /\ UNCHANGED <<key, size, written, temp, diskVars>>
    \/ Moves(c, "withdraw", "cleanup_leaked")

\* The finally block tries the temporary name again, and store() raises.
Cleanup(c) ==
    /\ Goto(c, "cleanup", "raised") \/ Goto(c, "cleanup_leaked", "leaked")
    /\ temp' \in {temp, [temp EXCEPT ![c] = FALSE]}
    /\ UNCHANGED <<key, size, written, names, diskVars>>

\* delete() of the key that a finished store() returned, by its caller.
Delete(c) ==
    \/ /\ Goto(c, "stored", "deleted")
       /\ names' = [names EXCEPT ![key[c]] = Nobody]
       /\ UNCHANGED <<key, size, written, temp, diskVars>>
    \/ Moves(c, "stored", "undeleted")

-----------------------------------------------------------------------------
InStore == {"prepare", "mkstemp", "copy", "fsync", "link", "unlink_temp", "withdraw", "cleanup",
            "cleanup_leaked"}

\* The process dies; the kernel keeps its files.
Crash ==
    /\ \E c \in Calls : pc[c] \in InStore
    /\ pc' = [c \in Calls |-> IF pc[c] \in InStore THEN "crashed" ELSE pc[c]]
    /\ UNCHANGED <<key, size, written, temp, names, diskVars>>

\* The kernel writes one thing back.
WriteBack ==
    /\ PowerMayFail
    /\ \/ \E c \in Calls : synced' = [synced EXCEPT ![c] = written[c]]
                           /\ UNCHANGED diskNames
       \/ \E k \in Keys : diskNames' = [diskNames EXCEPT ![k] = names[k]]
                          /\ UNCHANGED synced
    /\ UNCHANGED <<pc, key, size, written, temp, names>>

\* Everything comes back as the disk has it; any temporary name may.
PowerLoss ==
    /\ PowerMayFail
    /\ \E c \in Calls : pc[c] \notin {"idle", "crashed"}
    /\ pc' = [c \in Calls |-> IF pc[c] = "idle" THEN "idle" ELSE "crashed"]
    /\ written' = synced
    /\ \E T \in SUBSET {c \in Calls : pc[c] # "idle"} :
          temp' = [c \in Calls |-> c \in T]
    /\ names' = diskNames
    /\ UNCHANGED <<key, size, diskVars>>

Store(c) ==
    \/ PrepareDestination(c) \/ CreateTemporary(c)
    \/ CopyChunk(c) \/ EndOfSource(c) \/ Sync(c)
    \/ Link(c) \/ LinkRefused(c)
    \/ UnlinkTemporary(c) \/ Withdraw(c) \/ Cleanup(c)

Next ==
    \/ \E c \in Calls : Begin(c) \/ Store(c) \/ CopyFails(c) \/ Delete(c)
    \/ Crash \/ WriteBack \/ PowerLoss

Spec == Init /\ [][Next]_vars

\* A thread in store() runs until it returns, and no failure of the copy is
\* counted on for that.
FairSpec == Spec /\ \A c \in Calls : WF_vars(Store(c))

-----------------------------------------------------------------------------
(* A name, on disk or not, is never the name of a partial document: the    *)
(* data is synced before the link, so not even a power loss at the worst   *)
(* moment leaves a truncated document behind a final name.                 *)
NoPartialDocument ==
    \A k \in Keys :
        /\ names[k] # Nobody => written[names[k]] = size[names[k]]
        /\ diskNames[k] # Nobody => synced[diskNames[k]] = size[diskNames[k]]

(* While a call is between its link and its last use of the key, the final *)
(* name is its own: the roll back of a publication and the delete of a     *)
(* compensation remove by name, and never remove another call's document.  *)
OwnNameOnly ==
    \A c \in Calls :
        pc[c] \in {"unlink_temp", "withdraw", "stored"} => names[key[c]] = c

(* store() ends, and a call that finds its key taken does not wait for it. *)
StoreEnds == \A c \in Calls : (pc[c] \in InStore) ~> (pc[c] \notin InStore)

-----------------------------------------------------------------------------
(* The port that the file system implements. *)

Partial == <<Nobody, "partial">>

Published == [k \in Keys |->
    IF names[k] # Nobody /\ written[names[k]] # size[names[k]]
    THEN Partial ELSE names[k]]

PortStatus(c) ==
    CASE pc[c] \in {"prepare", "mkstemp", "copy", "fsync", "link"} -> "running"
      [] pc[c] \in {"unlink_temp", "withdraw"} -> "published"
      [] pc[c] \in {"cleanup", "raised"} -> "failed"
      [] pc[c] \in {"cleanup_leaked", "leaked"} -> "leaked"
      [] OTHER -> pc[c]

Port == INSTANCE DocumentStorage
    WITH Contents <- Calls, NoFile <- Nobody, files <- Published,
         status <- [c \in Calls |-> PortStatus(c)],
         content <- [c \in Calls |-> c]

(* The system calls of store() and delete() keep the promise of the port:  *)
(* the link is the one step at which a whole document appears under a free *)
(* key, and an error before or after it leaves nothing, unless the attempt *)
(* to take the name back has failed itself.                                *)
ImplementsPort == Port!Spec
=============================================================================
