-------------------------- MODULE DocumentStorage --------------------------
(***************************************************************************)
(* What the storage port promises its caller.  A call of store() is given  *)
(* a key (the canonical path built from the evaluation and document        *)
(* identifiers) and a source to copy.  The document becomes visible under  *)
(* its key in one step, whole, and only if nothing was there; a call that  *)
(* raises leaves nothing behind, unless even its own clean-up failed.      *)
(*                                                                         *)
(* LocalDocumentStorage implements this module with the steps the file     *)
(* system really takes; DocumentUpload uses it as its storage.             *)
(***************************************************************************)
CONSTANTS
    Calls,     \* the calls of store(), each with its own temporary name
    Keys,      \* storage keys
    Contents,  \* what a source may hold (its bytes, seen as one value)
    NoFile     \* what a key without a file maps to

VARIABLES
    files,     \* the published documents: key -> content or NoFile
    status,    \* where each call stands
    key,       \* the key a call was given
    content    \* what the source of a call yields when it is read

vars == <<files, status, key, content>>

Statuses == {"idle", "running", "published", "stored", "failed", "leaked",
             "deleted", "undeleted", "crashed"}

TypeOK ==
    /\ files \in [Keys -> Contents \cup {NoFile}]
    /\ status \in [Calls -> Statuses]
    /\ key \in [Calls -> Keys]
    /\ content \in [Calls -> Contents]

Init ==
    /\ files = [k \in Keys |-> NoFile]
    /\ status = [c \in Calls |-> "idle"]
    /\ key \in [Calls -> Keys]
    /\ content \in [Calls -> Contents]

Advance(c, from, to) ==
    /\ status[c] = from
    /\ status' = [status EXCEPT ![c] = to]

-----------------------------------------------------------------------------
(* store() *)

\* The call starts copying its source into a name nobody else uses.
Begin(c, k, x) ==
    /\ Advance(c, "idle", "running")
    /\ key' = [key EXCEPT ![c] = k]
    /\ content' = [content EXCEPT ![c] = x]
    /\ UNCHANGED files

\* The whole document appears under its key, which was free.
Publish(c) ==
    /\ Advance(c, "running", "published")
    /\ files[key[c]] = NoFile
    /\ files' = [files EXCEPT ![key[c]] = content[c]]
    /\ UNCHANGED <<key, content>>

\* store() returns the key to its caller.
Return(c) ==
    /\ Advance(c, "published", "stored")
    /\ UNCHANGED <<files, key, content>>

\* store() raises before publishing: the key is taken, or an I/O error.
Fail(c) ==
    /\ Advance(c, "running", "failed")
    /\ UNCHANGED <<files, key, content>>

\* store() raises after publishing, having taken the document back.
Withdraw(c) ==
    /\ Advance(c, "published", "failed")
    /\ files' = [files EXCEPT ![key[c]] = NoFile]
    /\ UNCHANGED <<key, content>>

\* store() raises after publishing and could not take the document back.
Leak(c) ==
    /\ Advance(c, "published", "leaked")
    /\ UNCHANGED <<files, key, content>>

-----------------------------------------------------------------------------
(* delete(), called with the key that a finished store() returned. *)

\* The result of delete(): whether there was a file to remove.
Deletes(c) == files[key[c]] # NoFile

Delete(c) ==
    /\ Advance(c, "stored", "deleted")
    /\ files' = [files EXCEPT ![key[c]] = NoFile]
    /\ UNCHANGED <<key, content>>

DeleteFails(c) ==
    /\ Advance(c, "stored", "undeleted")
    /\ UNCHANGED <<files, key, content>>

-----------------------------------------------------------------------------
\* The process dies: the calls that run end where they are, and so may the
\* error that a call was about to raise.
Crash(S) ==
    /\ {c \in Calls : status[c] \in {"running", "published"}} \subseteq S
    /\ \A c \in S : status[c] \in {"running", "published", "failed", "leaked"}
    /\ status' = [c \in Calls |-> IF c \in S THEN "crashed" ELSE status[c]]
    /\ UNCHANGED <<files, key, content>>

\* The machine loses power: every caller is gone, and each key holds nothing
\* or a whole document that some call was given to store there.
PowerLoss ==
    /\ status' = [c \in Calls |-> IF status[c] = "idle" THEN "idle" ELSE "crashed"]
    /\ files' \in [Keys -> Contents \cup {NoFile}]
    /\ \A k \in Keys :
          \/ files'[k] = NoFile
          \/ \E c \in Calls : /\ status[c] # "idle" /\ key[c] = k
                              /\ files'[k] = content[c]
    /\ UNCHANGED <<key, content>>

Next ==
    \/ \E c \in Calls :
          \/ \E k \in Keys, x \in Contents : Begin(c, k, x)
          \/ Publish(c) \/ Return(c)
          \/ Fail(c) \/ Withdraw(c) \/ Leak(c)
          \/ Delete(c) \/ DeleteFails(c)
    \/ \E S \in SUBSET Calls : Crash(S)
    \/ PowerLoss

Spec == Init /\ [][Next]_vars
=============================================================================
