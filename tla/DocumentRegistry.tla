-------------------------- MODULE DocumentRegistry --------------------------
(***************************************************************************)
(* What the upload promises, seen from outside: the documents of the       *)
(* evaluations, each with its content, and where each request stands.  One *)
(* step of a request adds its whole document, or none ever does.           *)
(*                                                                         *)
(* DocumentUpload implements this module with a file store, a database and *)
(* a compensation that run beside each other.                              *)
(***************************************************************************)
CONSTANTS Requests, Evaluations, Contents

VARIABLES
    evaluations,  \* the evaluations that exist
    documents,    \* the documents that can be listed and read
    standing      \* of each request: open, created, abandoned or an error

vars == <<evaluations, documents, standing>>

Document == [id : Requests, evaluation_id : Evaluations,
             sha256 : Contents, content : Contents]

\* Errors that depend on what the registry holds, and the others.
StateErrors == {"duplicate", "evaluation_not_found"}
OtherErrors == {"validation_error", "non_seekable", "content_mismatch",
                "storage_error", "persistence_error"}
Errors == StateErrors \cup OtherErrors \cup {"compensation_error"}

Init ==
    /\ evaluations \in SUBSET Evaluations
    /\ documents = {}
    /\ standing = [r \in Requests |-> "open"]

Holds(e, c) == \E d \in documents : d.evaluation_id = e /\ d.sha256 = c

\* The document of r appears, with the content its hash announces.
Register(r, e, c) ==
    /\ standing[r] \in {"open", "abandoned"}
    /\ e \in evaluations
    /\ ~Holds(e, c)
    /\ documents' = documents \cup
          {[id |-> r, evaluation_id |-> e, sha256 |-> c, content |-> c]}
    /\ standing' = IF standing[r] = "open"
                   THEN [standing EXCEPT ![r] = "created"] ELSE standing
    /\ UNCHANGED evaluations

\* A request is refused for good, and only with the truth.
Refuse(r, e, c, why) ==
    /\ standing[r] = "open"
    /\ why = "duplicate" => Holds(e, c)
    /\ why = "evaluation_not_found" => e \notin evaluations
    /\ standing' = [standing EXCEPT ![r] = why]
    /\ UNCHANGED <<evaluations, documents>>

\* The refusal could not be cleaned up.
Spoil(r) ==
    /\ standing[r] \in StateErrors \cup OtherErrors
    /\ standing' = [standing EXCEPT ![r] = "compensation_error"]
    /\ UNCHANGED <<evaluations, documents>>

\* The service dies before these requests were decided.
Abandon(R) ==
    /\ \A r \in R : standing[r] = "open"
    /\ standing' = [r \in Requests |-> IF r \in R THEN "abandoned" ELSE standing[r]]
    /\ UNCHANGED <<evaluations, documents>>

RemoveEvaluation(e) ==
    /\ evaluations' = evaluations \ {e}
    /\ documents' = {d \in documents : d.evaluation_id # e}
    /\ UNCHANGED standing

Next ==
    \/ \E r \in Requests, e \in Evaluations, c \in Contents :
          \/ Register(r, e, c)
          \/ \E why \in StateErrors \cup OtherErrors : Refuse(r, e, c, why)
    \/ \E r \in Requests : Spoil(r)
    \/ \E R \in SUBSET Requests : Abandon(R)
    \/ \E e \in Evaluations : RemoveEvaluation(e)

Spec == Init /\ [][Next]_vars
=============================================================================
