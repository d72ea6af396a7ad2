-------------------------- MODULE MCDocumentUpload --------------------------
(* Small instances of DocumentUpload for TLC. *)
EXTENDS DocumentUpload, TLC

\* Requests are interchangeable, and so are contents and evaluations.
Symmetry == Permutations(Requests) \cup Permutations(Contents)
                \cup Permutations(Evaluations)

\* Faults that leave commit() with a known result.
PlainFaults == {"seek", "drift", "store", "leak", "delete", "database",
                "removal", "crash"}

\* Faults of the three-request instance: those that put a row at risk.
RaceFaults == {"drift", "lost_ack", "removal", "power"}

LostAck == {"lost_ack"}
StoreFault == {"store"}
\* Faults under which every request ends by itself.
LiveFaults == {"drift", "store", "database", "lost_ack", "delete", "removal"}
=============================================================================
