------------------------- MODULE MCDocumentListing -------------------------
(* Readers beside sessions that insert any of a few documents. *)
EXTENDS DocumentListing, TLC

Symmetry == Permutations(Sessions) \cup Permutations(Documents)
                \cup Permutations(Evaluations) \cup Permutations(Hashes)
                \cup Permutations(Readers)
=============================================================================
