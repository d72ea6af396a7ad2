-------------------------- MODULE DocumentListing --------------------------
(***************************************************************************)
(* DocumentListingService.list_for_evaluation(), behind GET .../documents, *)
(* beside sessions that insert, commit, fail and vanish, and evaluations   *)
(* that are removed.  The existence of the evaluation and its documents    *)
(* are two queries; under READ COMMITTED each sees what is committed when  *)
(* it runs, so the first answer may be stale at the second.                *)
(***************************************************************************)
EXTENDS DocumentPersistence

CONSTANT Readers   \* requests to list the documents of an evaluation

VARIABLES
    stage,    \* the next query of each reader, or its answer
    target,   \* the evaluation it asks for
    before,   \* history: the documents its evaluation had when it came
    listed    \* the documents it answers with

readerVars == <<stage, target, before, listed>>

Stages == {"idle", "find_evaluation", "list", "ok", "not_found", "error"}

DocumentsOf(e) == {d \in rows : d.evaluation_id = e}

ListingTypeOK ==
    /\ TypeOK
    /\ stage \in [Readers -> Stages]
    /\ target \in [Readers -> Evaluations]
    /\ before \in [Readers -> SUBSET Row]
    /\ listed \in [Readers -> SUBSET Row]

ListingInit ==
    /\ Init
    /\ stage = [r \in Readers |-> "idle"]
    /\ target \in [Readers -> Evaluations]
    /\ before = [r \in Readers |-> {}]
    /\ listed = [r \in Readers |-> {}]

-----------------------------------------------------------------------------
Reaches(r, from, to) ==
    /\ stage[r] = from
    /\ stage' = [stage EXCEPT ![r] = to]
    /\ UNCHANGED <<target, vars>>

Ask(r) ==
    /\ Reaches(r, "idle", "find_evaluation")
    /\ before' = [before EXCEPT ![r] = DocumentsOf(target[r])]
    /\ UNCHANGED listed

\* Mutation: an evaluation without documents is taken for a missing one.
FindEvaluationByDocuments(r) ==
    /\ \/ /\ DocumentsOf(target[r]) # {}
          /\ Reaches(r, "find_evaluation", "list")
       \/ /\ DocumentsOf(target[r]) = {}
          /\ Reaches(r, "find_evaluation", "not_found")
    /\ UNCHANGED <<before, listed>>

FindEvaluation(r) ==
    /\ \/ /\ EvaluationExists(target[r])
          /\ Reaches(r, "find_evaluation", "list")
       \/ /\ ~EvaluationExists(target[r])
          /\ Reaches(r, "find_evaluation", "not_found")
       \/ Reaches(r, "find_evaluation", "error")
    /\ UNCHANGED <<before, listed>>

\* Mutation: the query sees what other transactions have not committed.
ListUncommitted(e) ==
    {d \in rows \cup UNION {pending[s] : s \in Sessions} : d.evaluation_id = e}

\* The order of the list, by created_at and id, is left out: a set.
ListByEvaluation(e) == DocumentsOf(e)

List(r) ==
    /\ \/ /\ Reaches(r, "list", "ok")
          /\ listed' = [listed EXCEPT ![r] = ListByEvaluation(target[r])]
       \/ /\ Reaches(r, "list", "error")
          /\ UNCHANGED listed
    /\ UNCHANGED before

ListingNext ==
    \/ \E r \in Readers : Ask(r) \/ FindEvaluation(r) \/ List(r)
    \/ Next /\ UNCHANGED readerVars

ListingSpec == ListingInit /\ [][ListingNext]_<<vars, readerVars>>

-----------------------------------------------------------------------------
(* A list is complete and true as long as its evaluation stands: every     *)
(* document committed before the request came is in it, though the queries *)
(* see different moments, and nothing is in it that another transaction    *)
(* gave up later.                                                          *)
ListIsComplete ==
    \A r \in Readers :
        stage[r] = "ok" /\ target[r] \in evaluations
        => before[r] \subseteq listed[r] /\ listed[r] \subseteq DocumentsOf(target[r])

\* The list that b is now answered with agrees with what was answered before.
Agrees(b) ==
    /\ target[b] \notin evaluations => listed'[b] = {}
    /\ \A a \in Readers :
          target[a] = target[b]
          => /\ stage[a] = "not_found" => listed'[b] = {}
             /\ stage[a] = "ok" /\ target[a] \in evaluations
                => listed[a] \subseteq listed'[b]

(* The answers about one evaluation tell one story, whoever asks and       *)
(* however queries, commits and removals interleave: an evaluation that    *)
(* was removed between the two queries is answered with an empty list, a   *)
(* list has every document that an earlier one had, and after a 404 nobody *)
(* is shown a document.                                                    *)
AnswersTellOneStory ==
    [][\A b \in Readers :
         stage[b] = "list" /\ stage'[b] = "ok" => Agrees(b)]_<<vars, readerVars>>
=============================================================================
