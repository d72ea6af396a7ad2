------------------------- MODULE EvaluationCreation -------------------------
(***************************************************************************)
(* create_evaluation(), behind POST /evaluations: concurrent requests that *)
(* share a pool of connections and the row of the configured profile.      *)
(*                                                                         *)
(* The first request finds no profile and inserts it; others may have      *)
(* found none as well.  COMMIT gives the connection back, and the refresh  *)
(* that follows has to ask the pool for another.  PostgreSQL (the lock of  *)
(* an uncommitted key, a lost connection) and SQLAlchemy's pool are        *)
(* modelled from how this code uses them.                                  *)
(***************************************************************************)
EXTENDS Naturals, FiniteSets

CONSTANTS Requests, PoolSize

ASSUME PoolAssumption == PoolSize \in Nat \ {0}

VARIABLES
    stage,        \* the next statement of each request
    answer,       \* what it will answer
    connected,    \* the requests whose session holds a connection
    profile,      \* whether the configured profile is stored
    inserting,    \* the requests with an uncommitted profile
    evaluations,  \* the requests whose evaluation is stored
    in_doubt,     \* lost connections whose transaction the server has not ended
    late          \* history: requests that came when the profile was stored

db == <<profile, inserting, evaluations, in_doubt>>
vars == <<stage, answer, connected, db, late>>

Statements == {"get_profile", "insert_profile", "commit", "refresh"}
Stages == Statements \cup {"idle", "connect", "reconnect", "close", "answered"}
Answers == {"none", "created", "unknown_profile", "conflict", "error",
            "commit_error", "refresh_error"}

TypeOK ==
    /\ stage \in [Requests -> Stages]
    /\ answer \in [Requests -> Answers]
    /\ connected \subseteq Requests /\ Cardinality(connected) <= PoolSize
    /\ profile \in BOOLEAN
    /\ inserting \subseteq Requests /\ Cardinality(inserting) <= 1
    /\ evaluations \subseteq Requests
    /\ in_doubt \subseteq Requests
    /\ late \subseteq Requests

Init ==
    /\ stage = [r \in Requests |-> "idle"]
    /\ answer = [r \in Requests |-> "none"]
    /\ connected = {} /\ inserting = {} /\ evaluations = {} /\ in_doubt = {}
    /\ profile \in BOOLEAN
    /\ late = {}

-----------------------------------------------------------------------------
Goes(r, from, to) ==
    /\ stage[r] = from
    /\ stage' = [stage EXCEPT ![r] = to]

\* Every return and every exception leads to session.close().
Answering(r, what) ==
    /\ stage' = [stage EXCEPT ![r] = "close"]
    /\ answer' = [answer EXCEPT ![r] = what]

\* A failed statement is answered 500 in any case; what it leaves differs.
Failure(r) == CASE stage[r] \in {"reconnect", "refresh"} -> "refresh_error"
                [] stage[r] = "commit" -> "commit_error"
                [] OTHER -> "error"

\* The session takes no connection before its first statement.
Receive(r) ==
    /\ \/ Goes(r, "idle", "connect") /\ UNCHANGED answer
       \/ stage[r] = "idle" /\ Answering(r, "unknown_profile")
    /\ late' = IF profile THEN late \cup {r} ELSE late
    /\ UNCHANGED <<connected, db>>

\* Mutation: the pool counts one connection too few.
CheckoutBeyond(r) ==
    /\ Cardinality(connected) <= PoolSize
    /\ \/ Goes(r, "connect", "get_profile") \/ Goes(r, "reconnect", "refresh")
    /\ connected' = connected \cup {r}
    /\ UNCHANGED <<answer, db, late>>

Checkout(r) ==
    /\ Cardinality(connected) < PoolSize
    /\ \/ Goes(r, "connect", "get_profile") \/ Goes(r, "reconnect", "refresh")
    /\ connected' = connected \cup {r}
    /\ UNCHANGED <<answer, db, late>>

CheckoutTimesOut(r) ==
    /\ stage[r] \in {"connect", "reconnect"}
    /\ Cardinality(connected) = PoolSize
    /\ Answering(r, Failure(r))
    /\ UNCHANGED <<connected, db, late>>

\* Mutation: the stored profile is not looked for.
GetProfileBlindly(r) ==
    /\ Goes(r, "get_profile", "insert_profile")
    /\ UNCHANGED <<answer, connected, db, late>>

GetProfile(r) ==
    /\ Goes(r, "get_profile", IF profile THEN "commit" ELSE "insert_profile")
    /\ UNCHANGED <<answer, connected, db, late>>

\* The server keeps an INSERT waiting while another transaction holds its key.
InsertProfile(r) ==
    /\ stage[r] = "insert_profile"
    /\ inserting \subseteq {r}
    /\ \/ /\ ~profile
          /\ Goes(r, "insert_profile", "commit")
          /\ inserting' = {r}
          /\ UNCHANGED answer
       \/ /\ profile
          /\ Answering(r, "conflict")
          /\ UNCHANGED inserting
    /\ UNCHANGED <<connected, profile, evaluations, in_doubt, late>>

Committed(r) ==
    /\ evaluations' = evaluations \cup {r}
    /\ profile' = (profile \/ r \in inserting)
    /\ inserting' = inserting \ {r}

\* Mutation: the statements are sent and never committed.
FlushOnly(r) ==
    /\ Goes(r, "commit", "reconnect")
    /\ connected' = connected \ {r}
    /\ inserting' = inserting \ {r}
    /\ UNCHANGED <<answer, profile, evaluations, in_doubt, late>>

\* INSERT of the evaluation and COMMIT, which gives the connection back.
Commit(r) ==
    /\ Goes(r, "commit", "reconnect")
    /\ Committed(r)
    /\ connected' = connected \ {r}
    /\ UNCHANGED <<answer, in_doubt, late>>

Refresh(r) ==
    /\ stage[r] = "refresh"
    /\ Answering(r, "created")
    /\ UNCHANGED <<connected, db, late>>

\* The server refuses a statement, and with it the transaction.
StatementFails(r) ==
    /\ stage[r] \in Statements
    /\ Answering(r, IF stage[r] = "commit" THEN "error" ELSE Failure(r))
    /\ inserting' = inserting \ {r}
    /\ UNCHANGED <<connected, profile, evaluations, in_doubt, late>>

\* The server does not know yet; the pool gives the dead connection up.
LoseConnection(r) ==
    /\ stage[r] \in Statements
    /\ Answering(r, Failure(r))
    /\ connected' = connected \ {r}
    /\ in_doubt' = in_doubt \cup {r}
    /\ UNCHANGED <<profile, inserting, evaluations, late>>

\* Only a COMMIT that was on its way may take effect.
ServerEnds(r) ==
    /\ r \in in_doubt
    /\ in_doubt' = in_doubt \ {r}
    /\ \/ answer[r] = "commit_error" /\ Committed(r)
       \/ inserting' = inserting \ {r} /\ UNCHANGED <<profile, evaluations>>
    /\ UNCHANGED <<stage, answer, connected, late>>

\* Mutation: no finally; the session of a request that raised stays open.
CloseOnSuccess(r) ==
    /\ Goes(r, "close", "answered")
    /\ connected' = IF answer[r] = "created" THEN connected \ {r} ELSE connected
    /\ UNCHANGED <<answer, db, late>>

\* get_db_session() closes the session however the request ended.
Close(r) ==
    /\ Goes(r, "close", "answered")
    /\ connected' = connected \ {r}
    /\ UNCHANGED <<answer, db, late>>

Step(r) ==
    \/ Checkout(r) \/ GetProfile(r) \/ InsertProfile(r) \/ Commit(r)
    \/ Refresh(r) \/ Close(r) \/ ServerEnds(r)

Next ==
    \E r \in Requests :
        \/ Receive(r) \/ Step(r)
        \/ CheckoutTimesOut(r) \/ StatementFails(r) \/ LoseConnection(r)

Spec == Init /\ [][Next]_vars

\* The server and a request keep going; a failure or a timeout is never due.
FairSpec == Spec /\ \A r \in Requests : WF_vars(Step(r))

-----------------------------------------------------------------------------
(* 201 means that the evaluation is stored, with its profile, and so does  *)
(* the 500 of a refresh that failed after COMMIT.  A request that failed   *)
(* before COMMIT was sent has stored none, whatever the server does later. *)
(* Only the answer to a COMMIT that was lost leaves it open.               *)
AnswersAreTrue ==
    \A r \in Requests :
        /\ answer[r] \in {"created", "refresh_error"}
           => r \in evaluations /\ profile
        /\ answer[r] \in {"unknown_profile", "conflict", "error"}
           => r \notin evaluations

(* The unhandled conflict on the profile is a matter of the first          *)
(* requests: one that came when the profile was stored never meets it.     *)
ConflictsAreEarly ==
    \A r \in Requests : answer[r] = "conflict" => r \notin late

(* Requests wait for each other's connections and for each other's profile *)
(* row, and ask for a second connection before they are done.  Every one   *)
(* is answered all the same, and its connection goes back to the pool.     *)
EveryCreationEnds ==
    \A r \in Requests :
        stage[r] # "idle" ~> stage[r] = "answered" /\ r \notin connected
=============================================================================
