----------------------------- MODULE Interface -----------------------------
(***************************************************************************)
(* The Streamlit page over the API: one browser session, its script runs   *)
(* (run_app()), the uploads it sends through the API client, and the       *)
(* service that may still be busy when the client has given up.  What the  *)
(* service does is DocumentRegistry, with one request per upload.          *)
(*                                                                         *)
(* Streamlit is modelled from how this code uses it.  Any interaction      *)
(* starts a new run, also while one is under way; that one loses its       *)
(* session state at once, so nothing it still writes arrives, not even     *)
(* from a finally clause.  A submit button is true for one run.  A widget  *)
(* without a key is told apart by its options and its default, one with a  *)
(* key by the key; the browser's value is kept only for the same widget,   *)
(* and dropped when a run ends without the widget.                         *)
(***************************************************************************)
EXTENDS Naturals, Sequences

CONSTANTS
    Evaluations, Contents,
    MaxAttempts,   \* bound: the uploads of the session
    None           \* what is not there

ASSUME InterfaceAssumption == MaxAttempts \in Nat

Attempts == 1 .. MaxAttempts

VARIABLES
    \* The service
    evaluations, documents, standing,
    \* The session state, and what the browser holds
    selected, in_progress, generation, flash,
    selector, uploader,
    \* The run
    pc, trigger, page, table, sent,
    \* History: the evaluation the user last asked for
    chosen

service == <<evaluations, documents, standing>>
session == <<selected, in_progress, generation, flash>>
browser == <<selector, uploader>>
vars == <<service, session, browser, pc, trigger, page, table, sent, chosen>>

Registry == INSTANCE DocumentRegistry WITH Requests <- Attempts

Steps == {"greet", "create", "select", "upload", "uploading", "advance",
          "announce", "list", "idle"}
Flashes == {None, "created", "uploaded"}
Messages == {"created", "uploaded", "duplicate", "not_found", "rejected",
             "failed", "unavailable", "select_pdf", "blocked"}
Optional(S) == S \cup {None}

TypeOK ==
    /\ evaluations \subseteq Evaluations
    /\ documents \subseteq Registry!Document
    /\ standing \in [Attempts -> {"open", "created"} \cup Registry!Errors]
    /\ selected \in Optional(Evaluations)
    /\ in_progress \in BOOLEAN /\ generation \in 0 .. MaxAttempts
    /\ flash \in Flashes
    /\ selector \in Optional([options : SUBSET Evaluations,
             default : Optional(Evaluations), value : Optional(Evaluations)])
    /\ uploader \in Optional([generation : Nat, file : Optional(Contents)])
    /\ pc \in Steps /\ trigger \in {"none", "create", "upload"}
    /\ page \subseteq Messages
    /\ table \in Optional(SUBSET documents)
    /\ sent \in Seq([evaluation : Evaluations, content : Contents,
             generation : Nat, outcome : {"waiting", "orphaned", "gave_up",
                                          "refused", "received", "announced"}])
    /\ chosen \in Optional(Evaluations)

Init ==
    /\ Registry!Init
    /\ selected = None /\ in_progress = FALSE /\ generation = 0 /\ flash = None
    /\ selector = None /\ uploader = None
    /\ pc = "greet" /\ trigger = "none" /\ page = {} /\ table = None
    /\ sent = <<>>
    /\ chosen = None

-----------------------------------------------------------------------------
(* The user *)

\* The upload of the run that is under way, if it waits for one.
Current == Len(sent)
Outcome(o) == sent' = [sent EXCEPT ![Current].outcome = o]

\* A run that was uploading is left alone with its request, or its answer.
Rerun(why) ==
    /\ pc' = "greet" /\ trigger' = why
    /\ IF pc \in {"uploading", "advance", "announce"}
       THEN Outcome("orphaned") ELSE UNCHANGED sent
    /\ UNCHANGED <<service, session, page, table>>

Choose(e) ==
    /\ selector # None /\ e \in selector.options /\ e # selector.value
    /\ selector' = [selector EXCEPT !.value = e]
    /\ chosen' = e
    /\ Rerun("none") /\ UNCHANGED uploader

\* In a form, picking a file starts no run.
PickFile(c) ==
    /\ uploader # None
    /\ uploader' = [uploader EXCEPT !.file = c]
    /\ UNCHANGED <<service, session, selector, pc, trigger, page, table,
                   sent, chosen>>

Submit ==
    /\ uploader # None
    /\ Rerun("upload") /\ UNCHANGED <<browser, chosen>>

\* A click on the creation form, or on nothing in particular: a run that
\* creates nothing is a plain rerun.
AskCreation == Rerun("create") /\ UNCHANGED <<browser, chosen>>

-----------------------------------------------------------------------------
(* The run *)

\* What is left of the widgets that a finished run did not show.
Finish(shown) ==
    /\ pc' = "idle" /\ trigger' = "none"
    /\ selector' = IF "selector" \in shown THEN selector ELSE None
    /\ uploader' = IF "uploader" \in shown THEN uploader ELSE None

\* The flash message is shown once; without the API the run ends here.
Greet ==
    /\ pc = "greet"
    /\ flash' = None
    /\ \/ /\ pc' = "create"
          /\ page' = {flash} \ {None}
          /\ UNCHANGED <<browser, trigger>>
       \/ /\ page' = ({flash} \ {None}) \cup {"unavailable"}
          /\ Finish({})
    /\ table' = None
    /\ UNCHANGED <<service, selected, in_progress, generation, sent, chosen>>

\* create_evaluation() may fail, also after the service created one; without
\* profiles there is no form and the click is lost.
CreateEvaluation ==
    /\ pc = "create"
    /\ \/ /\ trigger = "create"
          /\ \E e \in Evaluations \ evaluations :
                /\ evaluations' = evaluations \cup {e}
                /\ selected' = e /\ chosen' = e
          /\ flash' = "created"
          /\ pc' = "greet" /\ trigger' = "none"
          /\ UNCHANGED page
       \/ /\ page' = IF trigger = "create" THEN page \cup {"failed"} ELSE page
          /\ pc' = "select"
          /\ UNCHANGED <<evaluations, selected, chosen, flash, trigger>>
    /\ UNCHANGED <<documents, standing, in_progress, generation, browser,
                   table, sent>>

\* The value of a selectbox with this default: the browser's, if it is the
\* same widget.
Selectbox(options, default) ==
    IF selector # None /\ selector.options = options /\ selector.default = default
    THEN selector.value ELSE default

Select(default) ==
    LET value == Selectbox(evaluations, default) IN
    /\ selector' = [options |-> evaluations, default |-> default, value |-> value]
    /\ selected' = value
    /\ IF value = None
       THEN pc' = "idle" /\ trigger' = "none" /\ uploader' = None
       ELSE pc' = "upload" /\ UNCHANGED <<trigger, uploader>>

\* Mutation: the selectbox starts at its first option, as it does by itself.
SelectEvaluationOrFirst ==
    /\ pc = "select" /\ evaluations # {}
    /\ \E first \in evaluations :
          Select(IF selected = None THEN first ELSE selected)
    /\ UNCHANGED <<service, in_progress, generation, flash, page, table, sent,
                   chosen>>

\* The evaluations are loaded, the selected one checked against them, and
\* the selectbox drawn with it as its default.
SelectEvaluation ==
    /\ pc = "select"
    /\ \/ /\ page' = page \cup {"failed"}
          /\ Finish({})
          /\ UNCHANGED selected
       \/ /\ evaluations = {}
          /\ selected' = None
          /\ Finish({})
          /\ UNCHANGED page
       \/ /\ evaluations # {}
          /\ Select(IF selected \in evaluations THEN selected ELSE None)
          /\ UNCHANGED page
    /\ UNCHANGED <<service, in_progress, generation, flash, table, sent, chosen>>

\* A new generation is a new uploader, without a file.
Uploader == IF uploader # None /\ uploader.generation = generation
            THEN uploader ELSE [generation |-> generation, file |-> None]

Send ==
    /\ Current < MaxAttempts
    /\ in_progress' = TRUE
    /\ sent' = Append(sent, [evaluation |-> selected, content |-> Uploader.file,
                             generation |-> generation, outcome |-> "waiting"])
    /\ pc' = "uploading"
    /\ UNCHANGED page

Show(message) ==
    /\ page' = page \cup message
    /\ pc' = "list"
    /\ UNCHANGED <<in_progress, sent>>

\* Mutation: the flag is set and never looked at.
RenderUploadUnblocked ==
    /\ pc = "upload"
    /\ uploader' = Uploader
    /\ IF trigger # "upload" THEN Show({})
       ELSE IF Uploader.file = None THEN Show({"select_pdf"}) ELSE Send
    /\ UNCHANGED <<service, selected, generation, flash, selector, trigger,
                   table, chosen>>

\* Mutation: a submission without a file is sent.
RenderUploadUnchecked ==
    /\ pc = "upload"
    /\ uploader' = Uploader
    /\ IF trigger # "upload" THEN Show({})
       ELSE IF in_progress THEN Show({"blocked"}) ELSE Send
    /\ UNCHANGED <<service, selected, generation, flash, selector, trigger,
                   table, chosen>>

RenderUpload ==
    /\ pc = "upload"
    /\ uploader' = Uploader
    /\ CASE trigger # "upload" -> Show({})
         [] trigger = "upload" /\ Uploader.file = None -> Show({"select_pdf"})
         [] trigger = "upload" /\ Uploader.file # None /\ in_progress
                -> Show({"blocked"})
         [] OTHER -> Send
    /\ UNCHANGED <<service, selected, generation, flash, selector, trigger,
                   table, chosen>>

\* The route's table from exceptions to status codes.  "validation_error" is
\* a size, a type, a name or a content that is refused, or an exception of
\* reading or inspecting that nothing translates.
Status == [why \in {"created"} \cup Registry!Errors |->
    CASE why = "created" -> {201}
      [] why = "evaluation_not_found" -> {404}
      [] why = "duplicate" -> {409}
      [] why = "validation_error" -> {413, 415, 422, 500}
      [] why = "non_seekable" -> {422}
      [] OTHER -> {500}]

\* The client's table from status codes to messages.
Message(status) ==
    CASE status = 404 -> "not_found"
      [] status = 409 -> "duplicate"
      [] status \in {413, 415, 422} -> "rejected"
      [] OTHER -> "failed"

\* The flag comes back in a finally clause, and the rest of the run follows.
Return(outcome, message, next) ==
    /\ in_progress' = FALSE
    /\ Outcome(outcome)
    /\ page' = page \cup message
    /\ pc' = next
    /\ UNCHANGED <<service, selected, generation, flash, browser, trigger,
                   table, chosen>>

\* Mutation: any answer is taken for a success.
ReceiveUnchecked ==
    /\ pc = "uploading"
    /\ standing[Current] # "open"
    /\ Return("received", {}, "advance")

Receive ==
    /\ pc = "uploading"
    /\ standing[Current] # "open"
    /\ \E status \in Status[standing[Current]] :
          IF status = 201
          THEN Return("received", {}, "advance")
          ELSE Return("refused", {Message(status)}, "list")

\* Mutation: the flag comes back only with an answer.
GiveUpHolding ==
    /\ pc = "uploading"
    /\ Outcome("gave_up")
    /\ page' = page \cup {"unavailable"}
    /\ pc' = "list"
    /\ UNCHANGED <<service, session, browser, trigger, table, chosen>>

\* A timeout, a lost connection or an unreadable answer; the service goes on.
GiveUp ==
    /\ pc = "uploading"
    /\ Return("gave_up", {"unavailable"}, "list")

\* Mutation: the uploader is kept after a success.
AdvanceNothing ==
    /\ pc = "advance"
    /\ pc' = "announce"
    /\ UNCHANGED <<service, session, browser, trigger, page, table, sent, chosen>>

Advance ==
    /\ pc = "advance"
    /\ generation' = generation + 1
    /\ pc' = "announce"
    /\ UNCHANGED <<service, selected, in_progress, flash, browser, trigger, page,
                   table, sent, chosen>>

\* queue_success_message() and st.rerun().
Announce ==
    /\ pc = "announce"
    /\ flash' = "uploaded"
    /\ Outcome("announced")
    /\ pc' = "greet" /\ trigger' = "none"
    /\ UNCHANGED <<service, selected, in_progress, generation, browser, page,
                   table, chosen>>

\* Mutation: the list is kept from the last time this evaluation was shown.
ListedBefore(e) == {d \in documents : d.evaluation_id = e /\ d.id # Current}

Listed(e) == {d \in documents : d.evaluation_id = e}

ListDocuments ==
    /\ pc = "list"
    /\ \/ table' = Listed(selected) /\ UNCHANGED page
       \/ page' = page \cup {"failed"} /\ UNCHANGED table
    /\ Finish({"selector", "uploader"})
    /\ UNCHANGED <<service, session, sent, chosen>>

-----------------------------------------------------------------------------
(* The service, and other users *)

Serve(a) ==
    /\ \/ Registry!Register(a, sent[a].evaluation, sent[a].content)
       \/ \E why \in Registry!StateErrors \cup Registry!OtherErrors :
             Registry!Refuse(a, sent[a].evaluation, sent[a].content, why)
    /\ UNCHANGED <<session, browser, pc, trigger, page, table, sent, chosen>>

OthersCreate(e) ==
    /\ evaluations' = evaluations \cup {e}
    /\ UNCHANGED <<documents, standing, session, browser, pc, trigger, page,
                   table, sent, chosen>>

Run ==
    \/ Greet \/ CreateEvaluation \/ SelectEvaluation \/ RenderUpload
    \/ Receive \/ GiveUp \/ Advance \/ Announce \/ ListDocuments

Next ==
    \/ \E e \in Evaluations : Choose(e) \/ OthersCreate(e)
    \/ \E c \in Contents : PickFile(c)
    \/ Submit \/ AskCreation
    \/ Run
    \/ \E a \in DOMAIN sent : Serve(a)

Spec == Init /\ [][Next]_vars

\* A run goes on, with finite timeouts, and so does the service.
FairSpec == Spec /\ WF_vars(Run) /\ WF_vars(\E a \in DOMAIN sent : Serve(a))

-----------------------------------------------------------------------------
(* The in-progress flag is set only for an upload the page waits for, or   *)
(* because an interaction cut off the run of the session's last upload: an *)
(* answer, a timeout and a run cut off earlier leave it down.              *)
FlagIsExplained ==
    in_progress => \/ pc = "uploading"
                   \/ 0 < Current /\ sent[Current].outcome = "orphaned"

(* The service works on one upload of the session at a time, however the   *)
(* user clicks, except for those the client gave up on.                    *)
OneAtATime ==
    \A a, b \in DOMAIN sent :
        /\ sent[a].outcome \in {"waiting", "orphaned"} /\ standing[a] = "open"
        /\ sent[b].outcome \in {"waiting", "orphaned"} /\ standing[b] = "open"
        => a = b

(* "Uploaded" and "duplicate" are shown only of a document that is there,  *)
(* though the answer may be about an upload the client gave up on and the  *)
(* user repeated.                                                          *)
UserIsToldTheTruth ==
    /\ \A a \in DOMAIN sent :
          sent[a].outcome \in {"received", "announced"}
          => \E d \in documents : d.id = a
    /\ "duplicate" \in page /\ pc \in {"list", "idle"}
       => Registry!Holds(sent[Current].evaluation, sent[Current].content)

(* A document whose upload was announced is not sent again from the same   *)
(* uploader: neither a rerun nor another click repeats it.                 *)
NoResendAfterSuccess ==
    \A a, b \in DOMAIN sent :
        a < b /\ sent[a].outcome = "announced"
        => sent[a].generation < sent[b].generation

(* Once the page says "uploaded", the list below it shows the document,    *)
(* unless the user has turned to another evaluation in between.            *)
UploadIsShown ==
    /\ pc = "idle" /\ "uploaded" \in page /\ table # None
    /\ selected = sent[Current].evaluation
    => \E d \in table : d.id = Current

(* The selected evaluation is one the user asked for, by choosing or by    *)
(* creating it; lists that change and widgets that are replaced never move *)
(* it to another.                                                          *)
SelectionFollowsUser == [][selected' # selected => selected' = chosen']_vars

(* The flag is "restored in success and error", so that a submission is    *)
(* blocked while the upload is in progress and no longer: when the page    *)
(* comes to rest, it is down.                                              *)
FlagIsRestored == <>[](pc = "idle") => <>[]~in_progress

(* Existing evaluations can be selected, and the selection is kept through *)
(* reruns: a run that draws the selectbox with the options the user chose  *)
(* from works on the evaluation that was chosen last.                      *)
ChoiceIsKept ==
    [][pc = "select" /\ pc' = "upload"
       /\ selector # None /\ selector.options = evaluations
       => selected' = chosen']_vars
=============================================================================
