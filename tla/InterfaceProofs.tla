--------------------------- MODULE InterfaceProofs ---------------------------
(***************************************************************************)
(* Proofs about Interface, for any evaluations, contents and number of     *)
(* uploads.                                                                *)
(***************************************************************************)
EXTENDS Interface, SequenceTheorems, TLAPS

\* Where the run is, the session state has what it works with.
RunFollows ==
    /\ Current <= MaxAttempts
    /\ selected \in Optional(evaluations)
    /\ pc \in {"upload", "uploading", "advance", "announce", "list"}
          => selected # None
    /\ pc \in {"uploading", "advance", "announce"} => 0 < Current

\* The outcome of an upload is open as long as the run deals with it; one that
\* a run left alone, and the service has not decided, holds the flag.
UploadsFollow ==
    /\ pc = "uploading" => in_progress
    /\ \A a \in DOMAIN sent :
          /\ sent[a].outcome = "waiting" <=> a = Current /\ pc = "uploading"
          /\ sent[a].outcome = "received"
                <=> a = Current /\ pc \in {"advance", "announce"}
          /\ sent[a].outcome = "orphaned" /\ standing[a] = "open"
                => in_progress /\ pc # "uploading"

\* What the service has decided of the uploads is there.
ServiceFollows ==
    /\ \A a \in Attempts : a > Current => standing[a] = "open"
    /\ \A a \in DOMAIN sent :
          /\ standing[a] = "created"
                => \E d \in documents :
                      d.id = a /\ d.evaluation_id = sent[a].evaluation
          /\ standing[a] = "duplicate"
                => Registry!Holds(sent[a].evaluation, sent[a].content)
          /\ sent[a].outcome \in {"received", "announced"}
                => standing[a] = "created"

\* The uploader in the browser is not the one the next run draws.
OutOfDate == uploader # None => uploader.generation # generation

\* Every success makes a new uploader, and there are no more than uploads.
GenerationsFollow ==
    /\ generation <= Current
    /\ pc \in {"uploading", "advance"} => generation < Current
    /\ uploader # None => uploader.generation <= generation
    /\ \A a \in DOMAIN sent :
          /\ sent[a].generation <= generation
          /\ sent[a].outcome = "announced" => sent[a].generation < generation
          /\ sent[a].outcome = "received" /\ pc = "announce"
                => sent[a].generation < generation
    /\ pc = "announce" => OutOfDate

\* A success is about to be shown, or is on the page at one of these steps.
Announces(steps) ==
    \/ flash # None /\ flash = "uploaded"
    \/ "uploaded" \in page /\ pc \in steps

\* The messages belong to the run, or to the one before if that asked for it.
PagesFollow ==
    /\ flash # None => pc = "greet"
    /\ Announces({"create", "select", "upload", "list", "idle"})
          => 0 < Current /\ sent[Current].outcome = "announced"
    /\ Announces({"create", "select", "upload"}) => OutOfDate
    /\ pc \in {"uploading", "advance", "announce"} => "uploaded" \notin page
    /\ pc \in {"create", "select", "upload", "uploading", "advance", "announce"}
          => "duplicate" \notin page
    /\ pc \notin {"greet", "idle"} => table = None

\* The browser's choice is of the options it was drawn with, and what the user
\* asked for unless it was drawn so.
SelectionsFollow ==
    selector # None
    => /\ selector.options \subseteq evaluations
       /\ selector.value \in Optional(selector.options)
       /\ selector.options = evaluations
             => selector.value \in {chosen, selector.default}

\* The inductive invariant.
InterfaceInv ==
    /\ TypeOK
    /\ RunFollows /\ UploadsFollow /\ ServiceFollows /\ GenerationsFollow
    /\ PagesFollow /\ SelectionsFollow
    /\ FlagIsExplained /\ OneAtATime /\ UserIsToldTheTruth
    /\ NoResendAfterSuccess /\ UploadIsShown

-----------------------------------------------------------------------------
(* The list of uploads. *)

Outcomes == {"waiting", "orphaned", "gave_up", "refused", "received", "announced"}
Uploads == [evaluation : Evaluations, content : Contents,
            generation : Nat, outcome : Outcomes]

(* An upload of the list is an upload.                                     *)
LEMMA SentAreUploads ==
    ASSUME TypeOK
    PROVE  /\ sent \in Seq(Uploads) /\ Current \in Nat
           /\ DOMAIN sent = 1 .. Current
           /\ \A a \in DOMAIN sent : sent[a] \in Uploads
  <1>1. sent \in Seq(Uploads)
    BY DEF TypeOK, Uploads, Outcomes
  <1>2. QED
    BY <1>1, LenProperties, ElementOfSeq DEF Current

(* A new outcome of the last upload changes nothing else in the list.      *)
LEMMA OutcomeStep ==
    ASSUME TypeOK, 0 < Current, NEW o \in Outcomes, Outcome(o)
    PROVE  /\ sent' \in Seq(Uploads) /\ Current' = Current
           /\ DOMAIN sent' = DOMAIN sent /\ Current \in DOMAIN sent
           /\ \A a \in DOMAIN sent :
                 /\ sent'[a].evaluation = sent[a].evaluation
                 /\ sent'[a].content = sent[a].content
                 /\ sent'[a].generation = sent[a].generation
                 /\ sent'[a].outcome = IF a = Current THEN o ELSE sent[a].outcome
  <1>1. /\ sent \in Seq(Uploads) /\ Current \in Nat
        /\ DOMAIN sent = 1 .. Current /\ Len(sent) = Current
        /\ \A a \in DOMAIN sent : sent[a] \in Uploads
    BY SentAreUploads DEF Current
  <1>2. sent' = [sent EXCEPT ![Current].outcome = o]
    BY DEF Outcome
  <1>3. Current \in DOMAIN sent
    BY <1>1
  <1>4. [sent[Current] EXCEPT !.outcome = o] \in Uploads
    BY <1>1, <1>3 DEF Uploads
  <1>5. sent' \in Seq(Uploads) /\ Len(sent') = Len(sent) /\ DOMAIN sent' = DOMAIN sent
    BY <1>1, <1>2, <1>3, <1>4
  <1>6. ASSUME NEW a \in DOMAIN sent
        PROVE  /\ sent'[a].evaluation = sent[a].evaluation
               /\ sent'[a].content = sent[a].content
               /\ sent'[a].generation = sent[a].generation
               /\ sent'[a].outcome = IF a = Current THEN o ELSE sent[a].outcome
    BY <1>1, <1>2, <1>6 DEF Uploads
  <1>7. QED
    BY <1>1, <1>3, <1>5, <1>6 DEF Current

(* A new upload comes last, and changes no other.                          *)
LEMMA AppendStep ==
    ASSUME TypeOK, NEW u \in Uploads, sent' = Append(sent, u)
    PROVE  /\ sent' \in Seq(Uploads) /\ Current' = Current + 1
           /\ DOMAIN sent' = DOMAIN sent \cup {Current + 1}
           /\ Current + 1 \notin DOMAIN sent
           /\ \A a \in DOMAIN sent : sent'[a] = sent[a]
           /\ sent'[Current + 1] = u
  <1>1. /\ sent \in Seq(Uploads) /\ Current \in Nat
        /\ DOMAIN sent = 1 .. Current /\ Len(sent) = Current
    BY SentAreUploads DEF Current
  <1>2. /\ sent' \in Seq(Uploads) /\ Len(sent') = Current + 1
        /\ \A a \in 1 .. Current : sent'[a] = sent[a]
        /\ sent'[Current + 1] = u
    BY <1>1
  <1>3. DOMAIN sent' = 1 .. (Current + 1)
    BY <1>1, <1>2
  <1>4. QED
    BY <1>1, <1>2, <1>3 DEF Current

-----------------------------------------------------------------------------
(* The steps, by what they do to the uploads. *)

\* A run is left alone while it deals with an upload.
Interrupted ==
    /\ pc \in {"uploading", "advance", "announce"} /\ pc' = "greet"
    /\ Outcome("orphaned")
    /\ UNCHANGED <<service, session, uploader>>

\* The client has an answer, or no hope of one.
Returned ==
    /\ pc = "uploading"
    /\ in_progress' = FALSE
    /\ \/ /\ Outcome("received") /\ standing[Current] = "created"
          /\ pc' = "advance"
       \/ Outcome("refused") /\ pc' = "list"
       \/ Outcome("gave_up") /\ pc' = "list"
    /\ UNCHANGED <<service, generation, uploader>>

\* A new upload is sent.
Sent ==
    /\ pc = "upload" /\ pc' = "uploading"
    /\ Current < MaxAttempts
    /\ ~in_progress /\ in_progress' = TRUE
    /\ selected \in Evaluations
    /\ Uploader.file \in Contents /\ Uploader.file # None
    /\ sent' = Append(sent, [evaluation |-> selected, content |-> Uploader.file,
                             generation |-> generation, outcome |-> "waiting"])
    /\ uploader' = Uploader
    /\ UNCHANGED <<service, generation, page>>

\* The run goes on, or ends, or another begins, and no upload is concerned.
Elsewhere ==
    /\ pc \notin {"uploading", "advance", "announce"}
    /\ pc' \notin {"uploading", "advance", "announce"}
    /\ uploader' \in {uploader, Uploader, None}
    /\ UNCHANGED <<sent, in_progress, generation>>

\* The run waits, whatever the service or the user does.
Beside ==
    /\ UNCHANGED <<pc, sent, in_progress, generation>>
    /\ \/ uploader' = uploader
       \/ uploader # None /\ uploader'.generation = uploader.generation

(* The upload form is refused, not submitted, or sends a file.             *)
LEMMA RenderCases ==
    ASSUME InterfaceInv, RenderUpload
    PROVE  \/ Sent
           \/ /\ pc = "upload" /\ pc' = "list"
              /\ uploader' = Uploader
              /\ page' \subseteq page \cup {"select_pdf", "blocked"}
              /\ page \subseteq page'
              /\ UNCHANGED <<in_progress, sent, service, generation>>
  <1>1. Uploader.file \in Optional(Contents) /\ selected \in Evaluations
    BY DEF InterfaceInv, TypeOK, RunFollows, Uploader, Optional, RenderUpload
  <1>2. CASE trigger # "upload"
    BY <1>2 DEF RenderUpload, Show, service
  <1>3. CASE trigger = "upload" /\ Uploader.file = None
    BY <1>3 DEF RenderUpload, Show, service
  <1>4. CASE trigger = "upload" /\ Uploader.file # None /\ in_progress
    BY <1>4 DEF RenderUpload, Show, service
  <1>5. CASE trigger = "upload" /\ Uploader.file # None /\ ~in_progress
    BY <1>1, <1>5 DEF RenderUpload, Send, Sent, Optional, service
  <1>6. QED
    BY <1>2, <1>3, <1>4, <1>5

(* Only a created document is answered with 201, and only a duplicate is   *)
(* called one.                                                             *)
LEMMA StatusIsTrue ==
    ASSUME NEW why \in {"created"} \cup Registry!Errors, NEW status \in Status[why]
    PROVE  /\ status = 201 <=> why = "created"
           /\ Message(status) = "duplicate" => why = "duplicate"
           /\ Message(status) \in Messages \ {"uploaded", "created"}
  BY DEF Status, Message, Messages, Registry!Errors, Registry!StateErrors,
     Registry!OtherErrors

(* What an answer makes of the upload that the page waits for.             *)
LEMMA ReceiveCases ==
    ASSUME InterfaceInv, Receive
    PROVE  /\ pc = "uploading"
           /\ \/ /\ standing[Current] = "created"
                 /\ Return("received", {}, "advance")
              \/ \E message \in Messages \ {"uploaded", "created"} :
                    /\ message = "duplicate" => standing[Current] = "duplicate"
                    /\ Return("refused", {message}, "list")
  <1>1. pc = "uploading" /\ standing[Current] \in {"created"} \cup Registry!Errors
    BY SentAreUploads DEF Receive, InterfaceInv, TypeOK, RunFollows, Attempts
  <1>2. PICK status \in Status[standing[Current]] :
           IF status = 201 THEN Return("received", {}, "advance")
           ELSE Return("refused", {Message(status)}, "list")
    BY DEF Receive
  <1> DEFINE why == standing[Current]
  <1>3. why \in {"created"} \cup Registry!Errors /\ status \in Status[why]
    BY <1>1
  <1> HIDE DEF why
  <1>4. /\ status = 201 <=> why = "created"
        /\ Message(status) = "duplicate" => why = "duplicate"
        /\ Message(status) \in Messages \ {"uploaded", "created"}
    BY <1>3, StatusIsTrue
  <1>5. CASE status = 201
    BY <1>1, <1>2, <1>5, <1>4 DEF why
  <1>6. CASE status # 201
    <2> DEFINE message == Message(status)
    <2>1. /\ message \in Messages \ {"uploaded", "created"}
          /\ message = "duplicate" => standing[Current] = "duplicate"
      BY <1>4 DEF why
    <2>2. Return("refused", {message}, "list")
      BY <1>2, <1>6
    <2> HIDE DEF message
    <2>3. QED
      BY <1>1, <2>1, <2>2
  <1>7. QED
    BY <1>5, <1>6

(* Every step is of one of these kinds.                                    *)
LEMMA UploadSteps ==
    ASSUME InterfaceInv, [Next]_vars
    PROVE  \/ Interrupted
           \/ Returned
           \/ Sent
           \/ /\ pc = "announce" /\ Announce
           \/ /\ pc = "advance" /\ Advance
           \/ Elsewhere
           \/ Beside
  <1> USE DEF service, session, browser
  <1>1. CASE UNCHANGED vars
    BY <1>1 DEF vars, Beside
  <1>2. ASSUME NEW why, Rerun(why), uploader' = uploader
        PROVE  Interrupted \/ Elsewhere
    BY <1>2 DEF Rerun, Interrupted, Elsewhere
  <1>3. CASE \/ Submit \/ AskCreation \/ \E e \in Evaluations : Choose(e)
    BY <1>2, <1>3 DEF Submit, AskCreation, Choose
  <1>4. ASSUME NEW c \in Contents, PickFile(c) PROVE Beside
    BY <1>4 DEF PickFile, Beside, InterfaceInv, TypeOK, Optional
  <1>5. ASSUME NEW a \in DOMAIN sent, Serve(a) PROVE Beside
    BY <1>5 DEF Serve, Beside
  <1>6. ASSUME NEW e \in Evaluations, OthersCreate(e) PROVE Beside
    BY <1>6 DEF OthersCreate, Beside
  <1>7. CASE Greet \/ CreateEvaluation \/ ListDocuments
    BY <1>7 DEF Greet, CreateEvaluation, ListDocuments, Finish, Elsewhere
  <1>8. CASE SelectEvaluation
    BY <1>8 DEF SelectEvaluation, Select, Finish, Elsewhere
  <1>9. CASE RenderUpload
    BY <1>9, RenderCases DEF Elsewhere
  <1>10. CASE Receive
    <2>1. CASE Return("received", {}, "advance") /\ standing[Current] = "created"
      BY <1>10, <2>1, ReceiveCases DEF Return, Returned
    <2>2. ASSUME NEW message, Return("refused", {message}, "list") PROVE Returned
      BY <1>10, <2>2, ReceiveCases DEF Return, Returned
    <2>3. QED
      BY <1>10, <2>1, <2>2, ReceiveCases
  <1>11. CASE GiveUp
    BY <1>11 DEF GiveUp, Return, Returned
  <1>12. CASE Advance \/ Announce
    BY <1>12 DEF Advance, Announce
  <1>13. QED
    BY <1>1, <1>3, <1>4, <1>5, <1>6, <1>7, <1>8, <1>9, <1>10, <1>11, <1>12
       DEF Next, Run

(* The service only ever adds, and decides an upload once.                 *)
LEMMA ServiceStep ==
    ASSUME InterfaceInv, [Next]_vars
    PROVE  /\ evaluations \subseteq evaluations' /\ evaluations' \subseteq Evaluations
           /\ documents \subseteq documents' /\ documents' \subseteq Registry!Document
           /\ standing' \in [Attempts -> {"open", "created"} \cup Registry!Errors]
           /\ \A a \in Attempts :
                 \/ standing'[a] = standing[a]
                 \/ /\ a \in DOMAIN sent /\ standing[a] = "open" /\ standing'[a] # "open"
                    /\ UNCHANGED sent
                    /\ standing'[a] = "created"
                          => \E d \in documents' :
                                d.id = a /\ d.evaluation_id = sent[a].evaluation
                    /\ standing'[a] = "duplicate"
                          => Registry!Holds(sent[a].evaluation, sent[a].content)
  <1> DEFINE Decided(a) ==
          /\ standing[a] = "open" /\ standing'[a] # "open"
          /\ UNCHANGED sent
          /\ standing'[a] = "created"
                => \E d \in documents' :
                      d.id = a /\ d.evaluation_id = sent[a].evaluation
          /\ standing'[a] = "duplicate"
                => Registry!Holds(sent[a].evaluation, sent[a].content)
  <1> USE DEF service
  <1>1. ASSUME NEW a \in DOMAIN sent, Serve(a)
        PROVE  /\ evaluations' = evaluations /\ documents \subseteq documents'
               /\ documents' \subseteq Registry!Document
               /\ standing' \in [Attempts -> {"open", "created"} \cup Registry!Errors]
               /\ \A b \in Attempts : standing'[b] = standing[b] \/ (b = a /\ Decided(a))
    <2>1. sent[a] \in Uploads /\ a \in Attempts
      BY SentAreUploads, InterfaceAssumption DEF InterfaceInv, RunFollows, Attempts
    <2>2. /\ sent[a].evaluation \in Evaluations /\ sent[a].content \in Contents
          /\ standing \in [Attempts -> {"open", "created"} \cup Registry!Errors]
          /\ documents \subseteq Registry!Document
          /\ standing[a] # "abandoned"
      BY <2>1 DEF Uploads, InterfaceInv, TypeOK, Registry!Errors,
         Registry!StateErrors, Registry!OtherErrors
    <2>3. CASE Registry!Register(a, sent[a].evaluation, sent[a].content)
      <3>1. standing' = [standing EXCEPT ![a] = "created"] /\ standing[a] = "open"
        BY <2>2, <2>3 DEF Registry!Register
      <3>2. documents' = documents \cup
               {[id |-> a, evaluation_id |-> sent[a].evaluation,
                 sha256 |-> sent[a].content, content |-> sent[a].content]}
        BY <2>3 DEF Registry!Register
      <3>3. documents' \subseteq Registry!Document
        BY <2>1, <2>2, <3>2 DEF Registry!Document
      <3>4. \E d \in documents' : d.id = a /\ d.evaluation_id = sent[a].evaluation
        <4> DEFINE new == [id |-> a, evaluation_id |-> sent[a].evaluation,
                           sha256 |-> sent[a].content, content |-> sent[a].content]
        <4>1. new \in documents'
          BY <3>2
        <4>2. new.id = a /\ new.evaluation_id = sent[a].evaluation
          OBVIOUS
        <4>3. QED
          BY <4>1, <4>2
      <3>5. evaluations' = evaluations /\ UNCHANGED sent
        BY <1>1, <2>3 DEF Serve, Registry!Register
      <3>6. /\ standing' \in [Attempts -> {"open", "created"} \cup Registry!Errors]
            /\ standing'[a] = "created"
            /\ \A b \in Attempts : b # a => standing'[b] = standing[b]
        BY <2>1, <2>2, <3>1
      <3>7. Decided(a)
        BY <3>1, <3>4, <3>5, <3>6
      <3>8. documents \subseteq documents'
        BY <3>2
      <3>9. QED
        BY <3>3, <3>5, <3>6, <3>7, <3>8
    <2>4. ASSUME NEW why \in Registry!StateErrors \cup Registry!OtherErrors,
                 Registry!Refuse(a, sent[a].evaluation, sent[a].content, why)
          PROVE  /\ UNCHANGED <<evaluations, documents>>
                 /\ standing' \in [Attempts -> {"open", "created"} \cup Registry!Errors]
                 /\ \A b \in Attempts : b # a => standing'[b] = standing[b]
                 /\ Decided(a)
      BY <1>1, <2>1, <2>2, <2>4 DEF Serve, Registry!Refuse, Registry!Errors,
         Registry!StateErrors, Registry!OtherErrors
    <2>5. CASE \E why \in Registry!StateErrors \cup Registry!OtherErrors :
                  Registry!Refuse(a, sent[a].evaluation, sent[a].content, why)
      BY <2>2, <2>4, <2>5
    <2>6. QED
      BY <1>1, <2>3, <2>5 DEF Serve
  <1>2. CASE /\ evaluations \subseteq evaluations' /\ evaluations' \subseteq Evaluations
             /\ UNCHANGED <<documents, standing>>
    BY <1>2 DEF InterfaceInv, TypeOK
  <1>3. CASE UNCHANGED service
    BY <1>2, <1>3 DEF InterfaceInv, TypeOK
  <1>4. ASSUME NEW e \in Evaluations, OthersCreate(e)
        PROVE  /\ evaluations \subseteq evaluations' /\ evaluations' \subseteq Evaluations
               /\ UNCHANGED <<documents, standing>>
    BY <1>4 DEF OthersCreate, InterfaceInv, TypeOK
  <1>5. CASE CreateEvaluation
    BY <1>2, <1>5 DEF CreateEvaluation, InterfaceInv, TypeOK
  <1>6. \/ \E a \in DOMAIN sent : Serve(a)
        \/ \E e \in Evaluations : OthersCreate(e)
        \/ CreateEvaluation
        \/ UNCHANGED service
    BY DEF Next, Run, vars, Choose, PickFile, Submit, AskCreation, Rerun, Greet,
       SelectEvaluation, RenderUpload, Receive, GiveUp, Return, Advance, Announce,
       ListDocuments
  <1>7. QED
    BY <1>1, <1>2, <1>3, <1>4, <1>5, <1>6 DEF InterfaceInv, TypeOK

-----------------------------------------------------------------------------
(* What the steps preserve. *)

(* The flag and the outcomes follow the run, and an upload the service     *)
(* still works on keeps others from being sent.                            *)
LEMMA UploadsFollowStep ==
    ASSUME InterfaceInv, [Next]_vars
    PROVE  UploadsFollow' /\ FlagIsExplained' /\ OneAtATime'
  <1>1. /\ TypeOK /\ RunFollows /\ UploadsFollow /\ ServiceFollows
        /\ FlagIsExplained /\ OneAtATime
    BY DEF InterfaceInv
  <1>2. /\ sent \in Seq(Uploads) /\ Current \in Nat /\ DOMAIN sent = 1 .. Current
        /\ Current' = Len(sent')
        /\ \A a \in DOMAIN sent : a \in Attempts
    BY <1>1, SentAreUploads, InterfaceAssumption DEF RunFollows, Attempts, Current
  <1>3. \A a \in DOMAIN sent :
           standing'[a] = standing[a] \/ (standing[a] = "open" /\ standing'[a] # "open")
    BY <1>2, ServiceStep
  <1>4. CASE Interrupted
    <2>1. 0 < Current /\ standing' = standing /\ in_progress' = in_progress
      BY <1>1, <1>4 DEF Interrupted, RunFollows, service, session
    <2>2. /\ DOMAIN sent' = DOMAIN sent /\ Current' = Current /\ Current \in DOMAIN sent
          /\ \A a \in DOMAIN sent : sent'[a].outcome =
                IF a = Current THEN "orphaned" ELSE sent[a].outcome
      BY <1>1, <1>4, <2>1, OutcomeStep DEF Interrupted, Outcomes
    <2>3. sent[Current].outcome \in {"waiting", "received"}
      BY <1>1, <1>4, <2>2 DEF Interrupted, UploadsFollow
    <2>4. standing[Current] = "open" => pc = "uploading" /\ in_progress
      BY <1>1, <1>4, <2>2, <2>3 DEF Interrupted, UploadsFollow, ServiceFollows
    <2>5. UploadsFollow'
      BY <1>1, <1>4, <2>1, <2>2, <2>4 DEF Interrupted, UploadsFollow
    <2>6. FlagIsExplained'
      BY <2>1, <2>2 DEF FlagIsExplained
    <2>7. OneAtATime'
      BY <1>1, <1>4, <2>1, <2>2, <2>3, <2>4 DEF OneAtATime, UploadsFollow
    <2>8. QED
      BY <2>5, <2>6, <2>7
  <1>5. CASE Returned
    <2>1. PICK o \in {"received", "refused", "gave_up"} :
             Outcome(o) /\ (o = "received" <=> pc' \in {"advance", "announce"})
      BY <1>5 DEF Returned
    <2>2. 0 < Current /\ standing' = standing /\ pc = "uploading" /\ pc' # "uploading"
      BY <1>1, <1>5 DEF Returned, RunFollows, service
    <2>3. /\ DOMAIN sent' = DOMAIN sent /\ Current' = Current /\ Current \in DOMAIN sent
          /\ \A a \in DOMAIN sent : sent'[a].outcome =
                IF a = Current THEN o ELSE sent[a].outcome
      BY <1>1, <2>1, <2>2, OutcomeStep DEF Outcomes
    <2>4. UploadsFollow'
      BY <1>1, <2>1, <2>2, <2>3 DEF UploadsFollow
    <2>5. FlagIsExplained'
      BY <1>5 DEF Returned, FlagIsExplained
    <2>6. OneAtATime'
      BY <1>1, <2>2, <2>3 DEF OneAtATime
    <2>7. QED
      BY <2>4, <2>5, <2>6
  <1>6. CASE Sent
    <2>1. /\ DOMAIN sent' = DOMAIN sent \cup {Current + 1} /\ Current' = Current + 1
          /\ Current + 1 \notin DOMAIN sent
          /\ \A a \in DOMAIN sent : sent'[a] = sent[a]
          /\ sent'[Current + 1].outcome = "waiting"
      <3> DEFINE new == [evaluation |-> selected, content |-> Uploader.file,
                         generation |-> generation, outcome |-> "waiting"]
      <3>1. new \in Uploads /\ sent' = Append(sent, new)
        BY <1>1, <1>6 DEF Sent, Uploads, Outcomes, TypeOK
      <3>2. new.outcome = "waiting"
        OBVIOUS
      <3> HIDE DEF new
      <3>3. QED
        BY <1>1, <3>1, <3>2, AppendStep
    <2>2. pc' = "uploading" /\ in_progress' /\ ~in_progress /\ standing' = standing
      BY <1>6 DEF Sent, service
    <2>3. \A a \in DOMAIN sent : /\ sent[a].outcome # "received"
                                 /\ sent[a].outcome # "waiting"
                                 /\ ~(sent[a].outcome = "orphaned" /\ standing[a] = "open")
      BY <1>1, <1>6, <2>2 DEF Sent, UploadsFollow
    <2>4. UploadsFollow'
      BY <1>2, <2>1, <2>2, <2>3 DEF UploadsFollow
    <2>5. FlagIsExplained'
      BY <2>2 DEF FlagIsExplained
    <2>6. OneAtATime'
      BY <2>1, <2>2, <2>3 DEF OneAtATime
    <2>7. QED
      BY <2>4, <2>5, <2>6
  <1>7. CASE pc = "announce" /\ Announce
    <2>1. /\ 0 < Current /\ standing' = standing /\ in_progress' = in_progress
          /\ pc' = "greet" /\ Outcome("announced")
      BY <1>1, <1>7 DEF Announce, RunFollows, service
    <2>2. /\ DOMAIN sent' = DOMAIN sent /\ Current' = Current /\ Current \in DOMAIN sent
          /\ \A a \in DOMAIN sent : sent'[a].outcome =
                IF a = Current THEN "announced" ELSE sent[a].outcome
      BY <1>1, <2>1, OutcomeStep DEF Outcomes
    <2>3. UploadsFollow'
      BY <1>1, <1>7, <2>1, <2>2 DEF UploadsFollow
    <2>4. FlagIsExplained'
      BY <1>1, <1>7, <2>1, <2>2 DEF UploadsFollow, FlagIsExplained
    <2>5. OneAtATime'
      BY <1>1, <2>1, <2>2 DEF OneAtATime
    <2>6. QED
      BY <2>3, <2>4, <2>5
  <1>8. CASE pc = "advance" /\ Advance
    BY <1>1, <1>2, <1>8 DEF Advance, service, UploadsFollow, FlagIsExplained, OneAtATime
  <1>9. CASE Elsewhere
    BY <1>1, <1>2, <1>3, <1>9 DEF Elsewhere, UploadsFollow, FlagIsExplained, OneAtATime
  <1>10. CASE Beside
    BY <1>1, <1>2, <1>3, <1>10 DEF Beside, UploadsFollow, FlagIsExplained, OneAtATime
  <1>11. QED
    BY <1>4, <1>5, <1>6, <1>7, <1>8, <1>9, <1>10, UploadSteps

(* What the service decided stays decided, and what it holds stays there.  *)
LEMMA ServiceFollowsStep ==
    ASSUME InterfaceInv, [Next]_vars
    PROVE  ServiceFollows'
  <1>1. TypeOK /\ RunFollows /\ UploadsFollow /\ ServiceFollows
    BY DEF InterfaceInv
  <1>2. /\ Current \in Nat /\ DOMAIN sent = 1 .. Current
        /\ \A a \in DOMAIN sent : a \in Attempts
        /\ MaxAttempts \in Nat
    BY <1>1, SentAreUploads, InterfaceAssumption DEF RunFollows, Attempts
  <1>3. /\ documents \subseteq documents'
        /\ \A a \in Attempts :
              \/ standing'[a] = standing[a]
              \/ /\ a \in DOMAIN sent /\ standing[a] = "open"
                 /\ UNCHANGED sent
                 /\ standing'[a] = "created"
                       => \E d \in documents' :
                             d.id = a /\ d.evaluation_id = sent[a].evaluation
                 /\ standing'[a] = "duplicate"
                       => Registry!Holds(sent[a].evaluation, sent[a].content)
    BY ServiceStep
  <1> DEFINE Kept(a) == /\ sent'[a].evaluation = sent[a].evaluation
                        /\ sent'[a].content = sent[a].content
             Follows(a) ==
                /\ standing[a] = "created"
                      => \E d \in documents :
                            d.id = a /\ d.evaluation_id = sent[a].evaluation
                /\ standing[a] = "duplicate"
                      => Registry!Holds(sent[a].evaluation, sent[a].content)
  <1>4. ASSUME NEW a \in DOMAIN sent, Kept(a) PROVE Follows(a)'
    <2>1. Follows(a)
      BY <1>1 DEF ServiceFollows
    <2>2. CASE standing'[a] = standing[a]
      BY <1>3, <1>4, <2>1, <2>2 DEF Registry!Holds
    <2>3. CASE standing'[a] # standing[a]
      BY <1>2, <1>3, <1>4, <2>3 DEF Registry!Holds
    <2>4. QED
      BY <2>2, <2>3
  <1>5. ASSUME NEW o \in Outcomes, 0 < Current, Outcome(o), UNCHANGED service,
               o \in {"received", "announced"} => standing[Current] = "created"
        PROVE  ServiceFollows'
    <2>1. /\ DOMAIN sent' = DOMAIN sent /\ Current' = Current /\ Current \in DOMAIN sent
          /\ \A a \in DOMAIN sent :
                /\ Kept(a)
                /\ sent'[a].outcome = IF a = Current THEN o ELSE sent[a].outcome
      BY <1>1, <1>5, OutcomeStep
    <2>2. \A a \in DOMAIN sent' : Follows(a)'
      BY <1>4, <2>1
    <2>3. standing' = standing
      BY <1>5 DEF service
    <2> HIDE DEF Kept
    <2>4. \A a \in DOMAIN sent' :
             sent'[a].outcome \in {"received", "announced"} => standing'[a] = "created"
      BY <1>1, <1>5, <2>1, <2>3 DEF ServiceFollows
    <2>5. \A a \in Attempts : a > Current' => standing'[a] = "open"
      BY <1>1, <2>1, <2>3 DEF ServiceFollows
    <2>6. QED
      BY <2>2, <2>4, <2>5 DEF ServiceFollows
  <1>6. CASE Interrupted
    BY <1>1, <1>5, <1>6 DEF Interrupted, RunFollows, Outcomes
  <1>7. CASE Returned
    BY <1>1, <1>5, <1>7 DEF Returned, RunFollows, Outcomes
  <1>8. CASE pc = "announce" /\ Announce
    <2>1. 0 < Current /\ Outcome("announced") /\ UNCHANGED service
      BY <1>1, <1>8 DEF Announce, RunFollows
    <2>2. sent[Current].outcome = "received"
      BY <1>1, <1>2, <1>8, <2>1 DEF UploadsFollow
    <2>3. standing[Current] = "created"
      BY <1>1, <1>2, <2>1, <2>2 DEF ServiceFollows
    <2>4. QED
      BY <1>5, <2>1, <2>3 DEF Outcomes
  <1>9. CASE Sent
    <2> DEFINE new == [evaluation |-> selected, content |-> Uploader.file,
                       generation |-> generation, outcome |-> "waiting"]
    <2>1. new \in Uploads /\ sent' = Append(sent, new)
      BY <1>1, <1>9 DEF Sent, Uploads, Outcomes, TypeOK
    <2>2. new.outcome = "waiting" /\ standing' = standing /\ documents' = documents
      BY <1>9 DEF Sent, service
    <2> HIDE DEF new
    <2>3. /\ DOMAIN sent' = DOMAIN sent \cup {Current + 1} /\ Current' = Current + 1
          /\ \A a \in DOMAIN sent : sent'[a] = sent[a]
          /\ sent'[Current + 1].outcome = "waiting"
      BY <1>1, <2>1, <2>2, AppendStep
    <2>4. standing'[Current + 1] = "open"
      <3>1. Current + 1 \in Attempts
        BY <1>2, <1>9 DEF Attempts, Sent
      <3>2. QED
        BY <1>1, <1>2, <2>2, <3>1 DEF ServiceFollows
    <2>5. \A a \in DOMAIN sent' : Follows(a)'
      BY <1>4, <2>3, <2>4
    <2>6. \A a \in DOMAIN sent' :
             sent'[a].outcome \in {"received", "announced"} => standing'[a] = "created"
      BY <1>1, <2>2, <2>3 DEF ServiceFollows
    <2>7. \A a \in Attempts : a > Current' => standing'[a] = "open"
      BY <1>1, <1>2, <2>2, <2>3 DEF ServiceFollows, Attempts
    <2>8. QED
      BY <2>5, <2>6, <2>7 DEF ServiceFollows
  <1>10. CASE UNCHANGED sent
    <2>1. \A a \in DOMAIN sent' : Follows(a)'
      BY <1>4, <1>10
    <2>2. \A a \in DOMAIN sent' :
             sent'[a].outcome \in {"received", "announced"} => standing'[a] = "created"
      BY <1>1, <1>2, <1>3, <1>10 DEF ServiceFollows
    <2>3. \A a \in Attempts : a > Current' => standing'[a] = "open"
      BY <1>1, <1>2, <1>3, <1>10 DEF ServiceFollows, Current
    <2>4. QED
      BY <2>1, <2>2, <2>3 DEF ServiceFollows
  <1>11. QED
    BY <1>6, <1>7, <1>8, <1>9, <1>10, UploadSteps DEF Elsewhere, Beside, Advance

(* Every upload that was announced is of an earlier uploader than the next. *)
LEMMA GenerationsFollowStep ==
    ASSUME InterfaceInv, [Next]_vars
    PROVE  GenerationsFollow' /\ NoResendAfterSuccess'
  <1>1. TypeOK /\ RunFollows /\ UploadsFollow /\ GenerationsFollow /\ NoResendAfterSuccess
    BY DEF InterfaceInv
  <1>2. /\ Current \in Nat /\ DOMAIN sent = 1 .. Current /\ Current' = Len(sent')
        /\ \A a \in DOMAIN sent : sent[a].generation \in Nat
        /\ generation \in Nat
        /\ uploader # None => uploader.generation \in Nat
        /\ Uploader.generation = generation
    BY <1>1, SentAreUploads, InterfaceAssumption DEF TypeOK, Uploads, Uploader,
       Optional, Current
  <1>3. uploader' \in {uploader, Uploader, None}
           => (uploader' # None => uploader'.generation <= generation)
    BY <1>1, <1>2 DEF GenerationsFollow
  <1>4. ASSUME NEW o \in Outcomes, 0 < Current, Outcome(o),
               generation' = generation, uploader' = uploader,
               o = "announced" => sent[Current].generation < generation,
               pc' = "advance" => pc = "uploading",
               pc' \notin {"uploading", "announce"}
        PROVE  GenerationsFollow' /\ NoResendAfterSuccess'
    <2>1. /\ DOMAIN sent' = DOMAIN sent /\ Current' = Current /\ Current \in DOMAIN sent
          /\ \A a \in DOMAIN sent :
                /\ sent'[a].generation = sent[a].generation
                /\ sent'[a].outcome = IF a = Current THEN o ELSE sent[a].outcome
      BY <1>1, <1>4, OutcomeStep
    <2>2. GenerationsFollow'
      BY <1>1, <1>2, <1>4, <2>1 DEF GenerationsFollow
    <2>3. NoResendAfterSuccess'
      BY <1>1, <1>2, <2>1 DEF NoResendAfterSuccess
    <2>4. QED
      BY <2>2, <2>3
  <1>5. CASE Interrupted
    BY <1>1, <1>4, <1>5 DEF Interrupted, RunFollows, Outcomes, session
  <1>6. CASE Returned
    BY <1>1, <1>4, <1>6 DEF Returned, RunFollows, Outcomes
  <1>7. CASE pc = "announce" /\ Announce
    <2>1. /\ 0 < Current /\ Outcome("announced") /\ pc' = "greet"
          /\ generation' = generation /\ uploader' = uploader
      BY <1>1, <1>7 DEF Announce, RunFollows, browser
    <2>2. sent[Current].generation < generation
      BY <1>1, <1>2, <1>7, <2>1 DEF UploadsFollow, GenerationsFollow
    <2>3. QED
      BY <1>4, <2>1, <2>2 DEF Outcomes
  <1>8. CASE pc = "advance" /\ Advance
    <2>1. /\ pc' = "announce" /\ generation' = generation + 1
          /\ UNCHANGED <<sent, uploader>>
      BY <1>8 DEF Advance, browser
    <2>2. GenerationsFollow'
      BY <1>1, <1>2, <1>8, <2>1 DEF GenerationsFollow, OutOfDate
    <2>3. NoResendAfterSuccess'
      BY <1>1, <2>1 DEF NoResendAfterSuccess
    <2>4. QED
      BY <2>2, <2>3
  <1>9. CASE Sent
    <2> DEFINE new == [evaluation |-> selected, content |-> Uploader.file,
                       generation |-> generation, outcome |-> "waiting"]
    <2>1. new \in Uploads /\ sent' = Append(sent, new)
      BY <1>1, <1>9 DEF Sent, Uploads, Outcomes, TypeOK
    <2>2. new.outcome = "waiting" /\ new.generation = generation
      OBVIOUS
    <2> HIDE DEF new
    <2>3. /\ DOMAIN sent' = DOMAIN sent \cup {Current + 1} /\ Current' = Current + 1
          /\ \A a \in DOMAIN sent : sent'[a] = sent[a]
          /\ sent'[Current + 1].outcome = "waiting"
          /\ sent'[Current + 1].generation = generation
      BY <1>1, <2>1, <2>2, AppendStep
    <2>4. /\ generation' = generation /\ pc' = "uploading" /\ uploader' = Uploader
      BY <1>9 DEF Sent
    <2>5. GenerationsFollow'
      BY <1>1, <1>2, <1>3, <2>3, <2>4 DEF GenerationsFollow
    <2>6. NoResendAfterSuccess'
      BY <1>1, <1>2, <2>3 DEF NoResendAfterSuccess, GenerationsFollow
    <2>7. QED
      BY <2>5, <2>6
  <1>10. CASE Elsewhere
    <2>1. NoResendAfterSuccess'
      BY <1>1, <1>10 DEF Elsewhere, NoResendAfterSuccess
    <2>2. GenerationsFollow'
      BY <1>1, <1>2, <1>3, <1>10 DEF Elsewhere, GenerationsFollow
    <2>3. QED
      BY <2>1, <2>2
  <1>11. CASE Beside
    <2>1. NoResendAfterSuccess'
      BY <1>1, <1>11 DEF Beside, NoResendAfterSuccess
    <2>2. GenerationsFollow'
      BY <1>1, <1>2, <1>11 DEF Beside, GenerationsFollow, OutOfDate
    <2>3. QED
      BY <2>1, <2>2
  <1>12. QED
    BY <1>5, <1>6, <1>7, <1>8, <1>9, <1>10, <1>11, UploadSteps

(* The list of uploads stays one, and within its bound.                    *)
LEMMA SentStep ==
    ASSUME InterfaceInv, [Next]_vars
    PROVE  /\ sent' \in Seq(Uploads) /\ Current' \in Nat /\ Current' <= MaxAttempts
           /\ Current <= Current'
           /\ pc' \in {"uploading", "advance", "announce"} => 0 < Current'
  <1>1. TypeOK /\ RunFollows
    BY DEF InterfaceInv
  <1>2. /\ sent \in Seq(Uploads) /\ Current \in Nat /\ Current <= MaxAttempts
        /\ Current' = Len(sent') /\ MaxAttempts \in Nat
        /\ pc \in {"uploading", "advance", "announce"} => 0 < Current
    BY <1>1, SentAreUploads, InterfaceAssumption DEF RunFollows, Current
  <1>3. ASSUME NEW o \in Outcomes, 0 < Current, Outcome(o)
        PROVE  sent' \in Seq(Uploads) /\ Current' = Current
    BY <1>1, <1>3, OutcomeStep
  <1>4. CASE Interrupted \/ Returned
    BY <1>2, <1>3, <1>4 DEF Interrupted, Returned, Outcomes
  <1>5. CASE pc = "announce" /\ Announce
    BY <1>2, <1>3, <1>5 DEF Announce, Outcomes
  <1>6. CASE Sent
    <2> DEFINE new == [evaluation |-> selected, content |-> Uploader.file,
                       generation |-> generation, outcome |-> "waiting"]
    <2>1. new \in Uploads /\ sent' = Append(sent, new)
      BY <1>1, <1>6 DEF Sent, Uploads, Outcomes, TypeOK
    <2> HIDE DEF new
    <2>2. sent' \in Seq(Uploads) /\ Current' = Current + 1
      BY <1>1, <2>1, AppendStep
    <2>3. QED
      BY <1>2, <1>6, <2>2 DEF Sent
  <1>7. CASE pc = "advance" /\ Advance
    BY <1>2, <1>7 DEF Advance, Current
  <1>8. CASE Elsewhere \/ Beside
    BY <1>2, <1>8 DEF Elsewhere, Beside, Current
  <1>9. QED
    BY <1>4, <1>5, <1>6, <1>7, <1>8, UploadSteps

(* The run keeps the evaluation, loses it, or takes the one the user chose. *)
LEMMA SelectCases ==
    ASSUME InterfaceInv, SelectEvaluation
    PROVE  \/ /\ pc' = "idle" /\ trigger' = "none" /\ selector' = None
              /\ uploader' = None /\ selected' = selected
           \/ \E value \in Optional(evaluations) \cap {selected, chosen} :
                 /\ selected' = value
                 /\ selector' = [options |-> evaluations, default |-> selected,
                                 value |-> value]
                 /\ \/ pc' = "upload" /\ value # None /\ UNCHANGED <<trigger, uploader>>
                    \/ pc' = "idle" /\ trigger' = "none" /\ uploader' = None
  <1>1. selected \in Optional(evaluations) /\ SelectionsFollow
    BY DEF InterfaceInv, RunFollows
  <1>2. (IF selected \in evaluations THEN selected ELSE None) = selected
    BY <1>1 DEF Optional
  <1>3. CASE Finish({}) /\ UNCHANGED selected
    BY <1>3 DEF Finish
  <1>4. CASE evaluations = {} /\ selected' = None /\ Finish({})
    BY <1>1, <1>4 DEF Finish, Optional
  <1>5. CASE Select(selected)
    <2> DEFINE value == Selectbox(evaluations, selected)
    <2>1. value \in Optional(evaluations) \cap {selected, chosen}
      BY <1>1 DEF Selectbox, SelectionsFollow
    <2> HIDE DEF value
    <2>2. /\ selected' = value
          /\ selector' = [options |-> evaluations, default |-> selected, value |-> value]
          /\ IF value = None
             THEN pc' = "idle" /\ trigger' = "none" /\ uploader' = None
             ELSE pc' = "upload" /\ UNCHANGED <<trigger, uploader>>
      BY <1>5 DEF Select, value
    <2>3. QED
      BY <2>1, <2>2
  <1>6. QED
    BY <1>2, <1>3, <1>4, <1>5 DEF SelectEvaluation

(* What is selected exists, and comes from the user.                       *)
LEMMA SelectionsFollowStep ==
    ASSUME InterfaceInv, [Next]_vars
    PROVE  /\ RunFollows' /\ SelectionsFollow'
           /\ selected' # selected => selected' = chosen'
  <1>1. TypeOK /\ RunFollows /\ SelectionsFollow
    BY DEF InterfaceInv
  <1>2. /\ Current' <= MaxAttempts /\ evaluations \subseteq evaluations'
        /\ pc' \in {"uploading", "advance", "announce"} => 0 < Current'
    BY SentStep, ServiceStep
  <1> DEFINE Follows == /\ selected' \in Optional(evaluations')
                        /\ pc' \in {"upload", "uploading", "advance", "announce", "list"}
                              => selected' # None
                        /\ SelectionsFollow'
                        /\ selected' # selected => selected' = chosen'
  <1> SUFFICES Follows
    BY <1>2 DEF RunFollows
  <1> USE DEF service, session, browser
  <1>3. ASSUME UNCHANGED <<evaluations, selected, selector, chosen>>,
               \/ UNCHANGED pc \/ pc' \in {"greet", "create", "select"}
               \/ /\ pc \in {"upload", "uploading", "advance", "announce"}
                  /\ pc' \in {"uploading", "advance", "announce", "list"}
        PROVE  Follows
    BY <1>1, <1>3 DEF RunFollows, SelectionsFollow
  <1>4. ASSUME NEW e \in Evaluations, Choose(e) PROVE Follows
    BY <1>1, <1>4 DEF Choose, Rerun, RunFollows, SelectionsFollow, TypeOK, Optional
  <1>5. ASSUME NEW c \in Contents, PickFile(c) PROVE Follows
    BY <1>3, <1>5 DEF PickFile
  <1>6. CASE Submit \/ AskCreation
    BY <1>3, <1>6 DEF Submit, AskCreation, Rerun
  <1>7. CASE Greet
    BY <1>1, <1>7 DEF Greet, Finish, RunFollows, SelectionsFollow
  <1>8. CASE CreateEvaluation
    <2>1. CASE UNCHANGED <<evaluations, selected, selector, chosen>> /\ pc' = "select"
      BY <1>3, <2>1
    <2>2. ASSUME NEW e \in Evaluations \ evaluations, evaluations' = evaluations \cup {e},
                 selected' = e, chosen' = e, pc' = "greet", selector' = selector
          PROVE  Follows
      BY <1>1, <2>2 DEF SelectionsFollow, Optional
    <2>3. QED
      BY <1>8, <2>1, <2>2 DEF CreateEvaluation
  <1>9. CASE SelectEvaluation
    <2>1. evaluations' = evaluations /\ chosen' = chosen
      BY <1>9 DEF SelectEvaluation
    <2>2. CASE pc' = "idle" /\ selector' = None /\ selected' = selected
      BY <1>1, <2>1, <2>2 DEF RunFollows, SelectionsFollow
    <2>3. ASSUME NEW value \in Optional(evaluations) \cap {selected, chosen},
                 selected' = value,
                 selector' = [options |-> evaluations, default |-> selected,
                              value |-> value],
                 (pc' = "upload" /\ value # None) \/ pc' = "idle"
          PROVE  Follows
      BY <2>1, <2>3 DEF SelectionsFollow
    <2>4. QED
      BY <1>9, <2>2, <2>3, SelectCases
  <1>10. CASE RenderUpload
    BY <1>3, <1>10, RenderCases DEF RenderUpload, Sent
  <1>11. CASE Receive \/ GiveUp \/ Advance \/ Announce
    BY <1>3, <1>11 DEF Receive, GiveUp, Return, Advance, Announce
  <1>12. CASE ListDocuments
    BY <1>1, <1>12 DEF ListDocuments, Finish, RunFollows, SelectionsFollow
  <1>13. ASSUME NEW a \in DOMAIN sent, Serve(a) PROVE Follows
    <2>1. evaluations' = evaluations
      BY <1>13 DEF Serve, Registry!Register, Registry!Refuse
    <2>2. QED
      BY <1>3, <1>13, <2>1 DEF Serve
  <1>14. ASSUME NEW e \in Evaluations, OthersCreate(e) PROVE Follows
    BY <1>1, <1>14 DEF OthersCreate, RunFollows, SelectionsFollow, Optional
  <1>15. CASE UNCHANGED vars
    BY <1>3, <1>15 DEF vars
  <1>16. QED
    BY <1>4, <1>5, <1>6, <1>7, <1>8, <1>9, <1>10, <1>11, <1>12, <1>13, <1>14, <1>15
       DEF Next, Run

(* A message on the page is about the last upload, and the list below it   *)
(* was fetched after it.                                                   *)
LEMMA PagesFollowStep ==
    ASSUME InterfaceInv, [Next]_vars
    PROVE  PagesFollow' /\ UserIsToldTheTruth' /\ UploadIsShown'
  <1> DEFINE Truth == "duplicate" \in page /\ pc \in {"list", "idle"}
                      => Registry!Holds(sent[Current].evaluation, sent[Current].content)
  <1>1. /\ TypeOK /\ RunFollows /\ UploadsFollow /\ ServiceFollows
        /\ GenerationsFollow /\ PagesFollow /\ Truth /\ UploadIsShown
    BY DEF InterfaceInv, UserIsToldTheTruth
  <1>2. /\ Current \in Nat /\ DOMAIN sent = 1 .. Current /\ Current' = Len(sent')
        /\ 0 < Current => Current \in Attempts
        /\ documents \subseteq documents'
        /\ flash \in Flashes
    BY <1>1, SentAreUploads, ServiceStep, InterfaceAssumption
       DEF RunFollows, TypeOK, Attempts, Current
  <1>3. \A a \in DOMAIN sent' : sent'[a].outcome \in {"received", "announced"}
           => \E d \in documents' : d.id = a
    <2>1. ServiceFollows'
      BY ServiceFollowsStep
    <2>2. QED
      BY <2>1 DEF ServiceFollows
  <1> DEFINE Pages == PagesFollow' /\ Truth' /\ UploadIsShown'
  <1> SUFFICES Pages
    BY <1>3 DEF UserIsToldTheTruth
  <1> HIDE DEF Truth
  <1> USE DEF service, session, browser, Announces, OutOfDate
  <1>4. ASSUME pc' = "greet", UNCHANGED <<flash, generation, uploader>>,
               flash # None => UNCHANGED sent
        PROVE  Pages
    BY <1>1, <1>4 DEF PagesFollow, Truth, UploadIsShown, Current
  <1>5. ASSUME UNCHANGED <<pc, flash, page, table, sent, generation, selected>>,
               \/ uploader' = uploader
               \/ uploader # None /\ uploader'.generation = uploader.generation
        PROVE  Pages
    <2>1. PagesFollow'
      BY <1>1, <1>5 DEF PagesFollow, Current
    <2>2. Truth'
      BY <1>1, <1>2, <1>5 DEF Truth, Current, Registry!Holds
    <2>3. UploadIsShown'
      BY <1>1, <1>5 DEF UploadIsShown, Current
    <2>4. QED
      BY <2>1, <2>2, <2>3
  <1>6. ASSUME NEW why, Rerun(why), uploader' = uploader PROVE Pages
    BY <1>1, <1>4, <1>6 DEF Rerun, PagesFollow
  <1>7. CASE Submit \/ AskCreation \/ \E e \in Evaluations : Choose(e)
    BY <1>6, <1>7 DEF Submit, AskCreation, Choose
  <1>8. ASSUME NEW c \in Contents, PickFile(c) PROVE Pages
    BY <1>1, <1>5, <1>8 DEF PickFile, TypeOK, Optional
  <1>9. CASE Greet
    <2>1. /\ pc = "greet" /\ pc' \in {"create", "idle"} /\ flash' = None /\ table' = None
          /\ page' \subseteq ({flash} \ {None}) \cup {"unavailable"}
          /\ pc' = "create" => uploader' = uploader
          /\ UNCHANGED <<sent, generation>>
      BY <1>9 DEF Greet, Finish
    <2>2. "duplicate" \notin page'
      BY <1>2, <2>1 DEF Flashes
    <2>3. "uploaded" \in page' => flash # None /\ flash = "uploaded"
      BY <2>1
    <2>4. PagesFollow'
      BY <1>1, <2>1, <2>2, <2>3 DEF PagesFollow, Current
    <2>5. QED
      BY <2>1, <2>2, <2>4 DEF Truth, UploadIsShown
  <1>10. CASE CreateEvaluation
    <2>1. /\ pc = "create" /\ flash = None
          /\ UNCHANGED <<sent, generation, uploader, table>>
      BY <1>1, <1>10 DEF CreateEvaluation, PagesFollow
    <2>2. CASE flash' = "created" /\ pc' = "greet"
      BY <2>2 DEF PagesFollow, Truth, UploadIsShown
    <2>3. CASE flash' = flash /\ pc' = "select" /\ page' \subseteq page \cup {"failed"}
      BY <1>1, <2>1, <2>3 DEF PagesFollow, Truth, UploadIsShown, Current
    <2>4. QED
      BY <1>10, <2>2, <2>3 DEF CreateEvaluation
  <1>11. CASE SelectEvaluation
    <2>1. /\ pc = "select" /\ flash = None /\ flash' = flash /\ table = None
          /\ page' \subseteq page \cup {"failed"}
          /\ UNCHANGED <<sent, generation, table>>
      BY <1>1, <1>11 DEF SelectEvaluation, PagesFollow
    <2>2. pc' = "idle" \/ (pc' = "upload" /\ uploader' = uploader)
      BY <1>11, SelectCases
    <2>3. QED
      BY <1>1, <2>1, <2>2 DEF PagesFollow, Truth, UploadIsShown, Current
  <1>12. CASE RenderUpload
    <2>1. /\ pc = "upload" /\ flash = None /\ flash' = flash /\ table = None
          /\ UNCHANGED table
      BY <1>1, <1>12 DEF RenderUpload, PagesFollow
    <2>2. CASE Sent
      <3>1. "uploaded" \notin page
        BY <1>1, <2>1, <2>2 DEF Sent, PagesFollow, Uploader
      <3>2. QED
        BY <1>1, <2>1, <2>2, <3>1 DEF Sent, PagesFollow, Truth, UploadIsShown
    <2>3. CASE /\ pc' = "list" /\ page' \subseteq page \cup {"select_pdf", "blocked"}
               /\ UNCHANGED sent
      BY <1>1, <2>1, <2>3 DEF PagesFollow, Truth, UploadIsShown, Current
    <2>4. QED
      BY <1>12, <2>2, <2>3, RenderCases
  <1>13. ASSUME pc = "uploading",
                NEW o \in Outcomes, NEW message, NEW next,
                Return(o, message, next),
                \/ message = {} /\ next = "advance"
                \/ /\ next = "list" /\ "uploaded" \notin message
                   /\ "duplicate" \in message => standing[Current] = "duplicate"
         PROVE  Pages
    <2>1. /\ flash = None /\ flash' = flash /\ table = None
          /\ "uploaded" \notin page /\ "duplicate" \notin page
          /\ 0 < Current
          /\ pc' = next /\ page' = page \cup message /\ Outcome(o)
          /\ UNCHANGED <<table, documents>>
      BY <1>1, <1>13 DEF Return, PagesFollow, RunFollows
    <2>2. /\ Current' = Current /\ Current \in DOMAIN sent
          /\ sent'[Current].evaluation = sent[Current].evaluation
          /\ sent'[Current].content = sent[Current].content
      BY <1>1, <2>1, OutcomeStep
    <2>3. standing[Current] = "duplicate"
             => Registry!Holds(sent[Current].evaluation, sent[Current].content)
      BY <1>1, <2>2 DEF ServiceFollows
    <2>4. Truth'
      BY <1>13, <2>1, <2>2, <2>3 DEF Truth, Registry!Holds
    <2>5. PagesFollow' /\ UploadIsShown'
      BY <1>13, <2>1 DEF PagesFollow, UploadIsShown
    <2>6. QED
      BY <2>4, <2>5
  <1>14. CASE Receive
    <2>1. CASE Return("received", {}, "advance")
      BY <1>13, <1>14, <2>1, ReceiveCases DEF Outcomes
    <2>2. ASSUME NEW message \in Messages \ {"uploaded", "created"},
                 message = "duplicate" => standing[Current] = "duplicate",
                 Return("refused", {message}, "list")
          PROVE  Pages
      <3> DEFINE messages == {message}
      <3>1. /\ "uploaded" \notin messages
            /\ "duplicate" \in messages => standing[Current] = "duplicate"
            /\ Return("refused", messages, "list")
        BY <2>2
      <3> HIDE DEF messages
      <3>2. QED
        BY <1>13, <1>14, <3>1, ReceiveCases DEF Outcomes
    <2>3. QED
      BY <1>14, <2>1, <2>2, ReceiveCases
  <1>15. CASE GiveUp
    BY <1>13, <1>15 DEF GiveUp, Outcomes
  <1>16. CASE Advance
    BY <1>1, <1>16 DEF Advance, PagesFollow, Truth, UploadIsShown
  <1>17. CASE Announce
    <2>1. /\ pc = "announce" /\ pc' = "greet" /\ 0 < Current /\ Outcome("announced")
          /\ OutOfDate /\ OutOfDate'
      BY <1>1, <1>17 DEF Announce, RunFollows, GenerationsFollow
    <2>2. Current' = Current /\ sent'[Current].outcome = "announced"
      BY <1>1, <2>1, OutcomeStep DEF Outcomes
    <2>3. QED
      BY <2>1, <2>2 DEF PagesFollow, Truth, UploadIsShown
  <1>18. CASE ListDocuments
    <2>1. /\ pc = "list" /\ pc' = "idle" /\ flash = None /\ flash' = flash /\ table = None
          /\ page' \subseteq page \cup {"failed"}
          /\ table' \in {table, Listed(selected)}
          /\ UNCHANGED <<sent, documents, selected>>
      BY <1>1, <1>18 DEF ListDocuments, Finish, PagesFollow
    <2>2. PagesFollow' /\ Truth'
      BY <1>1, <2>1 DEF PagesFollow, Truth, Current, Registry!Holds
    <2>3. UploadIsShown'
      <3>1. SUFFICES ASSUME "uploaded" \in page, selected = sent[Current].evaluation,
                            table' = Listed(selected)
                     PROVE  \E d \in table' : d.id = Current
        BY <2>1 DEF UploadIsShown, Current
      <3>2. Current \in DOMAIN sent /\ sent[Current].outcome = "announced"
        BY <1>1, <1>2, <2>1, <3>1 DEF PagesFollow
      <3>3. \E d \in documents : d.id = Current /\ d.evaluation_id = selected
        BY <1>1, <3>1, <3>2 DEF ServiceFollows
      <3>4. QED
        BY <3>1, <3>3 DEF Listed
    <2>4. QED
      BY <2>2, <2>3
  <1>19. ASSUME NEW a \in DOMAIN sent, Serve(a) PROVE Pages
    BY <1>5, <1>19 DEF Serve
  <1>20. ASSUME NEW e \in Evaluations, OthersCreate(e) PROVE Pages
    BY <1>5, <1>20 DEF OthersCreate
  <1>21. CASE UNCHANGED vars
    BY <1>5, <1>21 DEF vars
  <1>22. QED
    BY <1>7, <1>8, <1>9, <1>10, <1>11, <1>12, <1>14, <1>15, <1>16, <1>17,
       <1>18, <1>19, <1>20, <1>21 DEF Next, Run

(* Every step leaves the variables in their ranges.                        *)
LEMMA TypeStep ==
    ASSUME InterfaceInv, [Next]_vars
    PROVE  TypeOK'
  <1>1. TypeOK
    BY DEF InterfaceInv
  <1>2. /\ evaluations' \subseteq Evaluations /\ documents' \subseteq Registry!Document
        /\ standing' \in [Attempts -> {"open", "created"} \cup Registry!Errors]
        /\ evaluations \subseteq Evaluations /\ evaluations \subseteq evaluations'
        /\ documents \subseteq documents'
    BY <1>1, ServiceStep DEF TypeOK
  <1>3. sent' \in Seq([evaluation : Evaluations, content : Contents,
                       generation : Nat, outcome : Outcomes])
    BY SentStep DEF Uploads
  <1>4. generation' \in 0 .. MaxAttempts
    <2>1. generation' \in Nat
      <3>1. generation \in Nat
        BY <1>1, InterfaceAssumption DEF TypeOK
      <3>2. generation' \in {generation, generation + 1}
        BY UploadSteps DEF Interrupted, Returned, Sent, Announce, Advance, Elsewhere,
           Beside, session
      <3>3. QED
        BY <3>1, <3>2
    <2>2. generation' <= Current' /\ Current' <= MaxAttempts /\ Current' \in Nat
      BY GenerationsFollowStep, SentStep DEF GenerationsFollow
    <2>3. QED
      BY <2>1, <2>2, InterfaceAssumption
  <1> DEFINE Selector == Optional([options : SUBSET Evaluations,
                             default : Optional(Evaluations),
                             value : Optional(Evaluations)])
             Drawn == Optional([generation : Nat, file : Optional(Contents)])
             Ranges == /\ selected' \in Optional(Evaluations) /\ chosen' \in Optional(Evaluations)
                       /\ in_progress' \in BOOLEAN /\ flash' \in Flashes
                       /\ selector' \in Selector /\ uploader' \in Drawn
                       /\ pc' \in Steps /\ trigger' \in {"none", "create", "upload"}
                       /\ page' \subseteq Messages
                       /\ table' \in Optional(SUBSET documents')
  <1>5. /\ selected \in Optional(Evaluations) /\ chosen \in Optional(Evaluations)
        /\ in_progress \in BOOLEAN /\ flash \in Flashes
        /\ selector \in Selector /\ uploader \in Drawn
        /\ pc \in Steps /\ trigger \in {"none", "create", "upload"}
        /\ page \subseteq Messages
        /\ None \in Selector /\ None \in Drawn /\ Uploader \in Drawn
    BY <1>1, InterfaceAssumption DEF TypeOK, Optional, Uploader
  <1>6. \A t \in Optional(SUBSET documents) : t \in Optional(SUBSET documents')
    BY <1>2 DEF Optional
  <1>7. table \in Optional(SUBSET documents) /\ None \in Optional(SUBSET documents')
    BY <1>1 DEF TypeOK, Optional
  <1> SUFFICES Ranges
    BY <1>2, <1>3, <1>4 DEF TypeOK, Outcomes
  <1> HIDE DEF Selector, Drawn
  <1> USE DEF session, browser, Steps
  <1>8. ASSUME NEW e \in Evaluations, Choose(e) PROVE Ranges
    <2>1. selector' \in Selector
      BY <1>5, <1>8 DEF Choose, Selector, Optional
    <2>2. QED
      BY <1>5, <1>6, <1>7, <1>8, <2>1 DEF Choose, Rerun, Optional
  <1>9. ASSUME NEW c \in Contents, PickFile(c) PROVE Ranges
    <2>1. uploader' \in Drawn
      BY <1>5, <1>9 DEF PickFile, Drawn, Optional
    <2>2. QED
      BY <1>5, <1>6, <1>7, <1>9, <2>1 DEF PickFile
  <1>10. CASE Submit \/ AskCreation
    BY <1>5, <1>6, <1>7, <1>10 DEF Submit, AskCreation, Rerun
  <1>11. CASE Greet
    BY <1>5, <1>7, <1>11 DEF Greet, Finish, Flashes, Messages
  <1>12. CASE CreateEvaluation
    <2>1. page' \subseteq Messages
      BY <1>5, <1>12 DEF CreateEvaluation, Messages
    <2>2. QED
      BY <1>5, <1>6, <1>7, <1>12, <2>1 DEF CreateEvaluation, Flashes, Optional
  <1>13. CASE SelectEvaluation
    <2>1. UNCHANGED <<in_progress, flash, table, chosen>>
      BY <1>13 DEF SelectEvaluation
    <2>2. page' \subseteq Messages
      BY <1>5, <1>13 DEF SelectEvaluation, Messages
    <2>3. CASE /\ pc' = "idle" /\ trigger' = "none" /\ selector' = None
               /\ uploader' = None /\ selected' = selected
      BY <1>5, <1>6, <1>7, <2>1, <2>2, <2>3
    <2>4. ASSUME NEW value \in Optional(evaluations) \cap {selected, chosen},
                 selected' = value,
                 selector' = [options |-> evaluations, default |-> selected,
                              value |-> value],
                 \/ pc' = "upload" /\ value # None /\ UNCHANGED <<trigger, uploader>>
                 \/ pc' = "idle" /\ trigger' = "none" /\ uploader' = None
          PROVE  Ranges
      <3>1. value \in Optional(Evaluations)
        BY <1>2, <2>4 DEF Optional
      <3>2. selector' \in Selector
        BY <1>2, <1>5, <2>4, <3>1 DEF Selector, Optional
      <3>3. QED
        BY <1>5, <1>6, <1>7, <2>1, <2>2, <2>4, <3>1, <3>2
    <2>5. QED
      BY <1>13, <2>3, <2>4, SelectCases
  <1>14. CASE RenderUpload
    <2>1. /\ uploader' = Uploader /\ in_progress' \in BOOLEAN /\ pc' \in Steps
          /\ page' \subseteq Messages
      BY <1>5, <1>14, RenderCases DEF RenderUpload, Sent, Messages
    <2>2. QED
      BY <1>5, <1>6, <1>7, <1>14, <2>1 DEF RenderUpload
  <1>15. ASSUME NEW o, NEW message \in SUBSET Messages, NEW next \in Steps,
                Return(o, message, next)
         PROVE  Ranges
    BY <1>5, <1>6, <1>7, <1>15 DEF Return
  <1>16. CASE Receive
    <2>1. ASSUME NEW message \in Messages, Return("refused", {message}, "list")
          PROVE  Ranges
      BY <1>15, <2>1 DEF Steps
    <2>2. QED
      BY <1>15, <1>16, <2>1, ReceiveCases DEF Steps
  <1>17. CASE GiveUp
    BY <1>15, <1>17 DEF GiveUp, Messages
  <1>18. CASE Advance \/ Announce
    BY <1>5, <1>6, <1>7, <1>18 DEF Advance, Announce, Flashes
  <1>19. CASE ListDocuments
    <2>1. table' \in Optional(SUBSET documents')
      BY <1>2, <1>6, <1>7, <1>19 DEF ListDocuments, Listed, Optional
    <2>2. QED
      BY <1>5, <1>19, <2>1 DEF ListDocuments, Finish, Messages
  <1>20. CASE UNCHANGED <<session, browser, pc, trigger, page, table, chosen>>
    BY <1>5, <1>6, <1>7, <1>20
  <1>21. QED
    BY <1>8, <1>9, <1>10, <1>11, <1>12, <1>13, <1>14, <1>16, <1>17, <1>18, <1>19, <1>20
       DEF Next, Run, Serve, OthersCreate, vars

-----------------------------------------------------------------------------
(* The invariant, and what follows from it. *)

(* The invariant holds of every run of the page: the flag, the outcomes,   *)
(* the answers, the uploaders, the messages and the widgets go together,   *)
(* whatever the user, the service and other users do in between.           *)
THEOREM InterfaceInvariant == Spec => []InterfaceInv
  <1>1. Init => InterfaceInv
    <2> SUFFICES ASSUME Init PROVE InterfaceInv
      OBVIOUS
    <2>1. sent = <<>> /\ Current = 0 /\ DOMAIN sent = {}
      BY DEF Init, Current
    <2>2. /\ evaluations \subseteq Evaluations /\ documents = {}
          /\ standing = [a \in Attempts |-> "open"]
          /\ selected = None /\ in_progress = FALSE /\ generation = 0 /\ flash = None
          /\ selector = None /\ uploader = None /\ pc = "greet" /\ trigger = "none"
          /\ page = {} /\ table = None /\ chosen = None
      BY DEF Init, Registry!Init
    <2>3. TypeOK
      <3>1. sent \in Seq(Uploads)
        BY <2>1
      <3>2. /\ evaluations \subseteq Evaluations /\ documents \subseteq Registry!Document
            /\ standing \in [Attempts -> {"open", "created"} \cup Registry!Errors]
        BY <2>2
      <3>3. /\ generation \in 0 .. MaxAttempts /\ in_progress \in BOOLEAN
            /\ flash \in Flashes
            /\ pc \in Steps /\ trigger \in {"none", "create", "upload"}
            /\ page \subseteq Messages
        <4>1. generation \in 0 .. MaxAttempts
          BY <2>2, InterfaceAssumption
        <4>2. in_progress \in BOOLEAN /\ flash \in Flashes /\ page \subseteq Messages
          BY <2>2 DEF Flashes
        <4>3. pc \in Steps /\ trigger \in {"none", "create", "upload"}
          BY <2>2 DEF Steps
        <4>4. QED
          BY <4>1, <4>2, <4>3
      <3>4. /\ selected \in Optional(Evaluations) /\ chosen \in Optional(Evaluations)
            /\ table \in Optional(SUBSET documents)
            /\ selector \in Optional([options : SUBSET Evaluations,
                   default : Optional(Evaluations), value : Optional(Evaluations)])
            /\ uploader \in Optional([generation : Nat, file : Optional(Contents)])
        BY <2>2 DEF Optional
      <3>5. QED
        BY <3>1, <3>2, <3>3, <3>4 DEF TypeOK, Uploads, Outcomes
    <2>4. RunFollows /\ UploadsFollow /\ ServiceFollows /\ GenerationsFollow
      BY <2>1, <2>2, InterfaceAssumption DEF RunFollows, UploadsFollow, ServiceFollows,
         GenerationsFollow, Optional, Attempts
    <2>5. PagesFollow /\ SelectionsFollow
      BY <2>1, <2>2 DEF PagesFollow, SelectionsFollow, Announces
    <2>6. /\ FlagIsExplained /\ OneAtATime /\ UserIsToldTheTruth
          /\ NoResendAfterSuccess /\ UploadIsShown
      BY <2>1, <2>2 DEF FlagIsExplained, OneAtATime, UserIsToldTheTruth,
         NoResendAfterSuccess, UploadIsShown
    <2>7. QED
      BY <2>3, <2>4, <2>5, <2>6 DEF InterfaceInv
  <1>2. InterfaceInv /\ [Next]_vars => InterfaceInv'
    BY TypeStep, UploadsFollowStep, ServiceFollowsStep, GenerationsFollowStep,
       PagesFollowStep, SelectionsFollowStep DEF InterfaceInv
  <1>3. QED
    BY <1>1, <1>2, PTL DEF Spec

(* Every variable of the page and the service stays in its range; there    *)
(* are never more uploads than the session's bound.                        *)
THEOREM TypeCorrect == Spec => []TypeOK
  BY InterfaceInvariant, PTL DEF InterfaceInv

(* The flag that blocks a submission is up only while the run waits for    *)
(* its upload, or because an interaction cut off the run of the last one.  *)
THEOREM FlagsAreExplained == Spec => []FlagIsExplained
  BY InterfaceInvariant, PTL DEF InterfaceInv

(* However often the user clicks, one upload of the session at a time is   *)
(* in the service's hands, but for those the client gave up on.            *)
THEOREM UploadsTakeTurns == Spec => []OneAtATime
  BY InterfaceInvariant, PTL DEF InterfaceInv

(* What the page says of a document, the service holds.                    *)
THEOREM MessagesAreTrue == Spec => []UserIsToldTheTruth
  BY InterfaceInvariant, PTL DEF InterfaceInv

(* A new uploader after each success keeps the file from being sent again. *)
THEOREM SuccessIsNotRepeated == Spec => []NoResendAfterSuccess
  BY InterfaceInvariant, PTL DEF InterfaceInv

(* The list under "uploaded" has the document.                             *)
THEOREM UploadsAreShown == Spec => []UploadIsShown
  BY InterfaceInvariant, PTL DEF InterfaceInv

(* No rerun, no new list of evaluations and no replaced widget moves the   *)
(* selection to an evaluation the user did not ask for.                    *)
THEOREM SelectionsAreTheUsers == Spec => SelectionFollowsUser
  <1>1. InterfaceInv /\ [Next]_vars => [selected' # selected => selected' = chosen']_vars
    BY SelectionsFollowStep
  <1>2. QED
    BY <1>1, InterfaceInvariant, PTL DEF Spec, SelectionFollowsUser

=============================================================================
