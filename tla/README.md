# Verification of the technological merit assistant

TLA+ specifications of the document ingestion of this repository, checked with
TLC and, for the results that matter most, proved with TLAPS.  Paths below are
relative to the repository (`src/merit_assistant/...`); `PROJECT.json` maps
every definition to the lines it models.

## 1. The system

A FastAPI process receives PDF documents for *evaluations*.  A document is a
file below a private directory plus a row in PostgreSQL.  The two stores share
no transaction, requests run on a thread pool and every request has a database
session of its own; all the difficulty of the program is there.

| Part | State it keeps | Operations | Talks to |
|---|---|---|---|
| `DocumentUploadService` (`application/services/document_upload.py`) | none between calls; one upload has its source, file and session | `upload()` and its compensation | validation, storage, persistence, in sequence |
| `LocalDocumentStorage` (`infrastructure/storage/`) | files below the private root | `store()`, `delete()`, `open_binary()` (no caller) | file system |
| `SqlAlchemyDocumentPersistence`, `session.py`, `models.py`, migration 0002 | tables `evaluations`, `documents`; a transaction per session | the two existence queries, the listing, `add()`, `commit()`, `rollback()`, close | PostgreSQL |
| `DocumentValidationService`, `PyMuPdfInspector` | the position of the source | `validate()` | the source; PyMuPDF |
| `DocumentListingService` | none | `list_for_evaluation()` | persistence |
| HTTP routes, `main.py` | tables `evaluation_profiles`, `evaluations`; the pool of connections | upload, list, create and list evaluations, profiles, health | the services; a session per request |
| `MeritAssistantApiClient` (`ui/api_client.py`) | none | one call per endpoint, with finite timeouts; status codes to messages | HTTP |
| Streamlit interface (`ui/presentation.py`, `app.py`) | session state of a browser tab: selected evaluation, upload in progress, uploader generation, flash message | a run of the script per interaction; create, choose, upload, list | the client |
| Profile loader, settings, entities | immutable values | read once | - |

What is hard, and what makes each part correct:

- **Upload.**  Interleaved requests pass the duplicate check together; a fault
  at each call leaves a file without a row, or worse a row without a file; the
  compensation has three parts that fail independently; the process may die
  anywhere and a restart recovers nothing.  Correct means: a row always has its
  file with the bytes its hash announces; an error left nothing behind or says
  so; "created" and "duplicate" are true; a file without a row has a known cause.
- **Storage.**  Several calls use one directory, and what went wrong after
  publication is undone by *name*.  Correct means: a name only ever shows a
  whole document, at most one call owns it, and undoing never removes
  another's, even after a power loss.
- **Persistence.**  An INSERT waits for an uncommitted row with its key;
  clients vanish with transactions open; evaluations are removed with their
  documents.  Correct means: one content once per evaluation, no document
  without its evaluation, no lock for ever.
- **Validation.**  Reads may be short, the limit lies inside a chunk, a rewind
  may fail in the finally clause.  Correct means: what is accepted was read
  whole, is within the limit, and its source is at its start again.
- **Listing.**  Existence and list are two queries that see different moments.
  Correct means: what was committed before the request came is in the list, an
  evaluation removed between the queries is listed as empty, and the answers of
  several requests never contradict each other: a later list has what an earlier
  one had, and nobody is shown a document after a 404.
- **Evaluation creation.**  First requests race for the row of the profile,
  wait for each other's rows and connections, and need a second connection
  after COMMIT.  Correct means: the answers are true of what is stored, the
  race ends with the first commit, everybody is answered.
- **Client and interface.**  The client may give up on an upload that goes on;
  the user may interact at any moment, which starts a new run and cuts the old
  one off.  Correct means: one upload at a time, no file sent again once it was
  announced, messages that are true, and a selection that is the user's.

`PROJECT.json` lists the hazards line by line, with the properties that would
catch each.

## 2. The modules

```
DocumentRegistry      what an upload is, seen from outside (abstract)
   ^ implemented by
DocumentUpload ------> DocumentPersistence   sessions, constraints, the server
        \------------> DocumentStorage       what the storage port promises (abstract)
                          ^ implemented by
                       LocalDocumentStorage  store() and delete() by system call
DocumentValidation    validate(), the detail of one step of DocumentUpload
DocumentListing ------> DocumentPersistence   (extends it with readers)
EvaluationCreation    POST /evaluations over a pool of connections
Interface ------------> DocumentRegistry      the page, over the service as promised
```

`MC*` modules add symmetry sets and fault sets for TLC.  The theorems of a
module stand in its `*Proofs` module; those about `DocumentUpload` and
`DocumentRegistry` in `DocumentUploadRefinement`.  Mutated forms of a definition, used to see that a property can
fail, stand beside it under a comment that starts with "Mutation".

**DocumentUpload.**  `pc[r]` names the call that request `r` makes next; the
code between two calls touches nothing shared and belongs to the action before
it.  `FindEvaluation`, `Validate`, `FindDuplicate`, `PublishFile` and
`StoreReturns` or `StoreFails` (one `store()`), `VerifyContent`, `Insert` (or
`InsertFails`) and `Commit` (the two halves of `commit()`, since autoflush is
off), and for the
compensation `Rollback` and `DeleteFile` (delete, rewind, and the exception that
`_raise_after_compensation` picks).  `Raise` also closes the session, as
`get_db_session` does; after `Commit` or a compensation nothing is open any more
for the close to end.  `request` is what was asked, `outcome` what is
answered, `unsafe` the `rollback_error` of `_CompensationResult`, `position`
the source.  A content stands for its SHA-256: collisions are left out.  The
document id is the request itself, a fresh UUID never drawn twice.
`validation_error` stands for every exception of the validator other than that
of seeking, and of the filename length.  Every fault is a member of the
constant `Faults`: an instance says which may happen, and an action with a
fault asks `Happens(fault)`.

| `Faults` | In the code |
|---|---|
| `seek` | `seek()`/`tell()` of the source raises |
| `drift` | the source yields other bytes on its second reading |
| `store`, `leak` | `store()` raises; `leak`: its published file stays (line 111-113 failed too) |
| `delete` | `delete()` raises and the file stays |
| `database` | a statement fails, or its connection drops before COMMIT was sent |
| `lost_ack` | the connection drops after COMMIT was sent |
| `removal` | somebody else deletes an evaluation (no code here does; the schema cascades) |
| `crash` | the API process dies and is started again |
| `power` | the machine of the API and of the private directory loses power |

**DocumentPersistence.**  Committed `rows` and `evaluations`, and for each
session its `transaction` and the row it inserted (`pending`).  A transaction
is `open`, `severed` (the client lost it before COMMIT was sent: the server
will roll back), `in_doubt` (COMMIT was on its way: the server may do either)
or `closed`.  `InsertError` gives the exception that `_raise_translated_error`
makes of each constraint.  What is assumed of PostgreSQL (READ COMMITTED, an
INSERT waits for an uncommitted row with its key, a foreign key locks the row
it references, the server ends the transactions of lost clients) is marked
external in the map.

**DocumentStorage** is the port: a whole document appears under a free key in
one step; a call that raises leaves nothing, or is `leaked`.
**LocalDocumentStorage** has one action per system call of `store()` and
`delete()`, a page cache and a disk (`names`/`diskNames`,
`written`/`synced`).  Only data is synced by the code; names reach the disk
when the kernel likes.  `CreateTemporary` needs no uniqueness argument
(`mkstemp` is exclusive): the file of a call is named by the call.  The checks
of keys, directories and symbolic links (lines 149-264) are one step that
succeeds or raises.  A call that raises is `leaked` only when it failed to take
its publication back (`Withdraw`, lines 111-113); nothing else may leave a name.

**DocumentListing** extends `DocumentPersistence` with readers: `Ask`,
`FindEvaluation` and `List`, each query on what is committed when it runs.
`before` remembers what the evaluation had when the request came.  Evaluations
are only removed there: the identifier of one that is created later is a fresh
UUID, which nobody can have asked for before.

**EvaluationCreation** follows `create_evaluation()` statement by statement:
`Receive` (the unknown profile), `Checkout`, `GetProfile`, `InsertProfile`
(`add` and `flush`, which waits for another's uncommitted row), `Commit` (the
INSERT of the evaluation and COMMIT, which returns the connection), `Checkout`
again and `Refresh`, and `Close`.  The session takes a connection at its first
statement, not when it is made.  A refused statement, a connection that drops
(the server ends its transaction later; only a COMMIT that was sent may still
take effect) and a pool that stays full are actions of their own.  An
evaluation is named by its request.

**Interface** is one browser session over `DocumentRegistry`, whose requests are
the uploads sent.  `pc` is where `run_app()` is: `Greet` (flash message, health),
`CreateEvaluation`, `SelectEvaluation`, `RenderUpload`, the wait of
`upload_document()` with its ends `Receive` and `GiveUp`, `Advance` and
`Announce` (generation, flash message, rerun), and `ListDocuments`.  `Serve` is
what the service does for an upload, whether or not anybody still waits.
`Status` and `Message` are the tables of the route and of the client; one error
may have several codes (a refused document is 413, 415 or 422, and 500 when the
exception of its reading or inspection is translated by nobody).  Three
things are assumed of Streamlit, and marked external:

- an interaction during a run starts a new run at once and disconnects the old
  one from the session state (`runner.fastReruns`, the default), so an upload
  that was under way is `orphaned`: nothing its run still writes arrives;
- a submit button is true for one run, and picking a file in a form starts none;
- a widget without a key is identified by its parameters, the default included,
  and one with a key by the key; the browser's value belongs to that identity
  and is dropped when a run ends without the widget.

A reload of the page is another session, that is `Init`.  The user may click at
every moment, also when a slower page would not show the button yet.

**DocumentValidation** has the read loop with reads of any size up to the
requested one, and the finally clause whose own failure is raised only over a
success.  Name, type, signature and structure are verdicts given as input.

**DocumentRegistry** has three variables: evaluations, documents with their
content, and where each request stands.  `Register` is the whole upload in one
step.

## 3. The runs

| Run | Instance | States | Shows |
|---|---|---|---|
| `storage` | 2 calls, 2 keys, sources of at most 2 chunks, crashes and power losses, fair | 74 452 | `OwnNameOnly`, `NoPartialDocument`, `ImplementsPort`, `StoreEnds` |
| `listing` | 2 sessions, 2 readers, 2 documents, 2 evaluations, 2 hashes | 11 978 | `ListIsComplete`, `AnswersTellOneStory`; `DocumentsAreUnique`, `ReferencesExist` |
| `upload_faults` | 2 requests, 2 evaluations, 2 contents, all faults but `lost_ack` and `power` | 106 976 | rows, files and answers agree; the invariant of the proofs; `ImplementsRegistry` |
| `upload_race` | 3 requests, 1 evaluation, 2 contents, `drift`, `lost_ack`, `removal`, `power` | 316 116 | `UploadsAreUnique`, `RowFileIsWhole` |
| `upload_liveness` | 2 requests, 1 evaluation, fair, no crash | 24 480 | `EveryUploadEnds`, `LocksAreReleased`, `SourceRestored` |
| `validation` | limit 5, chunks of 2, sources up to 8 | 7 627 | `AcceptedIsWhole`, `LimitIsExact`, `ReadIsBounded`, `SourceIsRestored`, `ValidationEnds` |
| `evaluation_creation` | 3 requests, 2 connections, fair | 97 361 | `AnswersAreTrue`, `ConflictsAreEarly`, `EveryCreationEnds` |
| `interface` | 2 uploads, 2 evaluations, 2 files | 2 024 845 | `FlagIsExplained`, `OneAtATime`, `UserIsToldTheTruth`, `NoResendAfterSuccess`, `UploadIsShown`, `SelectionFollowsUser` |
| `upload_lost_ack` | 1 request | | fails: see section 6 |
| `upload_source_after_store_failure` | 1 request | | fails: see section 6 |
| `interface_rerun` | 1 upload, fair | | fails: see section 6 |
| `interface_selection` | 2 evaluations, no upload | | fails: see section 6 |

**Why the bounds are enough to be interesting.**  A race for uniqueness needs
two requests; a third lets one wait for, and outlive, another that was rolled
back.
Two evaluations with two contents tell "same content elsewhere" from "same
document", and a content that drifted needs a second content.  In
`LocalDocumentStorage` one chunk separates an empty file from a whole one and
two chunks give a truncated one; two keys let two calls collide or not.  Three
requests over two connections leave one waiting for the pool while two contend
for the profile.  Two uploads are enough for one to be repeated, orphaned or
given up on beside another; the generation of the uploader and the attempts are
bounded by their number, the clicks by nothing.  In `DocumentValidation` the limit is not a
multiple of the chunk, so the last read asks for less than a chunk; sources
reach from empty to beyond the one byte more that is ever read.
Symmetry is used only in runs without liveness.

**Deadlock** is not checked: requests, calls and validations end, and a
finished instance may rightly stop.  That nothing gets stuck before its end is
what `EveryUploadEnds`, `LocksAreReleased`, `StoreEnds`, `EveryCreationEnds` and
`ValidationEnds` say.  The interface never stops, and there it is checked.

**Fairness.**  A request is a synchronous function on a thread: once received it
runs on (`WF(Upload(r))`, `WF(Store(c))`, `WF(Validate)`).  That a client
sends a request is not assumed, nor that any fault happens: wherever the next
call may fail, the fair action may also succeed; `CopyFails`, `ReadFails` and
`InsertFails` are outside the fair actions, so no copy ends because a disk
fails and no waiting INSERT because its connection drops.  The server
is assumed to notice lost clients (`WF(ServerSettles(r))`, TCP keepalive);
without it an INSERT could wait for a vanished transaction for ever, which the
code has no timeout against.  A blocked INSERT is disabled, so no progress of it
is assumed.  `upload_liveness` leaves out crashes, after which a request does
not end by its own steps.  In `EvaluationCreation` a request goes on
(`WF(Step(r))`); the pool serves whoever waits once a connection is free, and no
timeout of the pool, refused statement or lost connection is ever due.  In
`interface_rerun` a run goes on, with finite timeouts (`_has_finite_timeout`),
and the service too; the user owes nothing.

## 4. The refinements

`LocalDocumentStorage` implements `DocumentStorage`: `Published` shows a name
whose file is not complete as the value `Partial`, which is no content of the
port, so a truncated document at any moment breaks the refinement; the link
maps to `Publish`, copying and clean-up to stuttering.  The port lets a call
raise with its document in place (`Leak`), so what the code may take for that is
stated by the mapping: only a call whose attempt to take the publication back
has failed is `leaked`, whatever the directory holds.  One that raises without
having tried is `failed`, and with its name still there no step of the port.

`DocumentUpload` implements `DocumentRegistry`: a document is its row together
with what the storage holds for it *now*, so a row whose file is missing or
different maps to no document of the registry.  `standing` is the outcome as
soon as it is decided.  A refusal for a duplicate must find its duplicate at
that step; a refused request can only turn into `compensation_error`, never
into a document.  A request abandoned by a crash may still be registered, by a
COMMIT that was on its way.

Both are checked by TLC and proved for every instance (section 5), and so is
what puts them together: under every fault the uploads are a behaviour of the
storage port and of `DocumentPersistence` (`UploadKeepsToItsPorts`), so what the
local storage does for the port, and what is proved of the schema, holds below
the uploads.  `DocumentListing` is a behaviour of `DocumentPersistence` too
(`ListingImplementsPersistence`).

## 5. The proofs

Every safety invariant, action property and refinement that a passing run
checks is a theorem, for every value of the constants; `PROJECT.json` lists
them.  The assumptions on the constants are the named ones of the modules: the
value that stands for "no file" is no content and the faults are of the known
kinds (`UploadAssumption`); the value for "nobody" is no call
(`LocalStorageAssumption`); the bounds are numbers, and the limit, the chunk and
the pool are positive (`ValidationAssumption`, `PoolAssumption`,
`InterfaceAssumption`).  The numbers and sets themselves are arbitrary: the
bounds of section 3 matter to TLC alone.

**`DocumentPersistenceProofs`.**  `SchemaInv` ranges over committed rows *and*
pending ones; over committed rows alone it is not inductive, since two pending
twins would commit to two rows.  An accepted INSERT meets no twin among the
committed rows (`InsertError`) nor among the pending ones (`Blocked`); every
other step stores nothing new (`NothingNew`) or moves rows from pending to
committed.

**`DocumentUploadProofs`.**  `RowHasFile` alone is not inductive: that the file of
a row is never deleted depends on where its request is.  The invariant has
three layers, by the faults they survive.

| Layer | Parts | Faults it survives | Proved from it |
|---|---|---|---|
| `SoundInv` | `CallsFollow`, `TransactionsFollow`: the storage call and the transaction are where `pc` is; `RowsAreVerified`: a row, there or to come, belongs to a verified content; `FilesAreWhole`: a file is what its request read; `AnswersStand`, `SourcesFollow` | all | `RowFileIsWhole`, `CreatedIsKept`, `SourceRestored` |
| `OwnedInv` | `FilesAreOwned`: a file is there exactly when its request published it and did not take it back | all but `power` (`PowerKept`) | `OrphansAreExplained` |
| `UploadInv` | `RowsAreBacked`: a row that is there, or that a COMMIT in doubt may bring, has its file out of reach of any compensation | all but `power` and `lost_ack` (`NothingLost`) | `RowHasFile`, `NoPartialSuccess`, `DuplicateIsThere` |

The limits are the code's: with `lost_ack` `RowHasFile` is false, as
`upload_lost_ack` shows, and with `power` too, since `store()` syncs the data
and never the directory.  Under every fault the file of a row may be missing
and is never another.  Each step has a lemma that says what it does to its own
request (`ReceiveCall`, ..., `DeleteFileCall`), and `OnlyItsOwn` that it does
nothing to the others; the invariants are proved from these, not from the
actions.  `UploadsStayUnique` needs no fault left out: every step is one of
`DocumentPersistence` or leaves the database alone (`DatabaseRefinement`), so
the theorems of the schema hold of it.

**`DocumentUploadRefinement`.**  `UploadImplementsRegistry` holds when nothing is
lost.  What the registry sees (`Shown`) is rows with the files they have *now*;
since `RowHasFile` holds before and after a step, it depends on the rows alone,
and a step of the files alone is a stutter.  A COMMIT that adds a row is
`Register`; an answer without one is `Refuse`; a compensation that fails is
`Spoil`; a crash abandons.  That needs two facts more: `OutcomesFollow`, a
request is decided once and an error never becomes a document, and
`RowsComeOnce`, a row to come is not there yet; and `UploadsAreUnique`, because
`Register` asks that nobody holds the content.

**`LocalDocumentStorageProofs`.**  `NamesFollow`: whatever a name leads to, in the
page cache or on disk, is the whole, synced file of a call that was given the
name and has linked it.  It is kept because data comes first (`DataFirst`: at
the link everything is written and synced) and because what a call takes back
by name is its own (`OwnNameOnly`), which in turn needs that nobody else can
link a name that is taken.  Hence `NoPartialDocument`, and with it
`StorageImplementsPort`: each system call is a step of the port or a stutter,
through crashes, late writes of names and power losses.

**`DocumentValidationProofs`.**  `ReadingFollows`: the bytes counted are those in
front of the position and within the limit until the verdict; a read asks for
at least one byte and at most one beyond the limit (`RequestedIsBounded`).
`VerdictsFollow` carries what a verdict said through the finally clause.

**`DocumentListingProofs`.**  `BeforeIsStored`: what an evaluation held when the
request came it still holds, as long as it exists; `MissingStaysMissing`: an
evaluation that was answered 404 does not exist, and none comes back.  The steps
of the readers leave the database alone, so the types come from `SchemaInv`, and
`ReferencesExist` (a missing evaluation has no rows) carries over to them:
`AnswersTellOneStory` follows from the three.

**`EvaluationCreationProofs`.**  `EvaluationsFollow` and `ProfilesFollow`: what a
request has stored, and that a profile comes with the same COMMIT as the first
evaluation, also when that COMMIT is in doubt.  `LateFindProfile`: a request
that came late finds the profile and never inserts one.  Sets whose size the
type invariant bounds must be known finite (`Counted`).

**`InterfaceProofs`.**  None of the page's properties is inductive.  `RunFollows`,
`UploadsFollow` and `ServiceFollows` say what the session state, the outcome of
each upload and the service agree on at each step of a run; `OneAtATime` holds
because an upload whose run was cut off, and that the service has not decided,
still has the flag; since nothing is sent while the flag is up, that upload is
the last one, which is `FlagIsExplained`.  `GenerationsFollow` counts uploader generations against
successes, and `OutOfDate` says that a form picked before a success is not the
one drawn after it, which `NoResendAfterSuccess` needs.  `PagesFollow` ties the
messages to the upload they are about, `SelectionsFollow` the browser's choice
to what the user asked for.

**Only model-checked** are the liveness properties, `EveryUploadEnds`,
`LocksAreReleased`, `StoreEnds`, `ValidationEnds` and `EveryCreationEnds`: fairness
and ENABLED are beyond the prover.  The four violations of section 6 are
counterexamples of TLC.

## 6. What the code does otherwise

- **A commit whose acknowledgement is lost leaves a row without its file.**
  `upload()` takes every exception of `commit()` for "not committed" and deletes
  the file (`document_upload.py:220-227`); if COMMIT had taken effect, the
  document is listed and unreadable.  The feature document
  `docs/features/feature-intent-f01-4-secure-upload-orchestration-and-persistence.md`
  names "criar um registro sem que o arquivo exista" (line 35) as what the
  service must prevent.  Run `upload_lost_ack`.
- **The source is not rewound when `store()` raises.**  The call stands outside
  the try block (`document_upload.py:195`), while line 447 of the same document
  asks for position zero after a failure "sempre que tecnicamente possível".
  `SourceRestored` states what the code does keep.  Run
  `upload_source_after_store_failure`.

- **An interaction during an upload blocks the session for good.**  The flag is
  cleared in a `finally` clause (`presentation.py:274-275`) of a run that
  Streamlit has cut off from the session state; a second click on "Enviar
  documento" is enough.  Every later submission is answered "Envio em andamento.
  Aguarde.", and the document, once stored, is never announced.  The documents
  say that a submission is blocked "enquanto o upload estiver em andamento"
  (`docs/features/feature-intent-f01-7-streamlit-document-interface.md:436`) and
  ask to "restaurar flag em `finally`"
  (`docs/action-plans/action-plan-f01-7-streamlit-document-interface.md:323`).
  `FlagIsExplained` states what does hold: only the run of the session's last
  upload, cut off, leaves the flag up.  Run `interface_rerun`.
- **Every second choice of an evaluation is lost.**  The selectbox has no key and
  its `index` follows the selection (`presentation.py:400-409`), so the run after
  a choice draws another widget, and what the browser holds for the old one is
  dropped: choose A, then B, and the page stays on A.  "Avaliações existentes
  podem ser selecionadas" (same feature document, line 432).
  `SelectionFollowsUser` states what does hold: the selection is never one the
  user did not ask for.  Run `interface_selection`.

Two answers are true and unhelpful, and no document promises otherwise: the
second of two first requests to create an evaluation is answered 500 for the
conflict on the profile, and a request whose refresh fails is answered 500
though its evaluation is stored (`AnswersAreTrue` has both).

## 7. What is not modelled, and the plan

Left out for good: rendering, labels and wording, the profile file, settings,
health, logging, the check of the API's address, the parsing of answers (an
unreadable answer is a lost one), the arithmetic of UUIDs and paths, the order
of the lists, running migrations, `open_binary()` (no caller).

`Interface` is not composed with the steps of `DocumentUpload` but with the
registry they implement, so a lost acknowledgement or a crash of the service is
seen by the page only as a client that gives up.  The pool of connections is
modelled for the creation of evaluations; in `DocumentUpload` a pool that stays
full is one more way for a query to fail.

What is left to do, in this order:

1. A registry that names the document a lost acknowledgement leaves unreadable,
   so that an upload implements it under `lost_ack` and `power` too.
2. The interface over that registry, so that a listed and unreadable document
   can be seen by the page.
