------------------------- MODULE DocumentValidation -------------------------
(***************************************************************************)
(* DocumentValidationService.validate(): a source is characterized in one  *)
(* pass of bounded reads, judged, and put back at its start.  A read may   *)
(* return fewer bytes than were asked for, and the source may have been    *)
(* left anywhere by whoever had it before.  Bytes are counted; what they   *)
(* are is the inspector's and the signature's verdict.                     *)
(***************************************************************************)
EXTENDS Integers

CONSTANTS
    MaxSize,     \* max_size_bytes
    ChunkSize,   \* CHUNK_SIZE
    MaxLength    \* bound: the longest source

ASSUME ValidationAssumption ==
    /\ MaxSize \in Nat \ {0}
    /\ ChunkSize \in Nat \ {0}
    /\ MaxLength \in Nat

VARIABLES
    pc,
    source,      \* the document: its length, and the verdicts on its parts
    position,    \* where the source is positioned
    size_bytes,  \* the bytes counted so far
    result       \* "none", "accepted" or the exception raised

vars == <<pc, source, position, size_bytes, result>>

Lengths == 0..MaxLength

\* A source that is not reliable may raise in seek() and tell().
Source == [length : Lengths, filename_ok : BOOLEAN, content_type_ok : BOOLEAN,
           seekable : BOOLEAN, reliable : BOOLEAN,
           signature_ok : BOOLEAN, structure_ok : BOOLEAN]

Exceptions == {"invalid_filename", "unsupported_content_type", "non_seekable",
               "too_large", "empty", "invalid_pdf", "read_error",
               "inspector_error"}

PCs == {"arguments", "rewind", "read", "judge", "restore", "done"}

TypeOK ==
    /\ pc \in PCs
    /\ source \in Source
    /\ position \in Lengths
    /\ size_bytes \in Lengths
    /\ result \in Exceptions \cup {"none", "accepted"}

Init ==
    /\ pc = "arguments"
    /\ source \in Source
    /\ position \in 0..source.length
    /\ size_bytes = 0
    /\ result = "none"

Goto(from, to) == pc = from /\ pc' = to

\* An exception is raised in the block that the finally clause follows.
RaiseInside(from, error) ==
    /\ Goto(from, "restore")
    /\ result' = error

-----------------------------------------------------------------------------
\* The file name, then the content type; the source is not touched.
CheckArguments ==
    /\ \/ /\ source.filename_ok /\ source.content_type_ok
          /\ Goto("arguments", "rewind")
          /\ UNCHANGED result
       \/ /\ ~source.filename_ok
          /\ Goto("arguments", "done")
          /\ result' = "invalid_filename"
       \/ /\ source.filename_ok /\ ~source.content_type_ok
          /\ Goto("arguments", "done")
          /\ result' = "unsupported_content_type"
    /\ UNCHANGED <<source, position, size_bytes>>

Rewind ==
    /\ \/ /\ source.seekable
          /\ Goto("rewind", "read")
          /\ position' = 0
          /\ UNCHANGED result
       \/ /\ ~source.seekable
          /\ Goto("rewind", "done")
          /\ result' = "non_seekable"
          /\ UNCHANGED position
       \/ /\ source.seekable /\ ~source.reliable
          /\ Goto("rewind", "done")
          /\ result' = "non_seekable"
          /\ position' \in {0, position}
    /\ UNCHANGED <<source, size_bytes>>

\* Mutation: always a whole chunk.
RequestedChunk == ChunkSize

\* How much the next read asks for: never more than one byte beyond the
\* limit, which is enough to see that the limit is passed.
Requested ==
    IF ChunkSize < MaxSize - size_bytes + 1
    THEN ChunkSize ELSE MaxSize - size_bytes + 1

\* Mutation: a document of exactly the limit is refused.
ReadChunkBelow ==
    /\ pc = "read"
    /\ \E n \in 1..Requested :
          /\ position + n <= source.length
          /\ position' = position + n
          /\ size_bytes' = size_bytes + n
    /\ IF size_bytes' >= MaxSize
       THEN RaiseInside("read", "too_large")
       ELSE UNCHANGED <<pc, result>>
    /\ UNCHANGED source

ReadChunk ==
    /\ pc = "read"
    /\ \E n \in 1..Requested :
          /\ position + n <= source.length
          /\ position' = position + n
          /\ size_bytes' = size_bytes + n
    /\ IF size_bytes' > MaxSize
       THEN RaiseInside("read", "too_large")
       ELSE UNCHANGED <<pc, result>>
    /\ UNCHANGED source

\* Mutation: an empty source is read again and again.
EndOfSourceAwaited ==
    /\ position = source.length /\ size_bytes > 0
    /\ Goto("read", "judge")
    /\ UNCHANGED <<source, position, size_bytes, result>>

\* read() returns no bytes.
EndOfSource ==
    /\ position = source.length
    /\ IF size_bytes = 0
       THEN RaiseInside("read", "empty")
       ELSE Goto("read", "judge") /\ UNCHANGED result
    /\ UNCHANGED <<source, position, size_bytes>>

ReadFails ==
    /\ RaiseInside("read", "read_error")
    /\ UNCHANGED <<source, position, size_bytes>>

\* Mutation: an exception of the PDF library has no name.
JudgeUnnamed ==
    /\ Goto("judge", "restore")
    /\ result' = IF source.signature_ok /\ source.structure_ok
                 THEN "accepted" ELSE "pdf_error"
    /\ UNCHANGED <<source, position, size_bytes>>

\* The signature, then the structure as the inspector sees it; an exception
\* of the PDF library other than its FileDataError passes through.
Judge ==
    /\ Goto("judge", "restore")
    /\ \/ result' = IF source.signature_ok /\ source.structure_ok
                    THEN "accepted" ELSE "invalid_pdf"
       \/ source.signature_ok /\ result' = "inspector_error"
    /\ UNCHANGED <<source, position, size_bytes>>

\* Mutations: a failed rewind is always swallowed; only an accepted source is
\* rewound.
RestoreSilently ==
    /\ Goto("restore", "done")
    /\ position' = 0 \/ (~source.reliable /\ UNCHANGED position)
    /\ UNCHANGED <<source, size_bytes, result>>
RestoreAccepted ==
    /\ Goto("restore", "done")
    /\ position' = IF result = "accepted" THEN 0 ELSE position
    /\ UNCHANGED <<source, size_bytes, result>>

\* The finally clause: its own failure is only raised over a success.
Restore ==
    /\ Goto("restore", "done")
    /\ \/ position' = 0 /\ UNCHANGED result
       \/ /\ ~source.reliable
          /\ result' = IF result = "accepted" THEN "non_seekable" ELSE result
          /\ position' \in {0, position}
    /\ UNCHANGED <<source, size_bytes>>

Validate ==
    \/ CheckArguments \/ Rewind
    \/ ReadChunk \/ EndOfSource
    \/ Judge \/ Restore

Next == Validate \/ ReadFails

Spec == Init /\ [][Next]_vars

\* One thread runs the validation; that a read fails is not counted on.
FairSpec == Spec /\ WF_vars(Validate)

-----------------------------------------------------------------------------
(* A document is accepted only whole: every check passed, the recorded     *)
(* size is the length of the source, within the limit, and the source is   *)
(* back at its start for the copy that storage will make of it.            *)
AcceptedIsWhole ==
    result = "accepted" /\ pc = "done"
    => /\ source.filename_ok /\ source.content_type_ok
       /\ source.signature_ok /\ source.structure_ok
       /\ 0 < source.length /\ source.length <= MaxSize
       /\ size_bytes = source.length
       /\ position = 0

(* The size limit is decided right on both sides of the boundary, however  *)
(* the reads are cut: too large means too large, empty means empty, and    *)
(* anything judged otherwise had a legal size.                             *)
LimitIsExact ==
    /\ result = "too_large" => source.length > MaxSize
    /\ result = "empty" => source.length = 0
    /\ result \in {"invalid_pdf", "inspector_error"} => source.length \in 1..MaxSize

(* No more than one byte beyond the limit is ever read of a source, so a   *)
(* source of any length costs bounded memory.                              *)
ReadIsBounded == size_bytes <= MaxSize + 1

(* Once the source was rewound and read, it is left at its start whatever  *)
(* the verdict, unless seeking itself fails.                               *)
SourceIsRestored ==
    /\ pc = "done"
    /\ source.reliable
    /\ result \notin {"invalid_filename", "unsupported_content_type", "non_seekable"}
    => position = 0

(* The validation ends: every read that returns bytes makes progress.      *)
ValidationEnds == <>(pc = "done")
=============================================================================
