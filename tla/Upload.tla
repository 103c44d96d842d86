--------------------------------- MODULE Upload ---------------------------------
(***************************************************************************)
(* `attachment +upload` of one file, and the runs that repeat it after a   *)
(* failure: the tool prepare-upload names the parts that the storage still *)
(* lacks, their byte ranges are sent one after the other, and the answer   *)
(* to the last part has the token of the whole.  The file may grow and     *)
(* shrink meanwhile.  Of its bytes only their positions count.             *)
(***************************************************************************)
EXTENDS Integers, FiniteSets, SequencesExt

CONSTANTS
    MaxSize,      \* bound: bytes of the file
    PartSize,     \* bytes of a part, as the server has it
    MaxRuns       \* bound: how often the command is run

ASSUME UploadAssumption ==
    MaxSize \in Nat /\ PartSize \in Nat \ {0} /\ MaxRuns \in Nat \ {0}

VARIABLES
    length,       \* bytes that the file has now
    size,         \* bytes that it had when this run looked at it
    upc, run,     \* where the command is, and how often it has been run
    multipart,    \* the server asked for parts
    chunks,       \* the parts still to be sent in this run
    final,        \* the answer to the last part: none, or whether it has a token
    stored        \* the storage: a set of parts with the range received for each

uploadVars == <<length, size, upc, run, multipart, chunks, final, stored>>

PartCount(n) == (n + PartSize - 1) \div PartSize
Chunk(i, a, b) == [index |-> i, first |-> a, last |-> b]

\* The parts of a file of n bytes, as the server cuts it.
Parts(n) ==
    {Chunk(i, i * PartSize, (IF (i + 1) * PartSize < n THEN (i + 1) * PartSize ELSE n) - 1) :
        i \in 0 .. PartCount(n) - 1}

UploadInit ==
    /\ length \in 0 .. MaxSize /\ size = 0
    /\ upc = "open" /\ run = 1
    /\ multipart = FALSE /\ chunks = <<>> /\ final = "none"
    /\ stored = {}

-----------------------------------------------------------------------------
\* No such file, a directory, or an empty file: nothing is asked of the server.
OpenFile ==
    /\ upc = "open"
    /\ size' = length
    /\ upc' \in IF length = 0 THEN {"failed"} ELSE {"prepare", "failed"}
    /\ UNCHANGED <<length, run, multipart, chunks, final, stored>>

\* The end of the last part's range is known to be off at times.
Announced(c, error) ==
    IF c.index = PartCount(size) - 1 THEN [c EXCEPT !.last = @ + error] ELSE c

\* The server cuts the file, unless it takes it in one piece, and asks for parts that
\* it lacks, in any order, all of them or not: it knows those of an earlier run, but
\* not of a file of another size.  Its answer may be an error, or malformed.
PrepareUpload ==
    /\ upc = "prepare"
    /\ \/ upc' = "failed" /\ UNCHANGED <<multipart, chunks, stored>>
       \/ /\ upc' = "send" /\ multipart' = FALSE
          /\ chunks' = <<Chunk(0, 0, size - 1)>> /\ stored' = {}
       \/ /\ upc' = "send" /\ multipart' = TRUE
          /\ stored' = stored \cap Parts(size)
          /\ \E error \in -1 .. 1 :
               chunks' \in SetToAllKPermutations({Announced(c, error) : c \in Parts(size) \ stored'})
    /\ final' = "none"
    /\ UNCHANGED <<length, size, run>>

LastPart(c) == ~multipart \/ c.index = PartCount(size) - 1

\* Fault: the range that is announced is trusted for the last part, too.
BodySizeAnnounced(c) == c.last - c.first + 1

\* A range includes its last byte; the last part goes to the end of the file.
BodySize(c) == IF LastPart(c) THEN size - c.first ELSE c.last - c.first + 1

\* What the server has of a part once it has received it.
Received(c) == Chunk(c.index, c.first, c.first + BodySize(c) - 1)

Lacking == {c.index : c \in Parts(size)} \ {c.index : c \in stored'}

\* No answer, a bad status, or a code that is an error, whether or not the part has
\* arrived; it cannot when the file has become too short for it.
SendFails ==
    /\ upc = "send" /\ chunks # <<>>
    /\ stored' \in {stored} \cup
          {stored \cup {Received(c)} : c \in {b \in {Head(chunks)} : b.first + BodySize(b) <= length}}
    /\ upc' = "failed"
    /\ UNCHANGED <<length, size, run, multipart, chunks, final>>

Send ==
    /\ upc = "send" /\ chunks # <<>>
    /\ Head(chunks).first + BodySize(Head(chunks)) <= length
    /\ stored' = stored \cup {Received(Head(chunks))}
    /\ chunks' = Tail(chunks)

\* The answer to the last part has the token, unless it names parts that are lacking.
SendPart ==
    /\ Send
    /\ IF ~LastPart(Head(chunks)) THEN UNCHANGED <<upc, final>>
       ELSE IF multipart /\ Lacking # {} THEN upc' = "failed" /\ UNCHANGED final
       ELSE final' \in {"token", "empty"} /\ UNCHANGED upc
    /\ UNCHANGED <<length, size, run, multipart>>

\* There must have been a last part, and a token with it.
EndUpload ==
    /\ upc = "send" /\ chunks = <<>>
    /\ upc' = IF final = "token" THEN "ok" ELSE "failed"
    /\ UNCHANGED <<length, size, run, multipart, chunks, final, stored>>

RunAgain ==
    /\ upc = "failed" /\ run < MaxRuns
    /\ upc' = "open" /\ run' = run + 1
    /\ UNCHANGED <<length, size, multipart, chunks, final, stored>>

\* Somebody else appends to the file or truncates it.
FileChanges ==
    /\ upc \in {"prepare", "send"}
    /\ length' \in 0 .. MaxSize \ {length}
    /\ UNCHANGED <<size, upc, run, multipart, chunks, final, stored>>

UploadStep == OpenFile \/ PrepareUpload \/ SendFails \/ SendPart \/ EndUpload

UploadSpec == UploadInit /\ [][UploadStep \/ RunAgain \/ FileChanges]_uploadVars

-----------------------------------------------------------------------------
(* Properties. *)

\* An upload that is reported has put every byte that the file had when it was
\* opened into the storage, each part with its own range: after failures and lost
\* answers of earlier runs, whatever order the parts are asked for in, and whatever
\* becomes of the file (ExecuteUpload).
UploadIsWhole ==
    upc = "ok" => stored = IF multipart THEN Parts(size) ELSE {Chunk(0, 0, size - 1)}
=============================================================================
