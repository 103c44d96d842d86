-------------------------------- MODULE Download --------------------------------
(***************************************************************************)
(* `attachment +download` of different objects to one output path, by      *)
(* processes that may run at a time, follow each other, or die anywhere.   *)
(* Each writes <output>.partial and renames it (ExecuteDownload).  A name  *)
(* of the directory leads to a file, and a process goes on writing to the  *)
(* file that it opened, at its own offset, whatever becomes of the name.   *)
(***************************************************************************)
EXTENDS Naturals, Sequences

CONSTANTS
    Downloads,    \* the processes
    PartsOf,      \* the parts of the object of each; 1 also stands for a single request
    Old,          \* the file that may be at the output path before
    NoFile

ASSUME DownloadAssumption ==
    /\ PartsOf \in [Downloads -> Nat \ {0}]
    /\ Old \notin Downloads /\ NoFile \notin Downloads \cup {Old}

VARIABLES
    dpc,          \* where a process is
    overwrite,    \* --overwrite was given
    fd, offset,   \* the file it has opened, named after who made it, and where it is
    dir,          \* the files at the output path and beside it
    data,         \* what is in each file, a piece for each position
    overlapped    \* history: some two processes were at work at the same time

downloadVars == <<dpc, overwrite, fd, offset, dir, data, overlapped>>

\* A piece of the object of one process: its part, received whole or in half.
Piece(d, i, w) == [of |-> d, part |-> i, whole |-> w]
Hole == Piece(NoFile, 0, FALSE)
Whole(d) == [i \in 1 .. PartsOf[d] |-> Piece(d, i, TRUE)]

DownloadInit ==
    /\ dpc = [d \in Downloads |-> "prepare"]
    /\ overwrite \in [Downloads -> BOOLEAN]
    /\ fd = [d \in Downloads |-> NoFile] /\ offset = [d \in Downloads |-> 0]
    /\ \E f \in {NoFile, Old} : dir = [output |-> f, partial |-> NoFile]
    /\ data = [f \in Downloads \cup {Old} |-> <<>>]
    /\ overlapped = FALSE

\* Between the look at the output path and the end.
AtWork(d) == dpc[d] \in {"create", "fetch", "cleanup", "rename"}

Goto(d, at) == dpc' = [dpc EXCEPT ![d] = at]

-----------------------------------------------------------------------------
\* The tool prepare-download names the parts, or fails.
PrepareDownload(d) ==
    /\ dpc[d] = "prepare"
    /\ Goto(d, "check") \/ Goto(d, "failed")
    /\ UNCHANGED <<overwrite, fd, offset, dir, data, overlapped>>

\* checkOutputAvailable.  The directory may be out of reach, for this or for os.Create.
CheckOutput(d) ==
    /\ dpc[d] = "check"
    /\ \/ Goto(d, "failed") /\ UNCHANGED overlapped
       \/ /\ dir.output = NoFile \/ overwrite[d]
          /\ Goto(d, "create")
          /\ overlapped' = (overlapped \/ \E e \in Downloads : AtWork(e))
    /\ UNCHANGED <<overwrite, fd, offset, dir, data>>

\* Fault: a partial file that is there is opened and not truncated.
CreateKeeping(d) ==
    /\ dpc[d] = "create"
    /\ LET file == IF dir.partial = NoFile THEN d ELSE dir.partial
       IN fd' = [fd EXCEPT ![d] = file] /\ dir' = [dir EXCEPT !.partial = file]
    /\ offset' = [offset EXCEPT ![d] = 0]
    /\ Goto(d, "fetch")
    /\ UNCHANGED <<overwrite, data, overlapped>>

\* os.Create truncates the file that a process which died, or one that is at work,
\* has left at that path.
Create(d) ==
    /\ dpc[d] = "create"
    /\ LET file == IF dir.partial = NoFile THEN d ELSE dir.partial
       IN /\ fd' = [fd EXCEPT ![d] = file] /\ dir' = [dir EXCEPT !.partial = file]
          /\ data' = [data EXCEPT ![file] = <<>>]
    /\ offset' = [offset EXCEPT ![d] = 0]
    /\ Goto(d, "fetch")
    /\ UNCHANGED <<overwrite, overlapped>>

\* A write past the end of the file leaves a hole.
Written(content, at, piece) ==
    [i \in 1 .. (IF at > Len(content) THEN at ELSE Len(content)) |->
        IF i = at THEN piece ELSE IF i <= Len(content) THEN content[i] ELSE Hole]

Write(d, whole) ==
    /\ dpc[d] = "fetch" /\ offset[d] < PartsOf[d]
    /\ data' = [data EXCEPT ![fd[d]] = Written(@, offset[d] + 1, Piece(d, offset[d] + 1, whole))]
    /\ offset' = [offset EXCEPT ![d] = @ + 1]
    /\ UNCHANGED <<overwrite, fd, dir, overlapped>>

ReceivePart(d) == Write(d, TRUE) /\ UNCHANGED dpc

\* The body breaks off after some of it has been written.
BreakOff(d) == Write(d, FALSE) /\ Goto(d, "cleanup")

\* No answer, a bad status, or a signature that is missing or another's: nothing
\* of the body is written.
RefusePart(d) ==
    /\ dpc[d] = "fetch" /\ offset[d] < PartsOf[d]
    /\ Goto(d, "cleanup")
    /\ UNCHANGED <<overwrite, fd, offset, dir, data, overlapped>>

\* All parts are there: the file is closed, which may fail, too.
ClosePartial(d) ==
    /\ dpc[d] = "fetch" /\ offset[d] = PartsOf[d]
    /\ dpc' \in {[dpc EXCEPT ![d] = s] : s \in {"rename", "cleanup"}}
    /\ UNCHANGED <<overwrite, fd, offset, dir, data, overlapped>>

\* Whichever file has the name of the partial one is removed.
Cleanup(d) ==
    /\ dpc[d] = "cleanup"
    /\ dir' = [dir EXCEPT !.partial = NoFile]
    /\ Goto(d, "failed")
    /\ UNCHANGED <<overwrite, fd, offset, data, overlapped>>

\* Whichever file has the name of the partial one becomes the output, or is removed.
RenamePartial(d) ==
    /\ dpc[d] = "rename"
    /\ \/ /\ dir.partial # NoFile
          /\ Goto(d, "ok") /\ dir' = [output |-> dir.partial, partial |-> NoFile]
       \/ Goto(d, "failed") /\ dir' = [dir EXCEPT !.partial = NoFile]
    /\ UNCHANGED <<overwrite, fd, offset, data, overlapped>>

DownloadStep(d) ==
    \/ PrepareDownload(d) \/ CheckOutput(d) \/ Create(d) \/ ReceivePart(d) \/ BreakOff(d)
    \/ RefusePart(d) \/ ClosePartial(d) \/ Cleanup(d) \/ RenamePartial(d)

\* The process is killed; what it has written stays.  Before it has a file to write,
\* that is no different from a process that never ran.
Killed(d) ==
    /\ dpc[d] \in {"fetch", "cleanup", "rename"}
    /\ Goto(d, "killed")
    /\ UNCHANGED <<overwrite, fd, offset, dir, data, overlapped>>

DownloadSpec ==
    DownloadInit /\ [][\E d \in Downloads : DownloadStep(d) \/ Killed(d)]_downloadVars

-----------------------------------------------------------------------------
(* Properties. *)

\* The output path leads to nothing, to what was there, or to one object with all
\* of its parts: whatever fails, breaks off or dies, never to half of one.
OutputIsWhole ==
    dir.output \notin {NoFile, Old} =>
        \E d \in Downloads : dpc[d] = "ok" /\ data[dir.output] = Whole(d)

\* A download that ended left no partial file; only one that died may have.
NoLitter ==
    (\A d \in Downloads : dpc[d] \in {"ok", "failed"}) => dir.partial = NoFile

\* A file at the output path is replaced only by a download that was told to.
ReplacedOnRequest ==
    [][dir.output # NoFile /\ dir'.output # dir.output =>
         overlapped \/ \E d \in Downloads : dpc[d] = "rename" /\ overwrite[d]]_dir

\* Downloads that do not overlap leave whole files, replace none unasked, and clean
\* up; a run after one that died is not harmed by what it left (ExecuteDownload).
DownloadIsWhole == [](NoLitter /\ (overlapped \/ OutputIsWhole)) /\ ReplacedOnRequest
=============================================================================
