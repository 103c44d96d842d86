--------------------------------- MODULE Batch ---------------------------------
(***************************************************************************)
(* One invocation of a batch command (BatchExecutorStep.Execute): the IDs  *)
(* of the flag and the file are validated and deduplicated, a few workers  *)
(* make one tool call per ID, and the rows are assembled in the order of   *)
(* the input.  The first authentication failure cancels the fan-out and    *)
(* fails the whole batch; any other error is a row of the response.        *)
(***************************************************************************)
EXTENDS Selection, FiniteSetsExt

CONSTANTS NotANumber,   \* what ParseNumber does not take for a number
          Concurrency,  \* batchConcurrency
          MaxIDs,       \* maxBatchIDs
          Inputs        \* the lists of IDs that may be given

\* A number as it is written: its sign, its digits, how many of them follow the point,
\* and its exponent.  -10.50e3 has the digits 1050, two of them in the fraction.
Spellings == [negative : BOOLEAN, digits : Seq(0 .. 9), fraction : Nat, exponent : Int]

ASSUME BatchAssumption ==
    /\ NotANumber \notin Spellings
    /\ Concurrency \in Nat \ {0} /\ MaxIDs \in Nat \ {0}
    /\ Inputs \subseteq Seq(Spellings \cup {NotANumber})

VARIABLES
    raw,        \* what the user gave, flag first, then file
    ids,        \* the spellings to call for, without duplicates
    fed,        \* jobs sent to the channel so far ...
    taken,      \* ... and received from it: job k is index k
    wpc, job,   \* a worker: where it is and the index it works on
    slot,       \* the results slice: one slot per index, written by one worker
    firstErr,   \* the index whose call was unauthorized first (0: none)
    cancelled,  \* the context of the whole command is cancelled
    outcome,    \* what Execute returned
    answers     \* history: how the tool calls for each index ended

workVars == <<fed, taken, wpc, job, slot, firstErr, answers>>
batchVars == <<raw, ids, cancelled, outcome, workVars>>

Workers  == 1 .. Concurrency
Indices  == 1 .. Len(ids)

BatchInit ==
    /\ raw \in Inputs
    /\ ids = <<>> /\ fed = 0 /\ taken = 0
    /\ wpc = [w \in Workers |-> "off"] /\ job = [w \in Workers |-> 0]
    /\ slot = <<>> /\ firstErr = 0
    /\ cancelled = FALSE /\ outcome = "none"
    /\ answers = <<>>

-----------------------------------------------------------------------------
(* Numbers, by their digits: no exponent is ever expanded. *)

Significant(n) == {i \in DOMAIN n.digits : n.digits[i] # 0}

\* The power of ten that the digit i counts.
Power(n, i) == Len(n.digits) - i + n.exponent - n.fraction

\* The zeros at the end reach over the fraction, as far as the exponent leaves one.
IsInteger(n) == Significant(n) # {} => Power(n, Max(Significant(n))) >= 0

Zero == [negative |-> FALSE, coefficient |-> <<>>, exponent |-> 0]

\* Fault: the fraction is not looked at.
KeyOfDigits(n) ==
    IF Significant(n) = {} THEN Zero
    ELSE LET last == Max(Significant(n))
         IN [negative |-> n.negative,
             coefficient |-> SubSeq(n.digits, Min(Significant(n)), last),
             exponent |-> Len(n.digits) - last + n.exponent]

\* canonicalIntegerKey: without the zeros at both ends, those at the right end being
\* added to the exponent and the digits of the fraction taken from it.
Key(n) ==
    IF Significant(n) = {} THEN Zero
    ELSE LET last == Max(Significant(n))
         IN [negative |-> n.negative,
             coefficient |-> SubSeq(n.digits, Min(Significant(n)), last),
             exponent |-> n.exponent + (Len(n.digits) - last - n.fraction)]

-----------------------------------------------------------------------------
\* An ID counts once, however it is written: the first one is kept.
FirstPositions(s) ==
    {i \in DOMAIN s : \A j \in 1 .. i - 1 : Key(s[j]) # Key(s[i])}

AllIntegers == \A i \in DOMAIN raw : raw[i] # NotANumber /\ IsInteger(raw[i])

\* Missing, malformed or too many IDs: nothing is called.
CollectFails ==
    /\ outcome = "none"
    /\ \/ raw = <<>> \/ ~AllIntegers
       \/ AllIntegers /\ Cardinality(FirstPositions(raw)) > MaxIDs
    /\ outcome' = "invalid"
    /\ UNCHANGED <<raw, ids, cancelled, workVars>>

\* collectBatchIDs keeps the first spelling of each ID; the workers are launched,
\* never more of them than there are IDs.
Collect ==
    /\ outcome = "none"
    /\ raw # <<>> /\ AllIntegers
    /\ LET first == Selected(raw, FirstPositions(raw)) IN
       /\ Len(first) <= MaxIDs
       /\ ids' = first
       /\ slot' = [k \in DOMAIN first |-> "zero"]
       /\ answers' = [k \in DOMAIN first |-> <<>>]
       /\ wpc' = [w \in Workers |-> IF w <= Len(first) THEN "range" ELSE "done"]
    /\ outcome' = "running"
    /\ UNCHANGED <<raw, cancelled, fed, taken, job, firstErr>>

\* The channel holds all jobs, so sending never blocks; after the last one it is
\* closed.
Feed ==
    /\ outcome = "running"
    /\ fed < Len(ids)
    /\ fed' = fed + 1
    /\ UNCHANGED <<raw, ids, cancelled, outcome, taken, wpc, job, slot, firstErr, answers>>

\* The context of the calls: cancelled with its parent or by the first 401.
FanDone == cancelled \/ firstErr # 0

\* Fault: the channel is never closed.
TakeOpen(w) ==
    /\ wpc[w] = "range"
    /\ taken < fed
    /\ taken' = taken + 1
    /\ job' = [job EXCEPT ![w] = taken + 1]
    /\ wpc' = [wpc EXCEPT ![w] = "check"]
    /\ UNCHANGED <<raw, ids, cancelled, outcome, fed, slot, firstErr, answers>>

Take(w) ==
    /\ wpc[w] = "range"
    /\ \/ /\ taken < fed
          /\ taken' = taken + 1
          /\ job' = [job EXCEPT ![w] = taken + 1]
          /\ wpc' = [wpc EXCEPT ![w] = "check"]
       \/ /\ taken = fed /\ fed = Len(ids)
          /\ wpc' = [wpc EXCEPT ![w] = "done"]
          /\ UNCHANGED <<taken, job>>
    /\ UNCHANGED <<raw, ids, cancelled, outcome, fed, slot, firstErr, answers>>

\* A worker that finds the context done returns; the job it received is lost.
Check(w) ==
    /\ wpc[w] = "check"
    /\ wpc' = [wpc EXCEPT ![w] = IF FanDone THEN "done" ELSE "call"]
    /\ UNCHANGED <<raw, ids, cancelled, outcome, fed, taken, job, slot, firstErr, answers>>

Answered(w, answer) ==
    /\ wpc[w] = "call"
    /\ answers' = [answers EXCEPT ![job[w]] = Append(@, answer)]
    /\ UNCHANGED <<raw, ids, cancelled, outcome, fed, taken, job>>

\* The call returned data, or an error that is a row of its own: also the error a
\* cancelled call ends with.
CallReturns(w) ==
    /\ \E answer \in {"data", "error"} :
         /\ Answered(w, answer)
         /\ slot' = [slot EXCEPT ![job[w]] = answer]
    /\ wpc' = [wpc EXCEPT ![w] = "range"]
    /\ UNCHANGED firstErr

\* Fault: an authentication failure is a row like any other.
CallUnauthorizedRow(w) ==
    /\ Answered(w, "unauthorized")
    /\ slot' = [slot EXCEPT ![job[w]] = "error"]
    /\ wpc' = [wpc EXCEPT ![w] = "range"]
    /\ UNCHANGED firstErr

CallUnauthorized(w) ==
    /\ Answered(w, "unauthorized")
    /\ firstErr' = IF firstErr = 0 THEN job[w] ELSE firstErr
    /\ wpc' = [wpc EXCEPT ![w] = "done"]
    /\ UNCHANGED slot

Work(w) == Take(w) \/ Check(w) \/ CallReturns(w) \/ CallUnauthorized(w)

\* Interrupt or deadline of the command.
Cancel ==
    /\ ~cancelled
    /\ outcome \in {"none", "running"}
    /\ cancelled' = TRUE
    /\ UNCHANGED <<raw, ids, outcome, workVars>>

\* All workers are done: the first 401 wins, then the cancellation; otherwise the
\* rows are assembled.
Return ==
    /\ outcome = "running"
    /\ fed = Len(ids) /\ \A w \in Workers : wpc[w] = "done"
    /\ outcome' = IF firstErr # 0 THEN "unauthorized"
                  ELSE IF cancelled THEN "cancelled" ELSE "response"
    /\ UNCHANGED <<raw, ids, cancelled, workVars>>

BatchStep ==
    \/ Collect \/ CollectFails \/ Feed \/ Return
    \/ \E w \in Workers : Work(w)

BatchSpec == BatchInit /\ [][BatchStep \/ Cancel]_batchVars

-----------------------------------------------------------------------------
(***************************************************************************)
(* Properties.                                                             *)
(***************************************************************************)

(***************************************************************************)
(* A response shows for each ID what its own call returned: no row is      *)
(* fabricated from a slot nobody wrote, although workers leave on the      *)
(* first 401 or a cancellation and drop the job they hold.                 *)
(***************************************************************************)
RowsAreAnswers ==
    outcome = "response" => \A k \in Indices : answers[k] = <<slot[k]>>

(***************************************************************************)
(* When any call was unauthorized, the batch reports that failure and      *)
(* neither a response nor a cancellation.                                  *)
(***************************************************************************)
AuthFailsBatch ==
    outcome \in {"response", "cancelled"} =>
        \A k \in Indices : answers[k] # <<"unauthorized">>

(***************************************************************************)
(* What a batch reports is what its calls returned: no row of its own      *)
(* making, and a 401 neither as a row nor as a cancellation.               *)
(***************************************************************************)
BatchIsTrue == RowsAreAnswers /\ AuthFailsBatch

(***************************************************************************)
(* The number that a spelling stands for, by what tells numbers apart:     *)
(* the nonzero digits at their powers of ten, and the sign if there are    *)
(* any.                                                                    *)
(***************************************************************************)
Value(n) == [negative |-> n.negative /\ Significant(n) # {},
             digits   |-> {<<Power(n, i), n.digits[i]>> : i \in Significant(n)}]

(***************************************************************************)
(* Only integers are looked up, and a number at most once per batch,       *)
(* however often and in whatever spelling the user gave it.                *)
(***************************************************************************)
Lookups == {k \in Indices : answers[k] # <<>>}

OneCallPerNumber ==
    /\ \A k \in Lookups : \A d \in Value(ids[k]).digits : d[1] >= 0
    /\ \A k \in Indices : Len(answers[k]) <= 1
    /\ \A k, l \in Lookups : Value(ids[k]) = Value(ids[l]) => k = l

(***************************************************************************)
(* The rows cover the input: every number the user gave has its row, in    *)
(* the order of first appearance.                                          *)
(***************************************************************************)
CoversInput ==
    outcome = "response" =>
        /\ \A i \in DOMAIN raw : \E k \in Indices : Value(ids[k]) = Value(raw[i])
        /\ \A k, l \in Indices : k < l =>
             \E i \in DOMAIN raw : /\ Value(raw[i]) = Value(ids[k])
                                   /\ \A j \in 1 .. i : Value(raw[j]) # Value(ids[l])

(***************************************************************************)
(* However the user spells and repeats a number, it is looked up once and  *)
(* has one row, at the place of its first appearance.                      *)
(***************************************************************************)
EachNumberOnce == OneCallPerNumber /\ CoversInput
=============================================================================
