---------------------------- MODULE CommandRunProofs ----------------------------
(***************************************************************************)
(* Proofs about a whole command.                                           *)
(*                                                                         *)
(* First, each executor that it may run, for any constants of its module,  *)
(* in any order of its steps and of what goes on around them:              *)
(*                                                                         *)
(*   - Pagination: a merged result has the items of its pages in their     *)
(*     order, its marks are true, and the number of requests is bounded;   *)
(*   - Batch: a row of the response is what its own call was answered,     *)
(*     and every number is asked for once;                                 *)
(*   - Upload: a file that is reported as sent is whole at its store;      *)
(*   - Download: a file under its own name is whole;                       *)
(*   - Catalog: the tree of the commands holds together, whatever is       *)
(*     listed, and every tool is served or reported.                       *)
(*                                                                         *)
(* Then the command that is composed of them:                              *)
(*                                                                         *)
(*   - Its plugins are installed as a whole or not at all.                 *)
(*   - The executors keep their promises inside it: every run of the       *)
(*     command, with all that goes on around the executor, before it and   *)
(*     after it, is a run of each executor's own specification.  Each step *)
(*     of a command is a step of one executor, or leaves it alone.         *)
(*   - Whichever executor it runs and however it ends, its exit code is    *)
(*     true and a failure of it is told once.                              *)
(***************************************************************************)
EXTENDS CommandRun, FiniteSetTheorems, SequenceTheorems, TLAPS

-----------------------------------------------------------------------------
(***************************************************************************)
(* Pagination, for any command, page cap, streak limit, range of page      *)
(* numbers and server.                                                     *)
(*                                                                         *)
(* Place ties the cursor and the counter to the last page received, at     *)
(* every point of the loop: that is what a repeated call must not disturb. *)
(* Streak says that the counter of empty pages covers every run of them    *)
(* that ends with the last page.                                           *)
(***************************************************************************)

L == Len(pages)

Stopped(w) ==
    IF w = "cap"
    THEN /\ L = MaxPages
         /\ mode = "token" => cursor = LastPage.page.next /\ cursor # 0
         /\ mode = "number" => cursor = LastPage.at
    ELSE w = "empty" \/ \/ LastPage.page.list = "other"
                        \/ mode = "token" /\ LastPage.page.next = 0
                        \/ mode = "number" /\ (LastPage.page.more = FALSE \/ AllThere)

\* Where the loop is, and what it knows there of the last page.
Place ==
    /\ pc \notin {"finish", "done"} => why = "end"
    /\ mode = "first" => pc \notin {"loop", "finish"}
    /\ mode = "first" /\ pc # "done" => L = 0 /\ cursor = cmd.start
    /\ pc = "execute" => mode = "first"
    /\ IF mode = "first" THEN L <= 1 ELSE L >= 1
    /\ L <= MaxPages
    /\ pc \in {"request", "refresh"} /\ mode = "token" =>
          cursor = LastPage.page.next /\ cursor # 0 /\ pageCount = L + 1 /\ L < MaxPages
    /\ pc \in {"request", "refresh"} /\ mode = "number" =>
          cursor = LastPage.at + 1 /\ LastPage.page.more = TRUE /\ pageCount = L /\ L < MaxPages
    /\ pc # "done" /\ mode = "first" => pageCount = 1
    /\ pc = "loop" => pageCount = L
    /\ pc = "loop" /\ mode = "token" => cursor = LastPage.page.next
    /\ pc = "loop" /\ mode = "number" => cursor = LastPage.at /\ LastPage.page.more = TRUE
    /\ pc = "finish" => Stopped(why)

\* What the command has come to, and how often the server has run the tool.
Outcome ==
    /\ pc # "done" <=> out.kind = "none"
    /\ out.kind = "none" => ran = L
    /\ out.kind # "merged" => out.marks = {}
    /\ ran = L \/ (ran = L + 1 /\ out.kind = "error")

\* Every run of empty pages that ends with the last one is counted.
Streak ==
    /\ pc \notin {"finish", "done"} => streak < MaxEmpty
    /\ pc \notin {"finish", "done"} =>
          \A i \in 2 .. L : L + 1 - i > streak => \E j \in i .. L : Brings(pages[j])
    /\ \A i \in 2 .. L : i + MaxEmpty <= L => \E j \in i .. i + MaxEmpty : Brings(pages[j])

Followed ==
    \A i \in 2 .. L :
        /\ mode = "token" => /\ pages[i].at = pages[i - 1].page.next /\ pages[i].at # 0
                             /\ pages[i].param = TokenParam
        /\ mode = "number" => /\ pages[i - 1].page.more = TRUE
                              /\ pages[i].at = pages[i - 1].at + 1

IInv ==
    /\ TypeOK
    /\ Place
    /\ Outcome
    /\ Streak
    /\ Followed
    /\ ContinuationExact
    /\ UnmarkedIsComplete

-----------------------------------------------------------------------------
(* Types *)

LEMMA ReplyFacts ==
    /\ Replies \subseteq Page
    /\ \A p \in Page : p.n \in Nat /\ p.next \in Nat /\ p.more \in BOOLEAN
                       /\ p.list \in {"list", "null", "absent", "other"}
  BY PaginationAssumption DEF Page

LEMMA CommandFacts ==
    ASSUME NEW c \in Commands
    PROVE  c.start \in Nat /\ c.start <= MaxInt
  BY PaginationAssumption DEF Command

LEMMA ItemsType ==
    ASSUME TypeOK, NEW p \in Page
    PROVE  Items(p) \in Seq(Nat) /\ Len(Items(p)) = p.n
<1>1. p.n \in Nat /\ Len(pages) + 1 \in Nat
  BY ReplyFacts DEF TypeOK
<1> QED
  BY <1>1 DEF Items

Lists == [list : {"list", "null", "absent"}, items : Seq(Nat)]

LEMMA JoinType ==
    \A s, t \in Seq(Nat) :
        s \o t \in Seq(Nat) /\ Len(s \o t) = Len(s) + Len(t) /\ Len(s) \in Nat
  OBVIOUS

LEMMA MergeType ==
    ASSUME TypeOK, NEW p \in Page, p.list # "other"
    PROVE  /\ Merge(merged, p) \in Lists
           /\ p.n = 0 /\ p.list \in {"list", "absent"} =>
                 Length(Merge(merged, p)) = Length(merged)
<1>1. p.list \in {"list", "null", "absent"} /\ merged \in Lists
  BY ReplyFacts DEF TypeOK, Lists
<1>2. Items(p) \in Seq(Nat) /\ Len(Items(p)) = p.n /\ p.n \in Nat
  BY ItemsType, ReplyFacts
<1>3. CASE p.list = "absent"
  BY <1>1, <1>3 DEF Merge
<1>4. CASE p.list # "absent" /\ ~(merged.list = "list" /\ p.list = "list")
  <2>1. Merge(merged, p) = [list |-> p.list, items |-> Items(p)]
    BY <1>4 DEF Merge
  <2> QED
    BY <2>1, <1>1, <1>2, <1>4 DEF Length, Lists
<1>5. CASE merged.list = "list" /\ p.list = "list"
  <2> DEFINE its == merged.items \o Items(p)
  <2>1. Merge(merged, p) = [list |-> p.list, items |-> its]
    BY <1>5 DEF Merge
  <2>2. merged.items \in Seq(Nat)
    BY <1>1 DEF Lists
  <2>3. /\ its \in Seq(Nat) /\ Len(its) = Len(merged.items) + p.n
        /\ Len(merged.items) \in Nat
    <3>1. its \in Seq(Nat) /\ Len(its) = Len(merged.items) + Len(Items(p))
          /\ Len(merged.items) \in Nat
      BY JoinType, <2>2, <1>2, Zenon
    <3> QED
      BY <3>1, <1>2, Zenon
  <2> HIDE DEF its
  <2> QED
    BY <2>1, <2>2, <2>3, <1>1, <1>2, <1>5 DEF Length, Lists
<1> QED
  BY <1>1, <1>3, <1>4, <1>5

LEMMA ReceiveType ==
    ASSUME TypeOK, NEW p \in Page, Receive(p)
    PROVE  /\ pages' \in Seq(Fetched) /\ ran' \in Nat /\ retried' \in BOOLEAN
           /\ cmd' \in Commands /\ pc = "request"
           /\ Len(pages') = L + 1 /\ pages'[L + 1].page = p /\ pages'[L + 1].at = cursor
           /\ mode = "token" => pages'[L + 1].param = TokenParam
           /\ \A i \in 1 .. L : pages'[i] = pages[i]
           /\ L \in Nat /\ L' = L + 1 /\ LastPage' = pages'[L + 1]
<1> DEFINE f == [at |-> cursor, page |-> p,
                 param |-> IF mode = "token" THEN TokenParam ELSE "page_num"]
<1>1. f \in Fetched
  <2>1. cursor \in Nat /\ TokenParam \in TokenParams /\ p \in Page
    BY DEF TypeOK, TokenParam, TokenParams
  <2> QED
    BY <2>1 DEF Fetched
<1>2. pages' = Append(pages, f) /\ ran' = ran + 1 /\ retried' = FALSE /\ cmd' = cmd
      /\ pc = "request"
  BY DEF Receive
<1>3. pages \in Seq(Fetched) /\ ran \in Nat /\ cmd \in Commands
  BY DEF TypeOK
<1>f. f.page = p /\ f.at = cursor /\ (mode = "token" => f.param = TokenParam)
  OBVIOUS
<1> HIDE DEF f
<1>4. /\ Len(pages') = L + 1 /\ pages'[L + 1] = f /\ L \in Nat
      /\ \A i \in 1 .. L : pages'[i] = pages[i]
      /\ pages' \in Seq(Fetched)
  BY <1>1, <1>2, <1>3 DEF L
<1>5. L' = L + 1 /\ LastPage' = f
  BY <1>4 DEF L, LastPage
<1>6. ran' \in Nat /\ cmd' \in Commands
  BY <1>2, <1>3
<1>9. retried' \in BOOLEAN
  BY DEF Receive
<1>7. /\ pages'[L + 1].page = p /\ pages'[L + 1].at = cursor
      /\ mode = "token" => pages'[L + 1].param = TokenParam
      /\ LastPage' = pages'[L + 1]
  BY <1>4, <1>5, <1>f
<1>8. Len(pages') = L'
  BY DEF L
<1> QED
  BY <1>2, <1>4, <1>5, <1>6, <1>7, <1>8, <1>9

LEMMA InitInv ==
    ASSUME Init
    PROVE  IInv
<1>1. cmd \in Commands /\ cmd.start \in Nat
  BY CommandFacts DEF Init
<1>2. MaxEmpty \in Nat /\ MaxEmpty > 0 /\ MaxPages > 0 /\ MaxPages \in Nat
  BY PaginationAssumption
<1>3. L = 0
  BY DEF Init, L
<1>4. merged \in [list : {"list", "null", "absent"}, items : Seq(Nat)]
  BY DEF Init
<1>5. out \in [kind : {"none", "dry", "error", "single", "merged"}, items : Seq(Nat),
                marks : SUBSET {"truncated", "stopped", "exhausted"}, next : Nat]
  BY DEF Init, NoResult
<1>r. retried \in BOOLEAN
  BY DEF Init
<1>6. TypeOK
  <2>1. /\ cursor \in Nat /\ (mode = "number" => cursor \in 1 .. MaxInt)
        /\ pageCount \in Nat /\ streak \in Nat /\ total \in Totals \cup {0}
        /\ pages \in Seq(Fetched) /\ ran \in Nat
    BY <1>1 DEF Init
  <2>2. /\ pc \in {"execute", "request", "refresh", "loop", "finish", "done"}
        /\ mode \in {"first", "token", "number"} /\ why \in {"end", "cap", "empty"}
    BY DEF Init
  <2> QED
    BY <2>1, <2>2, <1>1, <1>4, <1>5, <1>r DEF TypeOK
<1>7. Place
  BY <1>1, <1>2, <1>3 DEF Init, Place
<1>8. Outcome
  BY <1>3 DEF Init, Outcome, NoResult
<1>9. Streak /\ Followed
  BY <1>2, <1>3 DEF Init, Streak, Followed
<1>10. ContinuationExact /\ UnmarkedIsComplete
  BY DEF Init, NoResult, ContinuationExact, UnmarkedIsComplete
<1> QED
  BY <1>6, <1>7, <1>8, <1>9, <1>10 DEF IInv

-----------------------------------------------------------------------------
(* A reply extends what is known of the pages before it. *)

LEMMA ReceiveExtends ==
    ASSUME IInv, NEW p \in Page, Receive(p), mode # "first", mode' = mode
    PROVE  Followed'
<1>1. /\ pages'[L + 1].page = p /\ pages'[L + 1].at = cursor /\ L \in Nat /\ L' = L + 1
      /\ mode = "token" => pages'[L + 1].param = TokenParam
      /\ \A i \in 1 .. L : pages'[i] = pages[i]
      /\ pc = "request"
  BY ReceiveType DEF IInv
<1>c. cmd' = cmd
  BY DEF Receive
<1>2. L >= 1 /\ pages'[L] = LastPage
  BY <1>1 DEF IInv, Place, LastPage, L
<1>3. TokenParam' = TokenParam
  BY <1>c DEF TokenParam
<1>4. SUFFICES ASSUME NEW i \in 2 .. L + 1
               PROVE  /\ mode = "token" => /\ pages'[i].at = pages'[i - 1].page.next
                                           /\ pages'[i].at # 0
                                           /\ pages'[i].param = TokenParam
                      /\ mode = "number" => /\ pages'[i - 1].page.more = TRUE
                                            /\ pages'[i].at = pages'[i - 1].at + 1
  BY <1>1, <1>3 DEF Followed
<1>5. CASE i \in 2 .. L
  <2>1. pages'[i] = pages[i] /\ pages'[i - 1] = pages[i - 1]
    BY <1>1, <1>5
  <2> QED
    BY <2>1, <1>5 DEF IInv, Followed
<1>6. CASE i = L + 1
  <2>1. pages'[i - 1] = LastPage
    BY <1>1, <1>2, <1>6
  <2> QED
    BY <2>1, <1>1, <1>6 DEF IInv, Place
<1>7. i \in 2 .. L \/ i = L + 1
  BY <1>1
<1> QED
  BY <1>5, <1>6, <1>7, Zenon

LEMMA StreakExtends ==
    ASSUME IInv, NEW p \in Page, Receive(p)
    PROVE  /\ \A i \in 2 .. L' : i + MaxEmpty <= L' =>
                \E j \in i .. i + MaxEmpty : Brings(pages'[j])
           /\ (Brings(pages'[L + 1]) \/ streak' = streak + 1) /\ streak' \in Nat =>
                \A i \in 2 .. L' : L' + 1 - i > streak' =>
                    \E j \in i .. L' : Brings(pages'[j])
<1>1. /\ L \in Nat /\ L' = L + 1 /\ pc = "request"
      /\ \A i \in 1 .. L : pages'[i] = pages[i]
  BY ReceiveType DEF IInv
<1>2. /\ streak \in Nat /\ streak < MaxEmpty /\ MaxEmpty \in Nat
      /\ \A i \in 2 .. L : L + 1 - i > streak => \E j \in i .. L : Brings(pages[j])
      /\ \A i \in 2 .. L : i + MaxEmpty <= L => \E j \in i .. i + MaxEmpty : Brings(pages[j])
  BY <1>1, PaginationAssumption DEF IInv, TypeOK, Streak
<1>3. ASSUME NEW i \in 2 .. L, L + 1 - i > streak
      PROVE  \E j \in i .. L : Brings(pages'[j])
  <2>1. PICK j \in i .. L : Brings(pages[j])
    BY <1>2, <1>3
  <2>2. pages'[j] = pages[j]
    BY <1>1
  <2> QED
    BY <2>1, <2>2
<1>4. ASSUME NEW i \in 2 .. L + 1, i + MaxEmpty <= L + 1
      PROVE  \E j \in i .. i + MaxEmpty : Brings(pages'[j])
  <2>1. CASE i + MaxEmpty <= L
    <3>1. PICK j \in i .. i + MaxEmpty : Brings(pages[j])
      BY <1>1, <1>2, <2>1
    <3>2. pages'[j] = pages[j]
      BY <1>1, <1>2, <2>1
    <3> QED
      BY <3>1, <3>2
  <2>2. CASE i + MaxEmpty = L + 1
    <3>1. i \in 2 .. L /\ L + 1 - i > streak
      BY <1>1, <1>2, <2>2
    <3>2. PICK j \in i .. L : Brings(pages'[j])
      BY <1>3, <3>1
    <3>3. j \in i .. i + MaxEmpty
      BY <1>1, <1>2, <2>2
    <3> QED
      BY <3>2, <3>3
  <2> QED
    BY <1>1, <1>2, <1>4, <2>1, <2>2
<1>5. ASSUME Brings(pages'[L + 1]) \/ streak' = streak + 1, streak' \in Nat,
             NEW i \in 2 .. L + 1, L + 2 - i > streak'
      PROVE  \E j \in i .. L + 1 : Brings(pages'[j])
  <2>1. CASE Brings(pages'[L + 1])
    BY <1>1, <2>1
  <2>2. CASE streak' = streak + 1
    <3>1. i \in 2 .. L /\ L + 1 - i > streak
      BY <1>1, <1>2, <1>5, <2>2
    <3>2. PICK j \in i .. L : Brings(pages'[j])
      BY <1>3, <3>1
    <3>3. j \in i .. L + 1
      BY <1>1
    <3> QED
      BY <3>2, <3>3
  <2> QED
    BY <1>5, <2>1, <2>2
<1>6. L' + 1 = L + 2
  BY <1>1
<1> QED
  BY <1>1, <1>4, <1>5, <1>6

LEMMA Undone ==
    ASSUME Outcome', out'.kind # "merged"
    PROVE  ContinuationExact' /\ UnmarkedIsComplete'
  BY DEF Outcome, ContinuationExact, UnmarkedIsComplete

-----------------------------------------------------------------------------
(* The steps that leave the pages as they are. *)

EmptyResult(k) == [kind |-> k, items |-> <<>>, marks |-> {}, next |-> 0]

LEMMA EmptyResultIs ==
    \A k \in {"error", "dry"} : [NoResult EXCEPT !.kind = k] = EmptyResult(k)
  BY DEF NoResult, EmptyResult

LEMMA Abandon ==
    ASSUME IInv, UNCHANGED <<cmd, mode, cursor, merged, pageCount, streak, total, why, pages>>,
           pc # "done", pc' = "done", retried' \in BOOLEAN,
           NEW k \in {"error", "dry"}, out' = EmptyResult(k),
           ran' = ran \/ (k = "error" /\ ran' = ran + 1)
    PROVE  IInv'
<1>1. out' = [kind |-> k, items |-> <<>>, marks |-> {}, next |-> 0] /\ pc' = "done"
  BY DEF EmptyResult
<1>2. /\ L' = L /\ L \in Nat /\ LastPage' = LastPage /\ cmd' = cmd /\ mode' = mode
      /\ cursor' = cursor /\ pages' = pages /\ streak' = streak
  BY DEF L, LastPage, IInv, TypeOK
<1>3. TypeOK'
  <2>1. out' \in [kind : {"none", "dry", "error", "single", "merged"}, items : Seq(Nat),
                  marks : SUBSET {"truncated", "stopped", "exhausted"}, next : Nat]
    <3>1. CASE k = "error"
      BY <1>1, <3>1
    <3>2. CASE k = "dry"
      BY <1>1, <3>2
    <3> QED
      BY <3>1, <3>2
  <2>2. ran' \in Nat
    BY DEF IInv, TypeOK
  <2> QED
    BY <1>1, <2>1, <2>2 DEF IInv, TypeOK
<1>4. Place'
  BY <1>1, <1>2 DEF IInv, Place
<1>5. Outcome'
  BY <1>1, <1>2 DEF IInv, Outcome
<1>6. Streak'
  BY <1>1, <1>2 DEF IInv, Streak
<1>7. Followed'
  BY <1>2 DEF IInv, Followed, TokenParam
<1> QED
  BY <1>1, <1>3, <1>4, <1>5, <1>6, <1>7, Undone DEF IInv

LEMMA GoOn ==
    ASSUME IInv, UNCHANGED <<cmd, mode, merged, streak, total, out, pages, ran>>,
           pc \notin {"finish", "done"}, pc' # "done", TypeOK', Place'
    PROVE  IInv'
<1>1. /\ L' = L /\ L \in Nat /\ mode' = mode /\ pages' = pages /\ streak' = streak
      /\ out' = out /\ ran' = ran
  BY DEF L, IInv, TypeOK
<1>2. Outcome' /\ out'.kind # "merged"
  BY <1>1 DEF IInv, Outcome
<1>3. Streak'
  BY <1>1 DEF IInv, Streak
<1>4. Followed'
  BY <1>1 DEF IInv, Followed, TokenParam
<1> QED
  BY <1>2, <1>3, <1>4, Undone DEF IInv

LEMMA ExecuteStep ==
    ASSUME IInv, Execute
    PROVE  IInv'
<1>1. CASE cmd.valid /\ ~cmd.dry
  <2>1. /\ pc = "execute" /\ pc' = "request"
        /\ UNCHANGED <<cmd, mode, cursor, retried, merged, pageCount, streak, total,
                       why, out, pages, ran>>
    BY <1>1 DEF Execute
  <2>2. L' = L /\ LastPage' = LastPage
    BY <2>1 DEF L, LastPage
  <2>3. TypeOK'
    BY <2>1 DEF IInv, TypeOK
  <2>4. Place'
    BY <2>1, <2>2 DEF IInv, Place
  <2> QED
    BY <2>1, <2>3, <2>4, GoOn
<1>2. CASE ~(cmd.valid /\ ~cmd.dry)
  <2>1. /\ pc = "execute" /\ pc' = "done" /\ retried' = retried /\ ran' = ran
        /\ UNCHANGED <<cmd, mode, cursor, merged, pageCount, streak, total, why, pages>>
        /\ \E k \in {"error", "dry"} : out' = EmptyResult(k)
    BY <1>2, EmptyResultIs DEF Execute, Abort
  <2>2. retried' \in BOOLEAN
    BY <2>1 DEF IInv, TypeOK
  <2> QED
    BY <2>1, <2>2, Abandon
<1> QED
  BY <1>1, <1>2

LEMMA CallStep ==
    ASSUME IInv, CallFails \/ Unauthorized \/ RefreshOK \/ RefreshFails
    PROVE  IInv'
<1>1. CASE Abort
  <2>1. /\ pc # "done" /\ pc' = "done" /\ out' = EmptyResult("error")
        /\ UNCHANGED <<cmd, mode, cursor, merged, pageCount, streak, total, why, pages>>
        /\ ran' = ran \/ ran' = ran + 1
    BY <1>1, EmptyResultIs DEF Abort, CallFails, Unauthorized, RefreshOK, RefreshFails
  <2>2. retried' \in BOOLEAN
    BY DEF IInv, TypeOK, CallFails, Unauthorized, RefreshOK, RefreshFails
  <2> QED
    BY <2>1, <2>2, Abandon
<1>2. CASE ~Abort
  <2>1. /\ \/ pc = "request" /\ pc' = "refresh"
           \/ pc = "refresh" /\ pc' = "request"
        /\ UNCHANGED <<cmd, mode, cursor, merged, pageCount, streak, total, why, out,
                       pages, ran>>
    BY <1>2 DEF CallFails, Unauthorized, RefreshOK, RefreshFails
  <2>2. retried' \in BOOLEAN
    BY DEF IInv, TypeOK, CallFails, Unauthorized, RefreshOK, RefreshFails
  <2>3. L' = L /\ LastPage' = LastPage
    BY <2>1 DEF L, LastPage
  <2>4. TypeOK'
    BY <2>1, <2>2 DEF IInv, TypeOK
  <2>5. Place'
    BY <2>1, <2>3 DEF IInv, Place
  <2> QED
    BY <2>1, <2>4, <2>5, GoOn
<1> QED
  BY <1>1, <1>2

LEMMA LoopStep ==
    ASSUME IInv, SendToken \/ StopToken \/ SendNumber \/ StopNumber
    PROVE  IInv'
<1>1. /\ pc = "loop" /\ pageCount = L /\ L \in Nat /\ L >= 1 /\ L <= MaxPages
      /\ MaxPages \in Nat /\ why = "end" /\ MaxInt \in Nat
  BY PaginationAssumption DEF IInv, Place, TypeOK, L, SendToken, StopToken, SendNumber, StopNumber
<1>2. retried' \in BOOLEAN
  BY DEF IInv, TypeOK, SendToken, StopToken, SendNumber, StopNumber
<1>3. UNCHANGED pages => L' = L /\ LastPage' = LastPage
  BY DEF L, LastPage
<1>4. CASE SendToken
  <2>1. /\ mode = "token" /\ cursor # 0 /\ pageCount < MaxPages
        /\ pageCount' = pageCount + 1 /\ pc' = "request"
        /\ UNCHANGED <<cmd, mode, cursor, merged, streak, total, why, out, pages, ran>>
    BY <1>4 DEF SendToken
  <2>2. TypeOK'
    BY <1>2, <2>1 DEF IInv, TypeOK
  <2>3. Place'
    BY <1>1, <1>3, <2>1 DEF IInv, Place
  <2> QED
    BY <1>1, <2>1, <2>2, <2>3, GoOn
<1>5. CASE StopToken
  <2>1. /\ mode = "token" /\ (cursor = 0 \/ pageCount >= MaxPages)
        /\ why' = IF cursor = 0 THEN "end" ELSE "cap"
        /\ pc' = "finish"
        /\ UNCHANGED <<cmd, mode, cursor, merged, pageCount, streak, total, out, pages, ran>>
    BY <1>5 DEF StopToken
  <2>2. TypeOK'
    BY <1>2, <2>1 DEF IInv, TypeOK
  <2>4. cursor = LastPage.page.next
    BY <1>1, <2>1 DEF IInv, Place
  <2>5. Stopped(why)'
    <3>1. CASE cursor = 0
      <4>1. why' = "end" /\ mode' = "token" /\ LastPage'.page.next = 0
        BY <1>3, <2>1, <2>4, <3>1
      <4> QED
        BY <4>1 DEF Stopped
    <3>2. CASE cursor # 0
      <4>1. why' = "cap" /\ mode' = "token" /\ L' = MaxPages /\ cursor' # 0
            /\ cursor' = LastPage'.page.next
        BY <1>1, <1>3, <2>1, <2>4, <3>2
      <4> QED
        BY <4>1 DEF Stopped
    <3> QED
      BY <3>1, <3>2
  <2>3. Place'
    BY <1>1, <1>3, <2>1, <2>5 DEF IInv, Place
  <2> QED
    BY <1>1, <2>1, <2>2, <2>3, GoOn
<1>6. CASE SendNumber /\ cursor = MaxInt
  <2>1. /\ pc' = "done" /\ out' = EmptyResult("error")
        /\ UNCHANGED <<cmd, mode, cursor, merged, pageCount, streak, total, why, pages, ran>>
    BY <1>6, EmptyResultIs DEF SendNumber, Abort
  <2> QED
    BY <1>1, <1>2, <2>1, Abandon
<1>7. CASE SendNumber /\ cursor # MaxInt
  <2>1. /\ mode = "number" /\ pageCount < MaxPages /\ cursor' = cursor + 1
        /\ pc' = "request"
        /\ UNCHANGED <<cmd, mode, merged, pageCount, streak, total, why, out, pages, ran>>
    BY <1>7 DEF SendNumber
  <2>2. cursor \in 1 .. MaxInt /\ cursor + 1 \in 1 .. MaxInt
    BY <1>1, <1>7, <2>1 DEF IInv, TypeOK
  <2>3. TypeOK'
    BY <1>2, <2>1, <2>2 DEF IInv, TypeOK
  <2>4. Place'
    BY <1>1, <1>3, <2>1 DEF IInv, Place
  <2> QED
    BY <1>1, <2>1, <2>3, <2>4, GoOn
<1>8. CASE StopNumber
  <2>1. /\ mode = "number" /\ (pageCount >= MaxPages \/ AllThere)
        /\ why' = IF pageCount >= MaxPages THEN "cap" ELSE "end"
        /\ pc' = "finish"
        /\ UNCHANGED <<cmd, mode, cursor, merged, pageCount, streak, total, out, pages, ran>>
    BY <1>8 DEF StopNumber
  <2>2. TypeOK'
    BY <1>2, <2>1 DEF IInv, TypeOK
  <2>3. AllThere' = AllThere
    BY <2>1 DEF AllThere, Length
  <2>5. cursor = LastPage.at
    BY <1>1, <2>1 DEF IInv, Place
  <2>6. Stopped(why)'
    <3>1. CASE pageCount < MaxPages
      <4>1. why' = "end" /\ mode' = "number" /\ AllThere'
        BY <1>1, <2>1, <2>3, <3>1
      <4> QED
        BY <4>1 DEF Stopped
    <3>2. CASE pageCount >= MaxPages
      <4>1. why' = "cap" /\ mode' = "number" /\ L' = MaxPages /\ cursor' = LastPage'.at
        BY <1>1, <1>3, <2>1, <2>5, <3>2
      <4> QED
        BY <4>1 DEF Stopped
    <3> QED
      BY <1>1, <3>1, <3>2
  <2>4. Place'
    BY <1>1, <1>3, <2>1, <2>6 DEF IInv, Place
  <2> QED
    BY <1>1, <2>1, <2>2, <2>4, GoOn
<1> QED
  BY <1>4, <1>5, <1>6, <1>7, <1>8

\* Finish only puts into words what the loop knew when it stopped.
LEMMA FinishStep ==
    ASSUME IInv, Finish
    PROVE  IInv'
<1>1. /\ pc = "finish" /\ pc' = "done"
      /\ out' = [kind |-> "merged", items |-> merged.items, marks |-> Mark.marks,
                 next |-> Mark.next]
      /\ UNCHANGED <<cmd, mode, cursor, retried, merged, pageCount, streak, total, why,
                     pages, ran>>
  BY DEF Finish
<1>2. /\ L' = L /\ L \in Nat /\ LastPage' = LastPage /\ AllThere' = AllThere
      /\ TokenParam' = TokenParam
  BY <1>1 DEF L, LastPage, AllThere, Length, TokenParam, IInv, TypeOK
<1>3. /\ mode \in {"token", "number"} /\ Stopped(why) /\ why \in {"end", "cap", "empty"}
      /\ cursor \in Nat /\ (mode = "number" => cursor \in 1 .. MaxInt) /\ MaxInt \in Nat
      /\ merged.items \in Seq(Nat) /\ ran = L
  BY <1>1, PaginationAssumption DEF IInv, Place, Outcome, TypeOK
<1>4. /\ Mark.marks \in SUBSET {"truncated", "stopped", "exhausted"} /\ Mark.next \in Nat
      /\ "truncated" \in Mark.marks => why = "cap"
      /\ Mark.marks = {} => why = "end"
      /\ why = "cap" /\ mode = "token" => Mark.next = cursor /\ "exhausted" \notin Mark.marks
      /\ why = "cap" /\ mode = "number" =>
            IF "exhausted" \in Mark.marks THEN cursor = MaxInt ELSE Mark.next = cursor + 1
  <2>1. CASE why = "cap" /\ mode = "token"
    BY <1>3, <2>1 DEF Mark
  <2>2. CASE why = "cap" /\ mode = "number" /\ cursor < MaxInt
    BY <1>3, <2>2 DEF Mark
  <2>3. CASE why = "cap" /\ mode = "number" /\ ~(cursor < MaxInt)
    <3>1. Mark = [marks |-> {"truncated", "exhausted"}, next |-> 0] /\ cursor = MaxInt
      BY <1>3, <2>3 DEF Mark
    <3> QED
      BY <2>3, <3>1
  <2>4. CASE why = "empty"
    BY <1>3, <2>4 DEF Mark
  <2>5. CASE why = "end"
    BY <1>3, <2>5 DEF Mark
  <2> QED
    BY <1>3, <2>1, <2>2, <2>3, <2>4, <2>5
<1> HIDE DEF Mark
<1>5. TypeOK'
  <2>1. out' \in [kind : {"none", "dry", "error", "single", "merged"}, items : Seq(Nat),
                  marks : SUBSET {"truncated", "stopped", "exhausted"}, next : Nat]
    BY <1>1, <1>3, <1>4
  <2>2. retried' \in BOOLEAN
    BY <1>1 DEF IInv, TypeOK
  <2> QED
    BY <1>1, <2>1, <2>2 DEF IInv, TypeOK
<1>6. Place'
  BY <1>1, <1>2, <1>3 DEF IInv, Place
<1>7. Outcome'
  BY <1>1, <1>2, <1>3 DEF Outcome
<1>8. Streak'
  BY <1>1, <1>2 DEF IInv, Streak
<1>9. Followed'
  BY <1>1, <1>2 DEF IInv, Followed
<1>10. ContinuationExact'
  BY <1>1, <1>2, <1>3, <1>4 DEF ContinuationExact, Stopped, L
<1>11. UnmarkedIsComplete'
  BY <1>1, <1>2, <1>3, <1>4 DEF UnmarkedIsComplete, Stopped
<1> QED
  BY <1>5, <1>6, <1>7, <1>8, <1>9, <1>10, <1>11 DEF IInv

-----------------------------------------------------------------------------
(* The steps that receive a page. *)

LEMMA CountStep ==
    ASSUME IInv, NEW p \in Page, p.list # "other", Receive(p), CountEmpty,
           merged' = Merge(merged, p)
    PROVE  /\ streak' \in Nat /\ Streak'
           /\ (pc' = "finish" /\ why' = "empty") \/ (pc' = "loop" /\ why' = why)
<1> DEFINE same == Length(merged') = Length(merged)
<1>1. /\ streak \in Nat /\ streak < MaxEmpty /\ MaxEmpty \in Nat /\ pc = "request"
      /\ L' = L + 1 /\ L \in Nat /\ pages'[L + 1].page = p
  BY ReceiveType, PaginationAssumption DEF IInv, TypeOK, Streak
<1>2. /\ streak' = IF same THEN streak + 1 ELSE 0
      /\ IF same /\ streak + 1 >= MaxEmpty
         THEN pc' = "finish" /\ why' = "empty"
         ELSE pc' = "loop" /\ why' = why
  BY DEF CountEmpty
<1>3. p.n = 0 /\ p.list \in {"list", "absent"} => same
  BY MergeType DEF IInv
<1> HIDE DEF same
<1>4. Brings(pages'[L + 1]) \/ streak' = streak + 1
  <2>1. CASE same
    BY <1>2, <2>1
  <2>2. CASE ~same
    <3>1. p.n # 0 \/ p.list \in {"null", "other"}
      BY <1>3, <2>2, ReplyFacts
    <3>2. p.n \in Nat
      BY ReplyFacts
    <3> QED
      BY <1>1, <3>1, <3>2 DEF Brings
  <2> QED
    BY <2>1, <2>2
<1>5. streak' \in Nat /\ (pc' = "loop" => streak' < MaxEmpty)
  BY <1>1, <1>2
<1>6. Streak'
  BY <1>2, <1>4, <1>5, StreakExtends DEF Streak
<1> QED
  BY <1>2, <1>5, <1>6

\* What every reply has in common.
LEMMA PageFacts ==
    ASSUME IInv, NEW p \in Page, Receive(p)
    PROVE  /\ L \in Nat /\ L' = L + 1 /\ LastPage'.page = p /\ LastPage'.at = cursor
           /\ pc = "request" /\ why = "end" /\ ran' = ran + 1 /\ ran' = L'
           /\ out.kind = "none" /\ cmd' = cmd
<1>1. /\ L \in Nat /\ L' = L + 1 /\ LastPage'.page = p /\ LastPage'.at = cursor /\ pc = "request"
  BY ReceiveType DEF IInv
<1>2. ran' = ran + 1 /\ cmd' = cmd
  BY DEF Receive
<1>3. out.kind = "none" /\ ran = L /\ why = "end"
  BY <1>1 DEF IInv, Outcome, Place
<1> QED
  BY <1>1, <1>2, <1>3

LEMMA TokenPageStep ==
    ASSUME IInv, NEW p \in Page, TokenPage(p)
    PROVE  IInv'
<1>1. /\ mode = "token" /\ Receive(p)
      /\ UNCHANGED <<mode, pageCount, total, out>>
  BY DEF TokenPage
<1>2. /\ L \in Nat /\ L' = L + 1 /\ LastPage'.page = p /\ LastPage'.at = cursor
      /\ pc = "request" /\ why = "end" /\ ran' = L' /\ out.kind = "none" /\ cmd' = cmd
  BY <1>1, PageFacts
<1>3. /\ pages' \in Seq(Fetched) /\ ran' \in Nat /\ retried' \in BOOLEAN /\ cmd' \in Commands
  BY <1>1, ReceiveType DEF IInv
<1>4. /\ pageCount = L + 1 /\ L < MaxPages /\ MaxPages \in Nat /\ L >= 1
  BY <1>1, <1>2, PaginationAssumption DEF IInv, Place
<1>5. Followed'
  BY <1>1, ReceiveExtends
<1>6. Outcome' /\ out'.kind # "merged"
  <2>1. out' = out /\ out'.kind = "none" /\ pc' # "done" /\ ran' = L'
    BY <1>1, <1>2 DEF TokenPage, CountEmpty
  <2>2. out.kind # "merged" => out.marks = {}
    BY DEF IInv, Outcome
  <2> QED
    BY <2>1, <2>2 DEF Outcome
<1>7. CASE p.list = "other"
  <2>1. pc' = "finish" /\ UNCHANGED <<merged, cursor, streak, why>>
    BY <1>7 DEF TokenPage
  <2>2. TypeOK'
    BY <1>1, <1>3, <2>1 DEF IInv, TypeOK
  <2>3. Stopped(why)'
    BY <1>2, <1>7, <2>1 DEF Stopped
  <2>4. Place'
    BY <1>1, <1>2, <1>4, <2>1, <2>3 DEF Place
  <2>5. Streak'
    BY <1>1, <2>1, StreakExtends DEF Streak
  <2> QED
    BY <1>5, <1>6, <2>2, <2>4, <2>5, Undone DEF IInv
<1>8. CASE p.list # "other"
  <2>1. merged' = Merge(merged, p) /\ cursor' = p.next /\ CountEmpty
    BY <1>8 DEF TokenPage
  <2>2. /\ streak' \in Nat /\ Streak'
        /\ (pc' = "finish" /\ why' = "empty") \/ (pc' = "loop" /\ why' = why)
    BY <1>1, <1>8, <2>1, CountStep
  <2>3. merged' \in Lists /\ p.next \in Nat
    BY <1>8, <2>1, MergeType, ReplyFacts DEF IInv
  <2>4. TypeOK'
    BY <1>1, <1>2, <1>3, <2>1, <2>2, <2>3 DEF IInv, TypeOK, Lists
  <2>5. why' = "empty" => Stopped(why)'
    BY DEF Stopped
  <2>6. Place'
    BY <1>1, <1>2, <1>4, <2>1, <2>2, <2>5 DEF Place
  <2> QED
    BY <1>5, <1>6, <2>2, <2>4, <2>6, Undone DEF IInv
<1> QED
  BY <1>7, <1>8

LEMMA NumberPageStep ==
    ASSUME IInv, NEW p \in Page, NumberPage(p)
    PROVE  IInv'
<1>1. /\ mode = "number" /\ Receive(p)
      /\ UNCHANGED <<mode, cursor, total, out>>
  BY DEF NumberPage
<1>2. /\ L \in Nat /\ L' = L + 1 /\ LastPage'.page = p /\ LastPage'.at = cursor
      /\ pc = "request" /\ why = "end" /\ ran' = L' /\ out.kind = "none" /\ cmd' = cmd
  BY <1>1, PageFacts
<1>3. /\ pages' \in Seq(Fetched) /\ ran' \in Nat /\ retried' \in BOOLEAN /\ cmd' \in Commands
  BY <1>1, ReceiveType DEF IInv
<1>4. /\ pageCount = L /\ L < MaxPages /\ MaxPages \in Nat /\ L >= 1
  BY <1>1, <1>2, PaginationAssumption DEF IInv, Place
<1>5. Followed'
  BY <1>1, ReceiveExtends
<1>6. Outcome' /\ out'.kind # "merged"
  <2>1. out' = out /\ out'.kind = "none" /\ pc' # "done" /\ ran' = L'
    BY <1>1, <1>2 DEF NumberPage, CountEmpty
  <2>2. out.kind # "merged" => out.marks = {}
    BY DEF IInv, Outcome
  <2> QED
    BY <2>1, <2>2 DEF Outcome
<1>7. CASE p.list = "other"
  <2>1. pc' = "finish" /\ UNCHANGED <<merged, pageCount, streak, why>>
    BY <1>7 DEF NumberPage
  <2>2. TypeOK'
    BY <1>1, <1>3, <2>1 DEF IInv, TypeOK
  <2>3. Stopped(why)'
    BY <1>2, <1>7, <2>1 DEF Stopped
  <2>4. Place'
    BY <1>1, <1>2, <1>4, <2>1, <2>3 DEF Place
  <2>5. Streak'
    BY <1>1, <2>1, StreakExtends DEF Streak
  <2> QED
    BY <1>5, <1>6, <2>2, <2>4, <2>5, Undone DEF IInv
<1>8. CASE p.list # "other"
  <2>1. merged' = Merge(merged, p) /\ pageCount' = pageCount + 1
        /\ IF p.more THEN CountEmpty ELSE pc' = "finish" /\ UNCHANGED <<streak, why>>
    BY <1>8 DEF NumberPage
  <2>2. merged' \in Lists
    BY <1>8, <2>1, MergeType DEF IInv
  <2>3. CASE p.more
    <3>1. /\ streak' \in Nat /\ Streak'
          /\ (pc' = "finish" /\ why' = "empty") \/ (pc' = "loop" /\ why' = why)
      BY <1>1, <1>8, <2>1, <2>3, CountStep
    <3>2. p.more = TRUE
      BY <2>3, ReplyFacts
    <3>3. TypeOK'
      BY <1>1, <1>2, <1>3, <1>4, <2>1, <2>2, <3>1 DEF IInv, TypeOK, Lists
    <3>4. why' = "empty" => Stopped(why)'
      BY DEF Stopped
    <3>5. Place'
      BY <1>1, <1>2, <1>4, <2>1, <3>1, <3>2, <3>4 DEF Place
    <3> QED
      BY <1>5, <1>6, <3>1, <3>3, <3>5, Undone DEF IInv
  <2>4. CASE ~p.more
    <3>1. pc' = "finish" /\ UNCHANGED <<streak, why>>
      BY <2>1, <2>4
    <3>2. p.more = FALSE
      BY <2>4, ReplyFacts
    <3>3. TypeOK'
      BY <1>1, <1>2, <1>3, <1>4, <2>1, <2>2, <3>1 DEF IInv, TypeOK, Lists
    <3>4. Stopped(why)'
      BY <1>1, <1>2, <3>1, <3>2 DEF Stopped
    <3>5. Place'
      BY <1>1, <1>2, <1>4, <2>1, <3>1, <3>4 DEF Place
    <3>6. Streak'
      BY <1>1, <3>1, StreakExtends DEF Streak
    <3> QED
      BY <1>5, <1>6, <3>3, <3>5, <3>6, Undone DEF IInv
  <2> QED
    BY <2>3, <2>4
<1> QED
  BY <1>7, <1>8

LEMMA FirstPageStep ==
    ASSUME IInv, NEW p \in Page, FirstPage(p)
    PROVE  IInv'
<1>1. /\ mode = "first" /\ Receive(p) /\ UNCHANGED <<pageCount, streak, why>>
      /\ merged' = IF p.list = "other" THEN merged ELSE Merge(merged, p)
  BY DEF FirstPage
<1>2. /\ L \in Nat /\ L' = L + 1 /\ LastPage'.page = p /\ LastPage'.at = cursor
      /\ pc = "request" /\ why = "end" /\ ran' = ran + 1 /\ ran' = L'
      /\ out.kind = "none" /\ cmd' = cmd
  BY <1>1, PageFacts
<1>3. /\ pages' \in Seq(Fetched) /\ ran' \in Nat /\ retried' \in BOOLEAN /\ cmd' \in Commands
  BY <1>1, ReceiveType DEF IInv
<1>4. /\ L = 0 /\ L' = 1 /\ pageCount = 1 /\ cursor = cmd.start /\ cmd.start \in Nat
      /\ cmd.start <= MaxInt /\ MaxInt \in Nat /\ MaxPages \in Nat /\ MaxPages >= 1
  BY <1>1, <1>2, PaginationAssumption, CommandFacts DEF IInv, Place, TypeOK
<1>5. merged' \in Lists
  <2>1. CASE p.list = "other"
    BY <1>1, <2>1 DEF IInv, TypeOK, Lists
  <2>2. CASE p.list # "other"
    BY <1>1, <2>2, MergeType DEF IInv
  <2> QED
    BY <2>1, <2>2
<1>6. Followed'
  BY <1>4 DEF Followed
<1>7. Streak'
  BY <1>1, <1>2, <1>4, StreakExtends DEF IInv, Streak
<1>8. CASE pc' = "done"
  <2>1. /\ UNCHANGED <<mode, cursor, total>>
        /\ out' = Single \/ out' = EmptyResult("error")
    BY <1>8, EmptyResultIs DEF FirstPage, Abort
  <2>2. /\ Single = [kind |-> "single", items |-> merged'.items, marks |-> {}, next |-> 0]
        /\ merged'.items \in Seq(Nat)
    <3>1. merged'.items \in Seq(Nat)
      BY <1>5 DEF Lists
    <3> QED
      BY <3>1 DEF Single
  <2>3. /\ out' \in [kind : {"none", "dry", "error", "single", "merged"}, items : Seq(Nat),
                     marks : SUBSET {"truncated", "stopped", "exhausted"}, next : Nat]
        /\ out'.kind \in {"single", "error"} /\ out'.marks = {}
    <3>1. CASE out' = Single
      BY <2>2, <3>1
    <3>2. CASE out' = EmptyResult("error")
      BY <3>2 DEF EmptyResult
    <3> QED
      BY <2>1, <3>1, <3>2
  <2>4. TypeOK'
    BY <1>1, <1>3, <1>5, <1>8, <2>1, <2>3 DEF IInv, TypeOK, Lists
  <2>5. Place'
    BY <1>1, <1>2, <1>4, <1>8, <2>1 DEF Place
  <2>6. Outcome' /\ out'.kind # "merged"
    BY <1>2, <1>8, <2>3 DEF Outcome
  <2> QED
    BY <1>6, <1>7, <2>4, <2>5, <2>6, Undone DEF IInv
<1>9. CASE pc' # "done"
  <2>1. /\ pc' = "loop" /\ out' = out
        /\ \/ mode' = "token" /\ cursor' = p.next /\ total' = total
           \/ mode' = "number" /\ p.more /\ cmd.start # 0 /\ cursor' = cursor
              /\ total' \in Totals
    BY <1>9 DEF FirstPage, ByToken, ByNumber, Abort
  <2>2. p.next \in Nat
    BY ReplyFacts
  <2>3. mode' = "number" => p.more = TRUE /\ cursor' \in 1 .. MaxInt
    BY <1>4, <2>1, ReplyFacts
  <2>4. TypeOK'
    BY <1>1, <1>3, <1>4, <1>5, <2>1, <2>2, <2>3 DEF IInv, TypeOK, Lists
  <2>5. Place'
    BY <1>1, <1>2, <1>4, <2>1, <2>3 DEF Place
  <2>6. Outcome' /\ out'.kind # "merged"
    <3>1. out.kind # "merged" => out.marks = {}
      BY DEF IInv, Outcome
    <3> QED
      BY <1>2, <2>1, <3>1 DEF Outcome
  <2> QED
    BY <1>6, <1>7, <2>4, <2>5, <2>6, Undone DEF IInv
<1> QED
  BY <1>8, <1>9

LEMMA StutterStep ==
    ASSUME IInv, UNCHANGED vars
    PROVE  IInv'
<1>1. /\ L' = L /\ LastPage' = LastPage /\ AllThere' = AllThere /\ TokenParam' = TokenParam
      /\ cmd' = cmd /\ pc' = pc /\ mode' = mode /\ cursor' = cursor /\ merged' = merged
      /\ pageCount' = pageCount /\ streak' = streak /\ total' = total /\ why' = why
      /\ out' = out /\ pages' = pages /\ ran' = ran
  BY DEF vars, L, LastPage, AllThere, Length, TokenParam
<1>2. TypeOK'
  <2>1. retried' \in BOOLEAN
    BY DEF vars, IInv, TypeOK
  <2> QED
    BY <1>1, <2>1 DEF IInv, TypeOK
<1>3. Place' /\ Outcome'
  BY <1>1 DEF IInv, Place, Outcome, Stopped
<1>4. Streak' /\ Followed'
  BY <1>1 DEF IInv, Streak, Followed
<1>5. ContinuationExact' /\ UnmarkedIsComplete'
  BY <1>1 DEF IInv, ContinuationExact, UnmarkedIsComplete
<1> QED
  BY <1>2, <1>3, <1>4, <1>5 DEF IInv

LEMMA NextInv ==
    ASSUME IInv, [Next]_vars
    PROVE  IInv'
<1>1. CASE UNCHANGED vars
  BY <1>1, StutterStep
<1>2. CASE Execute
  BY <1>2, ExecuteStep
<1>3. CASE CallFails \/ Unauthorized \/ RefreshOK \/ RefreshFails
  BY <1>3, CallStep
<1>4. CASE SendToken \/ StopToken \/ SendNumber \/ StopNumber
  BY <1>4, LoopStep
<1>5. CASE Finish
  BY <1>5, FinishStep
<1>6. ASSUME NEW p \in Replies, FirstPage(p) \/ TokenPage(p) \/ NumberPage(p)
      PROVE  IInv'
  <2>1. p \in Page
    BY ReplyFacts
  <2> QED
    BY <1>6, <2>1, FirstPageStep, TokenPageStep, NumberPageStep
<1> QED
  BY <1>1, <1>2, <1>3, <1>4, <1>5, <1>6 DEF Next

-----------------------------------------------------------------------------
\* The invariant holds of every command against every server.
THEOREM Inductive == Spec => []IInv
<1>1. Init => IInv
  BY InitInv
<1>2. IInv /\ [Next]_vars => IInv'
  BY NextInv
<1> QED
  BY <1>1, <1>2, PTL DEF Spec

\* Cursors stay cursors: a page number never leaves the range of an int.
THEOREM Typed == Spec => []TypeOK
<1>1. IInv => TypeOK
  BY DEF IInv
<1> QED
  BY <1>1, Inductive, PTL

\* No page is skipped or fetched twice, whatever calls had to be repeated.
THEOREM Follows == Spec => []CursorFollowed
<1>1. IInv => CursorFollowed
  <2> SUFFICES ASSUME IInv, NEW i \in 2 .. Len(pages)
               PROVE  IF mode = "token"
                      THEN /\ pages[i].at = pages[i - 1].page.next /\ pages[i].at # 0
                           /\ pages[i].param \in cmd.declares \/ cmd.declares \cap TokenParams = {}
                      ELSE /\ mode = "number" /\ pages[i - 1].page.more
                           /\ pages[i].at = pages[i - 1].at + 1
    BY DEF CursorFollowed
  <2>1. L \in Nat /\ i \in 2 .. L /\ mode \in {"first", "token", "number"}
    BY DEF L, IInv, TypeOK
  <2>2. mode # "first"
    BY <2>1 DEF IInv, Place
  <2>3. TokenParam \in cmd.declares \/ cmd.declares \cap TokenParams = {}
    <3>1. cmd.declares \subseteq TokenParams \cup {"page_num"}
      BY PaginationAssumption DEF IInv, TypeOK, Command
    <3> QED
      BY <3>1 DEF TokenParam, TokenParams
  <2>4. CASE mode = "token"
    <3>1. /\ pages[i].at = pages[i - 1].page.next /\ pages[i].at # 0
          /\ pages[i].param = TokenParam
      BY <2>1, <2>4 DEF IInv, Followed
    <3> QED
      BY <2>3, <2>4, <3>1
  <2>5. CASE mode = "number"
    <3>1. pages[i - 1].page.more = TRUE /\ pages[i].at = pages[i - 1].at + 1
      BY <2>1, <2>5 DEF IInv, Followed
    <3> QED
      BY <2>5, <3>1
  <2> QED
    BY <2>1, <2>2, <2>4, <2>5
<1> QED
  BY <1>1, Inductive, PTL

\* A truncated result names the page to continue with.
THEOREM Continues == Spec => []ContinuationExact
<1>1. IInv => ContinuationExact
  BY DEF IInv
<1> QED
  BY <1>1, Inductive, PTL

\* A result without a mark is complete, unless a reply was no object.
THEOREM Complete == Spec => []UnmarkedIsComplete
<1>1. IInv => UnmarkedIsComplete
  BY DEF IInv
<1> QED
  BY <1>1, Inductive, PTL

\* The two limits hold against any server.
THEOREM Bounded == Spec => []NoRunaway
<1>1. IInv => NoRunaway
  BY DEF IInv, Place, Streak, NoRunaway, L
<1> QED
  BY <1>1, Inductive, PTL

\* A tool is never run again after a run whose reply was lost.
THEOREM Once == Spec => []RunOnce
<1>1. IInv => RunOnce
  <2> SUFFICES ASSUME IInv PROVE RunOnce
    OBVIOUS
  <2>1. L \in Nat
    BY DEF L, IInv, TypeOK
  <2> QED
    BY <2>1 DEF IInv, Outcome, RunOnce, L
<1> QED
  BY <1>1, Inductive, PTL

\* A command asks for a bounded number of pages, and the server runs no tool twice.
THEOREM PagesBounded == Spec => []RequestsBounded
  BY Bounded, Once, PTL DEF RequestsBounded

\* What a result says of its own completeness is true, whatever the server answers.
THEOREM Marked == Spec => []MarksAreTrue
  BY Continues, Complete, PTL DEF MarksAreTrue

\* The merged list.  ItemsOf(s, i) are the places of the items of page i in a list s.
ItemsOf(s, i) == {k \in 1 .. Len(s) : s[k] = i}

Sorted(s) == \A j, k \in 1 .. Len(s) : j < k => s[j] <= s[k]

\* So far, the list has the items of all pages since the last null one, in their order.
ListHolds ==
    /\ merged.list # "list" => merged.items = <<>>
    /\ \A k \in 1 .. Len(merged.items) : merged.items[k] \in 1 .. L
    /\ Sorted(merged.items)
    /\ \A i \in 1 .. L : Kept(i) => Cardinality(ItemsOf(merged.items, i)) = pages[i].page.n

MergedInv == ListHolds /\ (out.kind = "merged" => out.items = merged.items)

\* The items t of page m go behind those of s.
Lengthened(s, t, m) ==
    /\ Sorted(s \o t)
    /\ \A k \in 1 .. Len(s \o t) : (s \o t)[k] \in 1 .. m - 1 \cup {m}
    /\ Cardinality(ItemsOf(s \o t, m)) = Len(t)
    /\ \A i \in 1 .. m - 1 : ItemsOf(s \o t, i) = ItemsOf(s, i)

LEMMA Joined ==
  ASSUME NEW s \in Seq(Nat), NEW t \in Seq(Nat), NEW m \in Nat, Sorted(s),
         \A k \in 1 .. Len(s) : s[k] \in 1 .. m - 1, \A k \in 1 .. Len(t) : t[k] = m
  PROVE  Lengthened(s, t, m)
<1> DEFINE u == s \o t
           n == Len(t)
<1>2. /\ Len(s) \in Nat /\ n \in Nat /\ Len(u) = Len(s) + n
      /\ \A k \in 1 .. Len(s) : u[k] = s[k]
      /\ \A k \in Len(s) + 1 .. Len(s) + n : u[k] = m
  <2>1. Len(s) \in Nat /\ n \in Nat /\ Len(u) = Len(s) + n
    OBVIOUS
  <2>2. \A k \in 1 .. Len(s) + n : u[k] = IF k <= Len(s) THEN s[k] ELSE t[k - Len(s)]
    OBVIOUS
  <2> HIDE DEF u, n
  <2>3. ASSUME NEW k \in Len(s) + 1 .. Len(s) + n PROVE u[k] = m
    <3>1. k \in 1 .. Len(s) + n /\ ~(k <= Len(s)) /\ k - Len(s) \in 1 .. n
      BY <2>1
    <3>2. t[k - Len(s)] = m
      BY <3>1 DEF n
    <3> QED
      BY <2>2, <3>1, <3>2
  <2>4. ASSUME NEW k \in 1 .. Len(s) PROVE u[k] = s[k]
    BY <2>1, <2>2
  <2> QED
    BY <2>1, <2>3, <2>4
<1> HIDE DEF u, n
<1>3. \A k \in 1 .. Len(u) : k \in 1 .. Len(s) \/ k \in Len(s) + 1 .. Len(s) + n
  BY <1>2
<1>4. Sorted(u)
  <2> SUFFICES ASSUME NEW j \in 1 .. Len(u), NEW k \in 1 .. Len(u), j < k
               PROVE  u[j] <= u[k]
    BY DEF Sorted
  <2>1. CASE k \in 1 .. Len(s)
    <3>1. j \in 1 .. Len(s)
      BY <1>2, <2>1
    <3> QED
      BY <1>2, <2>1, <3>1 DEF Sorted
  <2>2. CASE k \in Len(s) + 1 .. Len(s) + n
    <3>1. u[k] = m
      BY <1>2, <2>2
    <3>2. CASE j \in 1 .. Len(s)
      <4>1. u[j] \in 1 .. m - 1
        BY <1>2, <3>2
      <4> QED
        BY <3>1, <4>1
    <3>3. CASE j \in Len(s) + 1 .. Len(s) + n
      BY <1>2, <3>1, <3>3
    <3> QED
      BY <1>3, <3>2, <3>3
  <2> QED
    BY <1>3, <2>1, <2>2
<1>5. ASSUME NEW k \in 1 .. Len(u) PROVE u[k] \in 1 .. m - 1 \cup {m}
  BY <1>2, <1>3
<1>6. Cardinality(ItemsOf(u, m)) = n
  <2>1. ItemsOf(u, m) = Len(s) + 1 .. Len(s) + n
    <3>1. ASSUME NEW k \in ItemsOf(u, m) PROVE k \in Len(s) + 1 .. Len(s) + n
      <4>1. k \in 1 .. Len(u) /\ u[k] = m
        BY DEF ItemsOf
      <4>2. k \notin 1 .. Len(s)
        BY <1>2, <4>1
      <4> QED
        BY <1>3, <4>1, <4>2
    <3>2. ASSUME NEW k \in Len(s) + 1 .. Len(s) + n PROVE k \in ItemsOf(u, m)
      <4>1. k \in 1 .. Len(u) /\ u[k] = m
        BY <1>2
      <4> QED
        BY <4>1 DEF ItemsOf
    <3> QED
      BY <3>1, <3>2
  <2>2. Cardinality(Len(s) + 1 .. Len(s) + n) = n
    <3>1. \A a, b \in Int : Cardinality(a .. b) = IF a > b THEN 0 ELSE b - a + 1
      BY FS_Interval
    <3>2. PICK a \in Int, b \in Int : a = Len(s) + 1 /\ b = Len(s) + n
      BY <1>2
    <3>3. Cardinality(a .. b) = IF a > b THEN 0 ELSE b - a + 1
      BY <3>1
    <3>4. n = IF a > b THEN 0 ELSE b - a + 1
      BY <1>2, <3>2
    <3> QED
      BY <3>2, <3>3, <3>4
  <2> QED
    BY <2>1, <2>2
<1>7. ASSUME NEW i \in 1 .. m - 1 PROVE ItemsOf(u, i) = ItemsOf(s, i)
  <2>1. ASSUME NEW k PROVE k \in ItemsOf(u, i) <=> k \in ItemsOf(s, i)
    <3>1. i # m
      OBVIOUS
    <3>2. k \in 1 .. Len(s) => k \in 1 .. Len(u)
      BY <1>2
    <3> QED
      BY <1>2, <1>3, <3>1, <3>2 DEF ItemsOf
  <2> QED
    BY <2>1
<1> QED
  BY <1>4, <1>5, <1>6, <1>7 DEF u, n, Lengthened

\* A page that arrives is merged as it should be.
LEMMA PageMerged ==
  ASSUME TypeOK, ListHolds, NEW p \in Replies, Receive(p),
         merged' = IF p.list = "other" THEN merged ELSE Merge(merged, p)
  PROVE  ListHolds'
<1>1. /\ p \in Page /\ p.n \in Nat /\ p.list \in {"list", "null", "absent", "other"}
      /\ p.list # "list" => p.n = 0
  <2>1. p \in Page /\ (p.list # "list" => p.n = 0)
    BY PaginationAssumption
  <2> QED
    BY <2>1, ReplyFacts
<1>2. /\ L \in Nat /\ L' = L + 1 /\ pages'[L + 1].page = p
      /\ \A i \in 1 .. L : pages'[i] = pages[i]
  BY <1>1, ReceiveType
<1>3. merged.items \in Seq(Nat) /\ merged.list \in {"list", "null", "absent"}
  BY DEF TypeOK
<1>4. Len(pages) = L /\ Len(pages)' = L + 1
  BY <1>2 DEF L
\* Of the pages before, the ones that still count did so before.
<1>5. ASSUME NEW i \in 1 .. L, Kept(i)'
      PROVE  Kept(i) /\ p.list # "null" /\ pages'[i].page.n = pages[i].page.n
  <2>1. pages'[i].page.list = "list"
        /\ \A j \in i + 1 .. L + 1 : pages'[j].page.list # "null"
    BY <1>4, <1>5 DEF Kept
  <2>2. L + 1 \in i + 1 .. L + 1 /\ \A j \in i + 1 .. L : j \in i + 1 .. L + 1 /\ j \in 1 .. L
    BY <1>2
  <2> QED
    BY <1>2, <1>4, <2>1, <2>2 DEF Kept
<1>6. ASSUME NEW i \in 1 .. L + 1, Kept(i)', p.list # "list"
      PROVE  i \in 1 .. L
  BY <1>2, <1>6 DEF Kept
\* Nothing is added: the page has no list.
<1>7. CASE p.list \in {"absent", "other"}
  <2>1. merged' = merged
    BY <1>7 DEF Merge
  <2>2. ASSUME NEW i \in 1 .. L + 1, Kept(i)'
        PROVE  Cardinality(ItemsOf(merged.items, i)) = pages'[i].page.n
    <3>1. i \in 1 .. L
      BY <1>6, <1>7, <2>2
    <3> QED
      BY <1>5, <2>2, <3>1 DEF ListHolds
  <2>3. \A k \in 1 .. Len(merged.items) : merged.items[k] \in 1 .. L + 1
    BY <1>2 DEF ListHolds
  <2> QED
    BY <1>2, <2>1, <2>2, <2>3 DEF ListHolds
\* A null list takes everything with it.
<1>8. CASE p.list = "null"
  <2>1. Items(p) = <<>>
    BY <1>1, <1>8 DEF Items
  <2>2. merged'.items = <<>> /\ merged'.list = "null"
    BY <1>8, <2>1 DEF Merge
  <2>3. ASSUME NEW i \in 1 .. L + 1, Kept(i)' PROVE FALSE
    <3>1. i \in 1 .. L
      BY <1>6, <1>8, <2>3
    <3> QED
      BY <1>5, <1>8, <2>3, <3>1
  <2> QED
    BY <1>2, <2>2, <2>3 DEF ListHolds, Sorted
\* A list goes behind the ones that are there.
<1>9. CASE p.list = "list"
  <2>1. Items(p) = [i \in 1 .. p.n |-> L + 1]
    BY DEF Items, L
  <2>2. merged'.list = "list" /\ merged'.items = merged.items \o Items(p)
    <3>1. CASE merged.list = "list"
      BY <1>9, <3>1 DEF Merge
    <3>2. CASE merged.list # "list"
      <4>1. merged.items = <<>> /\ merged' = [list |-> "list", items |-> Items(p)]
        BY <1>9, <3>2 DEF Merge, ListHolds
      <4>2. Items(p) \in Seq(Nat)
        BY <1>1, ItemsType
      <4>3. merged.items \o Items(p) = Items(p)
        BY <4>1, <4>2
      <4>4. merged'.list = "list" /\ merged'.items = Items(p)
        BY <4>1
      <4> QED
        BY <4>3, <4>4
    <3> QED
      BY <3>1, <3>2
  <2>3. PICK m \in Nat : m = L + 1
    BY <1>2
  <2>4. /\ Sorted(merged'.items)
        /\ \A k \in 1 .. Len(merged'.items) : merged'.items[k] \in 1 .. m - 1 \cup {m}
        /\ Cardinality(ItemsOf(merged'.items, m)) = p.n
        /\ \A i \in 1 .. m - 1 : ItemsOf(merged'.items, i) = ItemsOf(merged.items, i)
    <3>1. Sorted(merged.items) /\ \A k \in 1 .. Len(merged.items) : merged.items[k] \in 1 .. L
      BY DEF ListHolds
    <3>2. \A k \in 1 .. Len(merged.items) : merged.items[k] \in 1 .. m - 1
      BY <1>2, <2>3, <3>1
    <3>3. PICK t \in Seq(Nat) : t = Items(p)
      BY <1>1, ItemsType
    <3>4. Len(t) = p.n /\ \A k \in 1 .. Len(t) : t[k] = m
      BY <1>1, <2>1, <2>3, <3>3
    <3>5. Lengthened(merged.items, t, m)
      BY <1>3, <3>1, <3>2, <3>4, Joined
    <3>6. merged'.items = merged.items \o t
      BY <2>2, <3>3
    <3> QED
      BY <3>4, <3>5, <3>6, Zenon DEF Lengthened
  <2>5. \A k \in 1 .. Len(merged'.items) : merged'.items[k] \in 1 .. L + 1
    BY <1>2, <2>3, <2>4
  <2>6. ASSUME NEW i \in 1 .. L + 1, Kept(i)'
        PROVE  Cardinality(ItemsOf(merged'.items, i)) = pages'[i].page.n
    <3>1. CASE i = L + 1
      BY <1>2, <2>3, <2>4, <3>1
    <3>2. CASE i \in 1 .. L
      BY <1>2, <1>5, <2>3, <2>4, <2>6, <3>2 DEF ListHolds
    <3> QED
      BY <1>2, <3>1, <3>2
  <2> QED
    BY <1>2, <2>2, <2>4, <2>5, <2>6 DEF ListHolds
<1> QED
  BY <1>1, <1>7, <1>8, <1>9

\* Whatever pages the server gives, the merged list loses, doubles and moves no item.
THEOREM Merges == Spec => []NothingLost
<1>1. Init => MergedInv
  BY DEF Init, MergedInv, ListHolds, Sorted, NoResult, L
<1>2. IInv /\ MergedInv /\ [Next]_vars => MergedInv'
  <2> SUFFICES ASSUME IInv, MergedInv, [Next]_vars PROVE MergedInv'
    OBVIOUS
  <2>1. TypeOK /\ (pc # "done" <=> out.kind = "none")
    BY DEF IInv, Outcome
  <2>2. ASSUME UNCHANGED <<merged, pages>>,
               out' = out \/ out'.kind # "merged" \/ out'.items = merged.items
        PROVE  MergedInv'
    BY <2>2 DEF MergedInv, ListHolds, L, Kept
  <2>3. CASE UNCHANGED vars
    BY <2>2, <2>3 DEF vars
  <2>4. CASE Execute \/ CallFails \/ Unauthorized \/ RefreshOK \/ RefreshFails
    <3>1. UNCHANGED <<merged, pages>>
      BY <2>4 DEF Execute, CallFails, Unauthorized, RefreshOK, RefreshFails
    <3>2. out' = out \/ out' = [NoResult EXCEPT !.kind = "error"]
                     \/ out' = [NoResult EXCEPT !.kind = "dry"]
      BY <2>4 DEF Execute, CallFails, Unauthorized, RefreshOK, RefreshFails, Abort
    <3>3. out' = out \/ out'.kind # "merged"
      BY <3>2 DEF NoResult
    <3> QED
      BY <2>2, <3>1, <3>3
  <2>5. CASE SendToken \/ StopToken \/ SendNumber \/ StopNumber
    <3>1. UNCHANGED <<merged, pages>>
      BY <2>5 DEF SendToken, StopToken, SendNumber, StopNumber
    <3>2. out' = out \/ out' = [NoResult EXCEPT !.kind = "error"]
      BY <2>5 DEF SendToken, StopToken, SendNumber, StopNumber, Abort
    <3>3. out' = out \/ out'.kind # "merged"
      BY <3>2 DEF NoResult
    <3> QED
      BY <2>2, <3>1, <3>3
  <2>6. CASE Finish
    <3>1. UNCHANGED <<merged, pages>> /\ out'.items = merged.items
      BY <2>6 DEF Finish
    <3> QED
      BY <2>2, <3>1
  <2>7. ASSUME NEW p \in Replies, FirstPage(p) \/ TokenPage(p) \/ NumberPage(p)
        PROVE  MergedInv'
    <3>1. Receive(p) /\ merged' = IF p.list = "other" THEN merged ELSE Merge(merged, p)
      BY <2>7 DEF FirstPage, TokenPage, NumberPage
    <3>2. out.kind # "merged"
      BY <2>1, <3>1 DEF Receive
    <3>3. out' = out \/ out' = [NoResult EXCEPT !.kind = "error"] \/ out' = Single
      BY <2>7 DEF FirstPage, TokenPage, NumberPage, Abort
    <3>4. out'.kind # "merged"
      BY <3>2, <3>3 DEF NoResult, Single
    <3>5. ListHolds'
      BY <2>1, <3>1, PageMerged DEF MergedInv
    <3> QED
      BY <3>4, <3>5 DEF MergedInv
  <2> QED
    BY <2>3, <2>4, <2>5, <2>6, <2>7 DEF Next
<1>3. MergedInv => NothingLost
  <2> SUFFICES ASSUME MergedInv, out.kind = "merged" PROVE NothingLost
    BY DEF NothingLost
  <2>1. out.items = merged.items
    BY DEF MergedInv
  <2>2. /\ \A i \in 1 .. Len(pages) : Kept(i) => Cardinality(ItemsOf(out.items, i)) = pages[i].page.n
        /\ Sorted(out.items)
    BY <2>1 DEF MergedInv, ListHolds, L
  <2> QED
    BY <2>2 DEF NothingLost, ItemsOf, Sorted
<1> QED
  BY <1>1, <1>2, <1>3, Inductive, PTL DEF Spec

\* The pages are the ones the server has, from the first on, and so is the list.
THEOREM InOrderOfPages == Spec => []PagesInOrder
  BY Follows, Merges, PTL DEF PagesInOrder

-----------------------------------------------------------------------------
(***************************************************************************)
(* Batch, for any input, any number of workers and any cap on the IDs.     *)
(***************************************************************************)

\* Finite sets of positions have an order.
LEMMA OrderExists ==
    ASSUME NEW S, S \subseteq Int, IsFiniteSet(S)
    PROVE  \E f \in [1 .. Cardinality(S) -> S] :
              \A k, l \in 1 .. Cardinality(S) : k < l => f[k] < f[l]
<1> DEFINE n == Cardinality(S)
           Below(x) == {y \in S : y <= x}
           rank == [x \in S |-> Cardinality(Below(x))]
<1>0. n \in Nat
  BY FS_CardinalityType
<1>1. ASSUME NEW x \in S
      PROVE  /\ IsFiniteSet(Below(x)) /\ Cardinality(Below(x)) \in 1 .. n
             /\ \A y \in S : y < x => Cardinality(Below(y)) < Cardinality(Below(x))
  <2>1. IsFiniteSet(Below(x)) /\ Cardinality(Below(x)) <= n
    BY FS_Subset
  <2>2. Cardinality(Below(x)) \in Nat
    BY <2>1, FS_CardinalityType
  <2>3. Cardinality(Below(x)) # 0
    <3>1. x \in Below(x)
      OBVIOUS
    <3> QED
      BY <2>1, <3>1, FS_EmptySet
  <2>4. ASSUME NEW y \in S, y < x
        PROVE  Cardinality(Below(y)) < Cardinality(Below(x))
    <3>1. Below(y) \in SUBSET Below(x) /\ x \in Below(x) /\ x \notin Below(y)
      <4>1. x \in Int /\ y \in Int /\ \A z \in S : z \in Int
        OBVIOUS
      <4>2. \A z \in S : z <= y => z <= x
        BY <2>4, <4>1
      <4>3. x <= x /\ ~(x <= y)
        BY <2>4, <4>1
      <4> QED
        BY <4>2, <4>3
    <3>2. /\ IsFiniteSet(Below(y)) /\ Cardinality(Below(y)) <= Cardinality(Below(x))
          /\ Cardinality(Below(x)) # Cardinality(Below(y))
      <4> HIDE DEF Below
      <4> QED
        BY <2>1, <3>1, FS_Subset
    <3>3. Cardinality(Below(y)) \in Nat
      BY <3>2, FS_CardinalityType
    <3> QED
      BY <2>2, <3>2, <3>3
  <2> QED
    BY <1>0, <2>1, <2>2, <2>3, <2>4
<1>2. rank \in Injection(S, 1 .. n)
  <2>1. rank \in [S -> 1 .. n]
    BY <1>1
  <2>2. ASSUME NEW x \in S, NEW y \in S, x # y PROVE rank[x] # rank[y]
    <3>1. x < y \/ y < x
      BY <2>2
    <3>2. rank[x] = Cardinality(Below(x)) /\ rank[y] = Cardinality(Below(y))
      OBVIOUS
    <3> HIDE DEF Below
    <3>3. Cardinality(Below(x)) \in 1 .. n /\ Cardinality(Below(y)) \in 1 .. n
      BY <1>1
    <3>4. /\ x < y => Cardinality(Below(x)) < Cardinality(Below(y))
          /\ y < x => Cardinality(Below(y)) < Cardinality(Below(x))
      BY <1>1
    <3> HIDE DEF rank
    <3> QED
      BY <1>0, <3>1, <3>2, <3>3, <3>4
  <2> QED
    BY <2>1, <2>2 DEF Injection, IsInjective
<1>3. rank \in Surjection(S, 1 .. n)
  <2>1. IsFiniteSet(1 .. n) /\ Cardinality(1 .. n) = n
    BY <1>0, FS_Interval
  <2> HIDE DEF rank
  <2> QED
    BY <1>2, <2>1, FS_Injection
<1> DEFINE f == [k \in 1 .. n |-> CHOOSE x \in S : rank[x] = k]
<1>4. \A k \in 1 .. n : f[k] \in S /\ rank[f[k]] = k
  <2> SUFFICES ASSUME NEW k \in 1 .. n PROVE f[k] \in S /\ rank[f[k]] = k
    OBVIOUS
  <2>1. \E x \in S : rank[x] = k
    BY <1>3 DEF Surjection
  <2> QED
    BY <2>1
<1>5. f \in [1 .. n -> S]
  BY <1>4
<1>6. ASSUME NEW k \in 1 .. n, NEW l \in 1 .. n, k < l PROVE f[k] < f[l]
  <2>1. f[k] \in S /\ f[l] \in S /\ f[k] \in Int /\ f[l] \in Int
    BY <1>4
  <2>2. rank[f[k]] = k /\ rank[f[l]] = l
    BY <1>4
  <2>3. Cardinality(Below(f[k])) = k /\ Cardinality(Below(f[l])) = l
    <3> HIDE DEF f, Below
    <3> QED
      BY <2>1, <2>2
  <2>4. f[l] < f[k] => l < k
    <3> HIDE DEF f, Below
    <3> QED
      BY <1>1, <2>1, <2>3
  <2>5. f[l] # f[k]
    <3> HIDE DEF f
    <3> QED
      BY <1>6, <2>2
  <2> HIDE DEF f, rank
  <2> QED
    BY <1>6, <2>1, <2>4, <2>5
<1> HIDE DEF f
<1> QED
  BY <1>5, <1>6

\* InOrder lists each member once, and the smaller ones first.
LEMMA Ordered ==
    ASSUME NEW S, S \subseteq Int, IsFiniteSet(S)
    PROVE  /\ Cardinality(S) \in Nat
           /\ InOrder(S) \in [1 .. Cardinality(S) -> S]
           /\ \A k, l \in 1 .. Cardinality(S) : k < l => InOrder(S)[k] < InOrder(S)[l]
           /\ \A x \in S : \E k \in 1 .. Cardinality(S) : InOrder(S)[k] = x
<1> DEFINE n == Cardinality(S)
           f == InOrder(S)
<1>1. f \in [1 .. n -> S] /\ \A k, l \in 1 .. n : k < l => f[k] < f[l]
  BY OrderExists DEF InOrder
<1>2. n \in Nat
  BY FS_CardinalityType
<1>3. \A k \in 1 .. n : f[k] \in Int
  BY <1>1
<1>4. ASSUME NEW k \in 1 .. n, NEW l \in 1 .. n, f[k] = f[l] PROVE k = l
  <2>1. k < l \/ l < k \/ k = l
    BY <1>2
  <2> HIDE DEF f
  <2> QED
    BY <1>1, <1>3, <1>4, <2>1
<1>5. f \in Injection(1 .. n, S)
  <2> HIDE DEF f
  <2> QED
    BY <1>1, <1>4 DEF Injection, IsInjective
<1>6. Cardinality(1 .. n) = n
  BY <1>2, FS_Interval
<1>7. f \in Surjection(1 .. n, S)
  <2> HIDE DEF f
  <2> QED
    BY <1>5, <1>6, FS_Injection
<1> HIDE DEF f
<1>8. \A x \in S : \E k \in 1 .. n : f[k] = x
  BY <1>7 DEF Surjection
<1> QED
  BY <1>1, <1>2, <1>8 DEF f

\* A selection has the selected elements, one for each position, and no other.
LEMMA Selects ==
    ASSUME NEW T, NEW s \in Seq(T), NEW S \in SUBSET DOMAIN s
    PROVE  /\ Selected(s, S) \in Seq(T)
           /\ \A k \in DOMAIN Selected(s, S) : \E i \in S : Selected(s, S)[k] = s[i]
           /\ \A i \in S : \E k \in DOMAIN Selected(s, S) : Selected(s, S)[k] = s[i]
           /\ \A k, l \in DOMAIN Selected(s, S) : k # l =>
                \E i, j \in S : i # j /\ Selected(s, S)[k] = s[i] /\ Selected(s, S)[l] = s[j]
<1> DEFINE f == InOrder(S)
           n == Cardinality(S)
<1>1. Len(s) \in Nat /\ DOMAIN s = 1 .. Len(s) /\ \A i \in DOMAIN s : s[i] \in T
  OBVIOUS
<1>2. S \subseteq Int /\ IsFiniteSet(S)
  <2>1. IsFiniteSet(1 .. Len(s))
    BY <1>1, FS_Interval
  <2>2. S \subseteq 1 .. Len(s)
    BY <1>1
  <2> QED
    BY <1>1, <2>1, <2>2, FS_Subset
<1>3. /\ n \in Nat /\ f \in [1 .. n -> S] /\ \A k, l \in 1 .. n : k < l => f[k] < f[l]
      /\ \A x \in S : \E k \in 1 .. n : f[k] = x
  BY <1>2, Ordered
<1> HIDE DEF f, n
<1>4. Selected(s, S) = [k \in 1 .. n |-> s[f[k]]]
  BY <1>3 DEF Selected, f
<1>5. Selected(s, S) \in Seq(T)
  BY <1>1, <1>3, <1>4
<1>6. ASSUME NEW k \in 1 .. n, NEW l \in 1 .. n, k # l PROVE f[k] # f[l]
  <2>1. f[k] \in Int /\ f[l] \in Int /\ (k < l \/ l < k)
    BY <1>2, <1>3, <1>6
  <2> QED
    BY <1>3, <2>1
<1>7. DOMAIN Selected(s, S) = 1 .. n /\ \A k \in 1 .. n : f[k] \in S /\ Selected(s, S)[k] = s[f[k]]
  BY <1>3, <1>4
<1>8. ASSUME NEW i \in S PROVE \E k \in 1 .. n : Selected(s, S)[k] = s[i]
  BY <1>3, <1>7
<1> QED
  BY <1>5, <1>6, <1>7, <1>8

\* A set of naturals that is not empty has a smallest member.
LEMMA Smallest ==
    ASSUME NEW S \in SUBSET Nat, S # {}
    PROVE  \E m \in S : \A k \in S : m <= k
<1> PICK b \in S : TRUE
  OBVIOUS
<1> DEFINE T == {k \in S : k <= b}
           n == Cardinality(T)
           f == InOrder(T)
<1>1. T \subseteq Int /\ IsFiniteSet(T) /\ b \in T
  <2>1. T \in SUBSET (0 .. b)
    <3> SUFFICES ASSUME NEW k \in T PROVE k \in 0 .. b
      OBVIOUS
    <3> QED
      OBVIOUS
  <2>2. IsFiniteSet(0 .. b)
    BY FS_Interval
  <2>3. b \in T
    OBVIOUS
  <2> QED
    BY <2>1, <2>2, <2>3, FS_Subset
<1>2. /\ n \in Nat /\ f \in [1 .. n -> T]
      /\ \A k, l \in 1 .. n : k < l => f[k] < f[l]
      /\ \A x \in T : \E k \in 1 .. n : f[k] = x
  <2> HIDE DEF T
  <2> QED
    BY <1>1, Ordered
<1>3. 1 \in 1 .. n /\ f[1] \in T
  <2> HIDE DEF T, f
  <2> QED
    BY <1>1, <1>2
<1>4. \A x \in T : f[1] <= x
  <2> HIDE DEF T, f
  <2> SUFFICES ASSUME NEW x \in T PROVE f[1] <= x
    OBVIOUS
  <2>1. PICK k \in 1 .. n : f[k] = x
    BY <1>2
  <2>2. k = 1 \/ 1 < k
    BY <1>2
  <2>3. f[1] \in Int /\ f[k] \in Int
    BY <1>1, <1>2, <1>3
  <2>4. 1 < k => f[1] < f[k]
    BY <1>2, <1>3
  <2> QED
    BY <2>1, <2>2, <2>3, <2>4
<1>5. ASSUME NEW k \in S PROVE f[1] <= k
  <2>1. CASE k <= b
    <3> HIDE DEF f
    <3> QED
      BY <1>4, <2>1
  <2>2. CASE ~(k <= b)
    <3>1. f[1] <= b /\ f[1] \in Int
      <4> HIDE DEF f, T
      <4> QED
        BY <1>1, <1>3, <1>4
    <3> HIDE DEF f
    <3> QED
      BY <2>2, <3>1
  <2> QED
    BY <2>1, <2>2
<1> HIDE DEF f
<1> QED
  BY <1>3, <1>5

-----------------------------------------------------------------------------
(* Numbers: two spellings have one key exactly when they stand for one number. *)

Integral == {n \in Spellings : IsInteger(n)}

\* The first and the last digit that count.
LEMMA DigitEnds ==
    ASSUME NEW n \in Spellings, Significant(n) # {}
    PROVE  /\ Min(Significant(n)) \in Significant(n) /\ Max(Significant(n)) \in Significant(n)
           /\ \A i \in Significant(n) : Min(Significant(n)) <= i /\ i <= Max(Significant(n))
<1> DEFINE S == Significant(n)
           T == {Len(n.digits) - i : i \in S}
<1>1. Len(n.digits) \in Nat /\ S \subseteq 1 .. Len(n.digits)
  BY DEF Spellings, Significant
<1>2. S \in SUBSET Nat /\ S # {}
  BY <1>1
<1>3. T \in SUBSET Nat /\ T # {}
  BY <1>1
<1> HIDE DEF S
<1>4. \E x \in S : \A y \in S : x =< y
  BY <1>2, Smallest
<1>5. \E x \in S : \A y \in S : x >= y
  <2>1. PICK t \in T : \A u \in T : t <= u
    <3> HIDE DEF T
    <3> QED
      BY <1>3, Smallest
  <2>2. PICK x \in S : t = Len(n.digits) - x
    BY <2>1
  <2>3. ASSUME NEW y \in S PROVE x >= y
    <3>1. Len(n.digits) - x <= Len(n.digits) - y
      BY <2>1, <2>2
    <3>2. x \in Nat /\ y \in Nat
      BY <1>2
    <3> QED
      BY <1>1, <3>1, <3>2
  <2> QED
    BY <2>3
<1>6. Min(S) \in S /\ \A y \in S : Min(S) =< y
  BY <1>4 DEF Min
<1>7. Max(S) \in S /\ \A y \in S : Max(S) >= y
  BY <1>5 DEF Max
<1>8. \A y \in S : y <= Max(S)
  <2>1. \A y \in S : y \in Nat
    BY <1>2
  <2> QED
    BY <1>7, <2>1
<1> QED
  BY <1>6, <1>7, <1>8 DEF S

\* What a key holds of a number that is not zero: the digits between its ends, and the
\* power of the last one.
LEMMA KeyParts ==
    ASSUME NEW n \in Spellings, Significant(n) # {}
    PROVE  LET first == Min(Significant(n))
               last == Max(Significant(n))
           IN  /\ first \in Nat /\ last \in Nat /\ 1 <= first /\ first <= last
               /\ last <= Len(n.digits)
               /\ Key(n).negative = n.negative
               /\ Key(n).exponent = Power(n, last)
               /\ Key(n).coefficient = SubSeq(n.digits, first, last)
               /\ Len(Key(n).coefficient) = last - first + 1
               /\ \A i \in first .. last : Key(n).coefficient[i - first + 1] = n.digits[i]
<1> DEFINE first == Min(Significant(n))
           last == Max(Significant(n))
           digits == n.digits
<1>1. digits \in Seq(0 .. 9) /\ Len(digits) \in Nat /\ n.fraction \in Nat /\ n.exponent \in Int
  BY DEF Spellings
<1>2. Significant(n) \subseteq 1 .. Len(digits)
  BY <1>1 DEF Significant
<1>3. first \in Significant(n) /\ last \in Significant(n) /\ first <= last
  BY DigitEnds
<1>4. /\ first \in Nat /\ last \in Nat /\ 1 <= first /\ first <= last /\ last <= Len(digits)
      /\ first \in Int /\ last \in Int
  BY <1>1, <1>2, <1>3
<1>5. Key(n) = [negative |-> n.negative, coefficient |-> SubSeq(digits, first, last),
                exponent |-> n.exponent + (Len(digits) - last - n.fraction)]
  BY DEF Key
<1>6. Key(n).exponent = Power(n, last)
  <2>1. n.exponent + (Len(digits) - last - n.fraction) = Len(digits) - last + n.exponent - n.fraction
    <3> HIDE DEF last
    <3> QED
      BY <1>1, <1>4
  <2> QED
    BY <1>5, <2>1 DEF Power
<1>7. Key(n).negative = n.negative /\ Key(n).coefficient = SubSeq(digits, first, last)
  <2> DEFINE part == SubSeq(digits, first, last)
             exponent == n.exponent + (Len(digits) - last - n.fraction)
  <2>1. Key(n) = [negative |-> n.negative, coefficient |-> part, exponent |-> exponent]
    BY <1>5
  <2> HIDE DEF part, exponent
  <2>2. Key(n).negative = n.negative /\ Key(n).coefficient = part
    BY <2>1
  <2> QED
    BY <2>2 DEF part
<1> HIDE DEF first, last, digits
<1>8. \A i \in first .. last : digits[i] \in 0 .. 9
  BY <1>1, <1>4
<1>9. /\ Len(SubSeq(digits, first, last)) = last - first + 1
      /\ \A j \in 1 .. last - first + 1 : SubSeq(digits, first, last)[j] = digits[first + j - 1]
  BY <1>4, <1>8, SubSeqProperties
<1>10. ASSUME NEW i \in first .. last
      PROVE  SubSeq(digits, first, last)[i - first + 1] = digits[i]
  <2>1. i - first + 1 \in 1 .. last - first + 1 /\ first + (i - first + 1) - 1 = i
    BY <1>4
  <2> QED
    BY <1>9, <2>1
<1>11. Len(Key(n).coefficient) = last - first + 1
  BY <1>9, <1>7
<1>12. \A i \in first .. last : Key(n).coefficient[i - first + 1] = digits[i]
  BY <1>10, <1>7
<1>13. /\ first \in Nat /\ last \in Nat /\ 1 <= first /\ first <= last /\ last <= Len(digits)
       /\ Key(n).negative = n.negative /\ Key(n).exponent = Power(n, last)
  BY <1>4, <1>6, <1>7
<1> QED
  BY <1>7, <1>11, <1>12, <1>13 DEF first, last, digits

\* Zero has no other key than its own.
LEMMA KeyOfZero ==
    ASSUME NEW m \in Spellings, NEW n \in Spellings, Key(m) = Key(n)
    PROVE  Significant(m) = {} <=> Significant(n) = {}
<1>1. ASSUME NEW x \in Spellings, Significant(x) # {} PROVE Len(Key(x).coefficient) # 0
  <2> DEFINE first == Min(Significant(x))
             last == Max(Significant(x))
  <2>1. first \in Nat /\ last \in Nat /\ first <= last /\ Len(Key(x).coefficient) = last - first + 1
    BY <1>1, KeyParts
  <2> HIDE DEF first, last
  <2> QED
    BY <2>1
<1>2. ASSUME NEW x \in Spellings, Significant(x) = {} PROVE Len(Key(x).coefficient) = 0
  <2>1. Key(x).coefficient = <<>>
    BY <1>2 DEF Key, Zero
  <2> QED
    BY <2>1
<1> QED
  BY <1>1, <1>2

\* The powers of two digits of a number differ as their places do.
LEMMA PowersFall ==
    ASSUME NEW n \in Spellings, NEW i \in Int, NEW j \in Int
    PROVE  /\ Power(n, i) \in Int /\ Power(n, i) - Power(n, j) = j - i
  BY DEF Spellings, Power

LEMMA KeyToValue ==
    ASSUME NEW m \in Spellings, NEW n \in Spellings, Key(m) = Key(n)
    PROVE  Value(m).digits \subseteq Value(n).digits
<1> SUFFICES ASSUME NEW i \in Significant(m)
             PROVE  \E j \in Significant(n) : <<Power(m, i), m.digits[i]>> = <<Power(n, j), n.digits[j]>>
  BY DEF Value
<1> DEFINE fm == Min(Significant(m))
           lm == Max(Significant(m))
           fn == Min(Significant(n))
           ln == Max(Significant(n))
           j == i - fm + fn
<1>1. Significant(m) # {} /\ Significant(n) # {}
  BY KeyOfZero
<1>2. /\ fm \in Nat /\ lm \in Nat /\ fm <= lm /\ Key(m).exponent = Power(m, lm)
      /\ Len(Key(m).coefficient) = lm - fm + 1
      /\ \A k \in fm .. lm : Key(m).coefficient[k - fm + 1] = m.digits[k]
  BY <1>1, KeyParts
<1>3. /\ fn \in Nat /\ ln \in Nat /\ 1 <= fn /\ fn <= ln /\ ln <= Len(n.digits)
      /\ Key(n).exponent = Power(n, ln)
      /\ Len(Key(n).coefficient) = ln - fn + 1
      /\ \A k \in fn .. ln : Key(n).coefficient[k - fn + 1] = n.digits[k]
  BY <1>1, KeyParts
<1>4. /\ fm <= i /\ i <= lm
      /\ m.digits[i] # 0
  <2>1. fm <= i /\ i <= lm
    BY <1>1, DigitEnds
  <2>2. m.digits[i] # 0
    BY DEF Significant
  <2> QED
    BY <2>1, <2>2
<1>5. i \in Int
  BY DEF Significant, Spellings
<1> HIDE DEF fm, lm, fn, ln
<1> fm \in Int /\ lm \in Int /\ fn \in Int /\ ln \in Int
  BY <1>2, <1>3
<1>6. lm - fm = ln - fn
  <2>1. lm - fm + 1 = ln - fn + 1
    BY <1>2, <1>3
  <2> QED
    BY <2>1
<1>7. i \in fm .. lm /\ j \in fn .. ln /\ j \in Int /\ j - fn + 1 = i - fm + 1 /\ lm - i = ln - j
  <2>1. i \in fm .. lm
    <3>1. fm <= i /\ i <= lm
      BY <1>4
    <3> QED
      BY <1>5, <3>1
  <2>2. j \in Int /\ j - fn + 1 = i - fm + 1 /\ lm - i = ln - j
    BY <1>5, <1>6
  <2>3. fn <= j /\ j <= ln
    BY <1>5, <1>6, <2>1
  <2> QED
    BY <2>1, <2>2, <2>3
<1> HIDE DEF j
<1>8. m.digits[i] = n.digits[j]
  <2>1. Key(m).coefficient[i - fm + 1] = m.digits[i]
    BY <1>2, <1>7
  <2>2. Key(n).coefficient[j - fn + 1] = n.digits[j]
    BY <1>3, <1>7
  <2> QED
    BY <1>7, <2>1, <2>2
<1>9. j \in Significant(n)
  <2>1. DOMAIN n.digits = 1 .. Len(n.digits) /\ Len(n.digits) \in Nat
    BY DEF Spellings
  <2>2. j \in DOMAIN n.digits
    BY <1>3, <1>7, <2>1
  <2> QED
    BY <1>4, <1>8, <2>2 DEF Significant
<1>10. Power(m, i) = Power(n, j)
  <2> lm \in Int /\ ln \in Int
    BY <1>2, <1>3
  <2>1. Power(m, i) \in Int /\ Power(m, lm) \in Int /\ Power(m, i) - Power(m, lm) = lm - i
    BY <1>5, PowersFall
  <2>2. Power(n, j) \in Int /\ Power(n, ln) \in Int /\ Power(n, j) - Power(n, ln) = ln - j
    BY <1>7, PowersFall
  <2>3. Power(m, lm) = Power(n, ln)
    BY <1>2, <1>3
  <2> QED
    BY <1>7, <2>1, <2>2, <2>3
<1> QED
  BY <1>8, <1>9, <1>10

\* The powers of the ends of m lie between those of n, if all its digits are digits of n.
LEMMA EndsWithin ==
    ASSUME NEW m \in Spellings, NEW n \in Spellings, Significant(m) # {},
           Value(m).digits \subseteq Value(n).digits
    PROVE  /\ Significant(n) # {}
           /\ Power(m, Max(Significant(m))) >= Power(n, Max(Significant(n)))
           /\ Power(m, Min(Significant(m))) <= Power(n, Min(Significant(n)))
<1> DEFINE fn == Min(Significant(n))
           ln == Max(Significant(n))
<1>1. ASSUME NEW i \in Significant(m)
      PROVE  /\ Significant(n) # {}
             /\ Power(m, i) >= Power(n, ln) /\ Power(m, i) <= Power(n, fn)
  <2>1. <<Power(m, i), m.digits[i]>> \in Value(n).digits
    BY DEF Value
  <2>2. PICK j \in Significant(n) : <<Power(m, i), m.digits[i]>> = <<Power(n, j), n.digits[j]>>
    BY <2>1 DEF Value
  <2>3. Power(m, i) = Power(n, j)
    BY <2>2
  <2>4. Significant(n) # {} /\ fn <= j /\ j <= ln /\ fn \in Significant(n) /\ ln \in Significant(n)
    BY DigitEnds
  <2>5. fn \in Int /\ ln \in Int /\ j \in Int
    BY <2>4 DEF Significant, Spellings
  <2> HIDE DEF fn, ln
  <2>6. Power(n, j) - Power(n, ln) = ln - j /\ Power(n, j) \in Int /\ Power(n, ln) \in Int
    BY <2>5, PowersFall
  <2>7. Power(n, j) - Power(n, fn) = fn - j /\ Power(n, fn) \in Int
    BY <2>5, PowersFall
  <2> QED
    BY <2>3, <2>4, <2>5, <2>6, <2>7
<1>2. Max(Significant(m)) \in Significant(m) /\ Min(Significant(m)) \in Significant(m)
  BY DigitEnds
<1> QED
  BY <1>1, <1>2

LEMMA ValueToKey ==
    ASSUME NEW m \in Spellings, NEW n \in Spellings, Value(m) = Value(n)
    PROVE  Key(m) = Key(n)
<1> DEFINE fm == Min(Significant(m))
           lm == Max(Significant(m))
           fn == Min(Significant(n))
           ln == Max(Significant(n))
<1>1. Value(m).digits = Value(n).digits
  OBVIOUS
<1>2. CASE Significant(m) = {}
  <2>1. Significant(n) = {}
    BY <1>1, <1>2, EndsWithin
  <2> QED
    BY <1>2, <2>1 DEF Key
<1>3. CASE Significant(m) # {}
  <2>1. Significant(n) # {}
    BY <1>1, <1>3, EndsWithin
  <2>2. Power(m, lm) >= Power(n, ln) /\ Power(m, fm) <= Power(n, fn)
    BY <1>1, <1>3, EndsWithin
  <2>3. Power(n, ln) >= Power(m, lm) /\ Power(n, fn) <= Power(m, fm)
    BY <1>1, <2>1, EndsWithin
  <2>4. /\ fm \in Nat /\ lm \in Nat /\ 1 <= fm /\ fm <= lm /\ lm <= Len(m.digits)
        /\ Key(m).coefficient = SubSeq(m.digits, fm, lm)
        /\ Len(Key(m).coefficient) = lm - fm + 1
        /\ \A k \in fm .. lm : Key(m).coefficient[k - fm + 1] = m.digits[k]
    BY <1>3, KeyParts
  <2>5. /\ fn \in Nat /\ ln \in Nat /\ 1 <= fn /\ fn <= ln /\ ln <= Len(n.digits)
        /\ Key(n).coefficient = SubSeq(n.digits, fn, ln)
        /\ Len(Key(n).coefficient) = ln - fn + 1
        /\ \A k \in fn .. ln : Key(n).coefficient[k - fn + 1] = n.digits[k]
    BY <2>1, KeyParts
  <2>6. /\ Key(m).exponent = Power(m, lm) /\ Key(n).exponent = Power(n, ln)
        /\ Key(m).negative = m.negative /\ Key(n).negative = n.negative
    BY <1>3, <2>1, KeyParts
  <2>7. m.negative = n.negative
    <3>1. (m.negative /\ Significant(m) # {}) = (n.negative /\ Significant(n) # {})
      BY DEF Value
    <3>2. m.negative \in BOOLEAN /\ n.negative \in BOOLEAN
      BY DEF Spellings
    <3> QED
      BY <1>3, <2>1, <3>1, <3>2
  <2> HIDE DEF fm, lm, fn, ln
  <2>8. Power(m, lm) = Power(n, ln) /\ lm - fm = ln - fn
    <3>1. /\ Power(m, fm) - Power(m, lm) = lm - fm
          /\ Power(m, lm) \in Int /\ Power(m, fm) \in Int
      BY <2>4, PowersFall
    <3>2. /\ Power(n, fn) - Power(n, ln) = ln - fn
          /\ Power(n, ln) \in Int /\ Power(n, fn) \in Int
      BY <2>5, PowersFall
    <3> QED
      BY <2>2, <2>3, <2>4, <2>5, <3>1, <3>2
  <2>9. ASSUME NEW k \in 1 .. lm - fm + 1
        PROVE  m.digits[fm + k - 1] = n.digits[fn + k - 1]
    <3> DEFINE i == fm + k - 1
               j == fn + k - 1
    <3>1. /\ i \in fm .. lm /\ j \in fn .. ln /\ i \in Int /\ j \in Int
          /\ lm - i = ln - j
      BY <2>4, <2>5, <2>8
    <3>2. i \in DOMAIN m.digits /\ j \in DOMAIN n.digits
      <4>1. /\ DOMAIN m.digits = 1 .. Len(m.digits) /\ Len(m.digits) \in Nat
            /\ DOMAIN n.digits = 1 .. Len(n.digits) /\ Len(n.digits) \in Nat
        BY DEF Spellings
      <4> QED
        BY <2>4, <2>5, <3>1, <4>1
    <3> HIDE DEF i, j
    <3>3. Power(m, i) = Power(n, j)
      <4>1. Power(m, i) \in Int /\ Power(m, lm) \in Int /\ Power(m, i) - Power(m, lm) = lm - i
        BY <2>4, <3>1, PowersFall
      <4>2. Power(n, j) \in Int /\ Power(n, ln) \in Int /\ Power(n, j) - Power(n, ln) = ln - j
        BY <2>5, <3>1, PowersFall
      <4> QED
        BY <2>8, <3>1, <4>1, <4>2
    <3>4. ASSUME m.digits[i] # 0 PROVE n.digits[j] = m.digits[i]
      <4>1. i \in Significant(m)
        BY <3>2, <3>4 DEF Significant
      <4>2. <<Power(m, i), m.digits[i]>> \in Value(n).digits
        BY <1>1, <4>1 DEF Value
      <4>3. PICK x \in Significant(n) : <<Power(m, i), m.digits[i]>> = <<Power(n, x), n.digits[x]>>
        BY <4>2 DEF Value
      <4>4. Power(n, j) = Power(n, x) /\ x \in Int
        BY <3>3, <4>3 DEF Significant, Spellings
      <4>5. x = j
        <5>1. Power(n, j) \in Int /\ Power(n, j) - Power(n, x) = x - j
          BY <3>1, <4>4, PowersFall
        <5>2. Power(n, x) \in Int
          BY <4>4, PowersFall
        <5> QED
          BY <3>1, <4>4, <5>1, <5>2
      <4> QED
        BY <4>3, <4>5
    <3>5. ASSUME n.digits[j] # 0 PROVE n.digits[j] = m.digits[i]
      <4>1. j \in Significant(n)
        BY <3>2, <3>5 DEF Significant
      <4>2. <<Power(n, j), n.digits[j]>> \in Value(m).digits
        BY <1>1, <4>1 DEF Value
      <4>3. PICK x \in Significant(m) : <<Power(n, j), n.digits[j]>> = <<Power(m, x), m.digits[x]>>
        BY <4>2 DEF Value
      <4>4. Power(m, i) = Power(m, x) /\ x \in Int
        BY <3>3, <4>3 DEF Significant, Spellings
      <4>5. x = i
        <5>1. Power(m, i) \in Int /\ Power(m, i) - Power(m, x) = x - i
          BY <3>1, <4>4, PowersFall
        <5>2. Power(m, x) \in Int
          BY <4>4, PowersFall
        <5> QED
          BY <3>1, <4>4, <5>1, <5>2
      <4> QED
        BY <4>3, <4>5
    <3> QED
      BY <3>4, <3>5 DEF i, j
  <2>10. SubSeq(m.digits, fm, lm) = SubSeq(n.digits, fn, ln)
    <3> fm \in Int /\ lm \in Int /\ fn \in Int /\ ln \in Int /\ lm - fm = ln - fn
      BY <2>4, <2>5, <2>8
    <3> DEFINE dm == m.digits
               dn == n.digits
    <3>1. /\ \A k \in fm .. lm : dm[k] \in 0 .. 9
          /\ \A k \in fn .. ln : dn[k] \in 0 .. 9
      <4>1. dm \in Seq(0 .. 9) /\ dn \in Seq(0 .. 9)
        BY DEF Spellings
      <4>2. 1 <= fm /\ lm <= Len(dm) /\ 1 <= fn /\ ln <= Len(dn)
        BY <2>4, <2>5
      <4> HIDE DEF dm, dn
      <4> QED
        BY <4>1, <4>2
    <3>2. \A k \in 1 .. lm - fm + 1 : dm[fm + k - 1] = dn[fn + k - 1]
      BY <2>9
    <3> HIDE DEF dm, dn
    <3>3. /\ SubSeq(dm, fm, lm) \in Seq(0 .. 9)
          /\ Len(SubSeq(dm, fm, lm)) = lm - fm + 1
          /\ \A k \in 1 .. lm - fm + 1 : SubSeq(dm, fm, lm)[k] = dm[fm + k - 1]
      BY <2>4, <3>1, SubSeqProperties
    <3>4. /\ SubSeq(dn, fn, ln) \in Seq(0 .. 9)
          /\ Len(SubSeq(dn, fn, ln)) = ln - fn + 1
          /\ \A k \in 1 .. ln - fn + 1 : SubSeq(dn, fn, ln)[k] = dn[fn + k - 1]
      BY <2>5, <3>1, SubSeqProperties
    <3>5. \A k \in 1 .. lm - fm + 1 : SubSeq(dm, fm, lm)[k] = SubSeq(dn, fn, ln)[k]
      BY <3>2, <3>3, <3>4
    <3>6. SubSeq(dm, fm, lm) = SubSeq(dn, fn, ln)
      BY <3>3, <3>4, <3>5, SeqEqual
    <3> QED
      BY <3>6 DEF dm, dn
  <2>11. Key(m) = [negative |-> m.negative, coefficient |-> SubSeq(m.digits, fm, lm),
                   exponent |-> Power(m, lm)]
    BY <1>3, <2>4, <2>6 DEF Key
  <2>12. Key(n) = [negative |-> n.negative, coefficient |-> SubSeq(n.digits, fn, ln),
                   exponent |-> Power(n, ln)]
    BY <2>1, <2>5, <2>6 DEF Key
  <2> QED
    BY <2>7, <2>8, <2>10, <2>11, <2>12
<1> QED
  BY <1>2, <1>3

(***************************************************************************)
(* canonicalIntegerKey tells numbers apart, and nothing else: two          *)
(* spellings, with whatever digits, fraction and exponent, have the same   *)
(* key exactly when they stand for the same number.                        *)
(***************************************************************************)
THEOREM KeyIsValue == \A m, n \in Spellings : Key(m) = Key(n) <=> Value(m) = Value(n)
<1> SUFFICES ASSUME NEW m \in Spellings, NEW n \in Spellings
             PROVE  Key(m) = Key(n) <=> Value(m) = Value(n)
  OBVIOUS
<1>1. ASSUME Key(m) = Key(n) PROVE Value(m) = Value(n)
  <2>1. Value(m).digits \subseteq Value(n).digits /\ Value(n).digits \subseteq Value(m).digits
    BY <1>1, KeyToValue
  <2>2. (Significant(m) = {}) = (Significant(n) = {})
    BY <1>1, KeyOfZero
  <2>3. Significant(m) # {} => m.negative = n.negative
    BY <1>1, <2>2, KeyParts
  <2>4. (m.negative /\ Significant(m) # {}) = (n.negative /\ Significant(n) # {})
    BY <2>2, <2>3
  <2> QED
    BY <2>1, <2>4 DEF Value
<1> QED
  BY <1>1, ValueToKey

\* No digit of an integer stands behind the point.
LEMMA IntegerDigits ==
    ASSUME NEW n \in Integral
    PROVE  \A d \in Value(n).digits : d[1] >= 0
<1> SUFFICES ASSUME NEW i \in Significant(n) PROVE Power(n, i) >= 0
  BY DEF Value
<1> DEFINE last == Max(Significant(n))
<1>1. n \in Spellings /\ Power(n, last) >= 0
  BY DEF Integral, IsInteger
<1>2. i <= last /\ last \in Significant(n)
  BY <1>1, DigitEnds
<1>3. i \in Int /\ last \in Int
  BY <1>1, <1>2 DEF Significant, Spellings
<1> HIDE DEF last
<1>4. Power(n, i) \in Int /\ Power(n, last) \in Int /\ Power(n, i) - Power(n, last) = last - i
  BY <1>1, <1>3, PowersFall
<1> QED
  BY <1>1, <1>2, <1>3, <1>4

-----------------------------------------------------------------------------
Busy == {"check", "call"}

BatchTypeInv ==
    /\ raw \in Seq(Spellings \cup {NotANumber}) /\ ids \in Seq(Integral)
    /\ fed \in 0 .. Len(ids) /\ taken \in 0 .. fed
    /\ wpc \in [Workers -> {"off", "range", "done"} \cup Busy]
    /\ job \in [Workers -> 0 .. Len(ids)]
    /\ slot \in [Indices -> {"zero", "data", "error"}]
    /\ answers \in [Indices -> {<<>>} \cup {<<a>> : a \in {"data", "error", "unauthorized"}}]
    /\ firstErr \in 0 .. Len(ids) /\ cancelled \in BOOLEAN
    /\ outcome \in {"none", "invalid", "running", "unauthorized", "cancelled", "response"}

\* Before the IDs are known, and once Execute has returned.
PhaseInv ==
    /\ outcome \in {"none", "invalid"} =>
         /\ fed = 0 /\ taken = 0 /\ firstErr = 0
         /\ \A w \in Workers : wpc[w] = "off" /\ job[w] = 0
    /\ outcome \notin {"none", "invalid"} =>
         /\ Len(ids) # 0
         /\ \A w \in Workers : wpc[w] # "off"
    /\ outcome \in {"unauthorized", "cancelled", "response"} =>
         fed = Len(ids) /\ \A w \in Workers : wpc[w] = "done"
    /\ outcome \in {"cancelled", "response"} => firstErr = 0
    /\ outcome = "response" => ~cancelled

\* Each index has one owner until it is answered, or dropped when the calls are
\* cancelled.
OwnerInv ==
    /\ \A w \in Workers : wpc[w] \in Busy => job[w] \in 1 .. taken /\ answers[job[w]] = <<>>
    /\ \A v, w \in Workers : wpc[v] \in Busy /\ wpc[w] \in Busy /\ job[v] = job[w] => v = w
    /\ \A k \in Indices : k > taken => answers[k] = <<>>
    /\ \A k \in 1 .. taken :
         \/ answers[k] # <<>> \/ FanDone
         \/ \E w \in Workers : wpc[w] \in Busy /\ job[w] = k

\* A worker leaves when there is nothing more to take, or when the calls are cancelled.
LeaveInv ==
    \A w \in Workers : wpc[w] = "done" /\ w <= Len(ids) => FanDone \/ taken = Len(ids)

AnswerInv ==
    \A k \in Indices :
        \/ answers[k] \in {<<>>, <<slot[k]>>}
        \/ answers[k] = <<"unauthorized">> /\ firstErr # 0

\* The IDs are those of the input, each key once, in the order of first appearance.
IdsInv ==
    outcome \notin {"none", "invalid"} =>
        /\ raw \in Seq(Integral)
        /\ \A i \in DOMAIN raw : \E k \in Indices : Key(ids[k]) = Key(raw[i])
        /\ \A k, l \in Indices :
             k < l => \E i \in DOMAIN raw : /\ Key(raw[i]) = Key(ids[k])
                                            /\ \A j \in 1 .. i : Key(raw[j]) # Key(ids[l])

BatchInv == BatchTypeInv /\ PhaseInv /\ OwnerInv /\ LeaveInv /\ AnswerInv /\ IdsInv

LEMMA InitBatch == BatchInit => BatchInv
<1> SUFFICES ASSUME BatchInit PROVE BatchInv
  OBVIOUS
<1> USE BatchAssumption DEF BatchInit
<1>1. raw \in Seq(Spellings \cup {NotANumber}) /\ Len(ids) = 0 /\ Indices = {} /\ Workers \subseteq Nat \ {0}
  BY DEF Indices, Workers
<1>2. BatchTypeInv
  <2>1. /\ ids \in Seq(Integral) /\ fed \in 0 .. Len(ids) /\ taken \in 0 .. fed
        /\ firstErr \in 0 .. Len(ids) /\ 0 \in 0 .. Len(ids)
    BY <1>1
  <2>2. job \in [Workers -> 0 .. Len(ids)]
    BY <2>1
  <2>3. slot \in [Indices -> {"zero", "data", "error"}]
    BY <1>1
  <2>4. answers \in [Indices -> {<<>>} \cup {<<a>> : a \in {"data", "error", "unauthorized"}}]
    BY <1>1
  <2> QED
    BY <1>1, <2>1, <2>2, <2>3, <2>4 DEF BatchTypeInv
<1>3. PhaseInv /\ OwnerInv /\ LeaveInv /\ AnswerInv /\ IdsInv
  BY <1>1 DEF PhaseInv, OwnerInv, LeaveInv, AnswerInv, IdsInv, Busy
<1> QED
  BY <1>2, <1>3 DEF BatchInv

\* What collectBatchIDs makes of the input.
LEMMA Collected ==
    ASSUME raw \in Seq(Integral), raw # <<>>
    PROVE  LET first == InOrder(FirstPositions(raw))
               n == Cardinality(FirstPositions(raw))
           IN  /\ n \in Nat \ {0} /\ first \in [1 .. n -> DOMAIN raw]
               /\ \A i \in DOMAIN raw : \E k \in 1 .. n : Key(raw[first[k]]) = Key(raw[i])
               /\ \A k, l \in 1 .. n :
                    k < l => \A j \in 1 .. first[k] : Key(raw[j]) # Key(raw[first[l]])
<1> DEFINE F == FirstPositions(raw)
           first == InOrder(F)
           n == Cardinality(F)
<1>1. DOMAIN raw = 1 .. Len(raw) /\ Len(raw) \in Nat
  OBVIOUS
<1>2. F \subseteq DOMAIN raw /\ F \subseteq Int /\ IsFiniteSet(F)
  <2>1. F \subseteq DOMAIN raw
    BY DEF FirstPositions
  <2>2. IsFiniteSet(1 .. Len(raw))
    BY <1>1, FS_Interval
  <2> QED
    BY <1>1, <2>1, <2>2, FS_Subset
<1>3. /\ n \in Nat /\ first \in [1 .. n -> F]
      /\ \A k, l \in 1 .. n : k < l => first[k] < first[l]
      /\ \A x \in F : \E k \in 1 .. n : first[k] = x
  <2> HIDE DEF F
  <2> QED
    BY <1>2, Ordered
<1>4. ASSUME NEW i \in DOMAIN raw
      PROVE  \E k \in 1 .. n : Key(raw[first[k]]) = Key(raw[i])
  <2> DEFINE Same == {j \in DOMAIN raw : Key(raw[j]) = Key(raw[i])}
  <2>1. Same \in SUBSET Nat /\ Same # {}
    BY <1>1
  <2>2. PICK m \in Same : \A j \in Same : m <= j
    <3> HIDE DEF Same
    <3> QED
      BY <2>1, Smallest
  <2>3. m \in F
    <3>1. ASSUME NEW j \in 1 .. m - 1 PROVE Key(raw[j]) # Key(raw[m])
      <4>1. j \in DOMAIN raw /\ ~(m <= j)
        BY <1>1
      <4> QED
        BY <2>2, <4>1
    <3> QED
      BY <3>1 DEF FirstPositions
  <2>4. PICK k \in 1 .. n : first[k] = m
    BY <1>3, <2>3
  <2> QED
    BY <2>4
<1>5. ASSUME NEW k \in 1 .. n, NEW l \in 1 .. n, k < l, NEW j \in 1 .. first[k]
      PROVE  Key(raw[j]) # Key(raw[first[l]])
  <2>1. first[k] < first[l] /\ first[k] \in DOMAIN raw /\ first[l] \in F /\ first[l] \in DOMAIN raw
    <3> HIDE DEF F, first
    <3> QED
      BY <1>2, <1>3, <1>5
  <2>2. j \in 1 .. first[l] - 1
    <3> HIDE DEF F, first
    <3> QED
      BY <1>1, <2>1
  <2> QED
    BY <2>1, <2>2 DEF FirstPositions
<1>6. n # 0
  <2>1. 1 \in DOMAIN raw
    BY <1>1
  <2> HIDE DEF first, F
  <2> QED
    BY <1>3, <1>4, <2>1
<1>7. first \in [1 .. n -> DOMAIN raw]
  <2> HIDE DEF first, F
  <2> QED
    BY <1>2, <1>3
<1> QED
  BY <1>3, <1>4, <1>5, <1>6, <1>7

LEMMA CollectKeeps == ASSUME BatchInv, Collect PROVE BatchInv'
<1> DEFINE first == InOrder(FirstPositions(raw))
           n == Cardinality(FirstPositions(raw))
<1>0. raw \in Seq(Integral) /\ raw # <<>>
  <2>1. raw \in Seq(Spellings \cup {NotANumber}) /\ raw # <<>> /\ AllIntegers
    BY DEF Collect, BatchInv, BatchTypeInv
  <2>2. \A i \in DOMAIN raw : raw[i] \in Integral
    BY <2>1 DEF AllIntegers, Integral
  <2> QED
    BY <2>1, <2>2
<1>1. /\ n \in Nat \ {0} /\ first \in [1 .. n -> DOMAIN raw]
      /\ \A i \in DOMAIN raw : \E k \in 1 .. n : Key(raw[first[k]]) = Key(raw[i])
      /\ \A k, l \in 1 .. n :
           k < l => \A j \in 1 .. first[k] : Key(raw[j]) # Key(raw[first[l]])
  BY <1>0, Collected
<1>a. Selected(raw, FirstPositions(raw)) = [k \in DOMAIN first |-> raw[first[k]]]
  BY DEF Selected
<1>b. LET new == Selected(raw, FirstPositions(raw))
      IN  /\ ids' = new
          /\ slot' = [k \in DOMAIN new |-> "zero"]
          /\ answers' = [k \in DOMAIN new |-> <<>>]
          /\ wpc' = [w \in Workers |-> IF w <= Len(new) THEN "range" ELSE "done"]
          /\ outcome = "none" /\ outcome' = "running"
          /\ UNCHANGED <<raw, cancelled, fed, taken, job, firstErr>>
  BY DEF Collect
<1> HIDE DEF first, n
<1>d. DOMAIN first = 1 .. n
  BY <1>1
<1>2. LET new == [k \in DOMAIN first |-> raw[first[k]]] IN DOMAIN new = 1 .. n /\ Len(new) = n
  BY <1>1, <1>d
<1>c. /\ ids' = [k \in DOMAIN first |-> raw[first[k]]]
      /\ slot' = [k \in DOMAIN first |-> "zero"]
      /\ answers' = [k \in DOMAIN first |-> <<>>]
      /\ wpc' = [w \in Workers |-> IF w <= n THEN "range" ELSE "done"]
      /\ outcome = "none" /\ outcome' = "running"
      /\ UNCHANGED <<raw, cancelled, fed, taken, job, firstErr>>
  BY <1>a, <1>b, <1>d, <1>2
<1>3. ids' \in Seq(Integral) /\ Len(ids') = n /\ Indices' = 1 .. n
  <2>1. \A k \in 1 .. n : raw[first[k]] \in Integral
    BY <1>0, <1>1
  <2>2. ids' \in [1 .. n -> Integral] /\ DOMAIN ids' = 1 .. n
    BY <1>c, <1>d, <2>1
  <2> QED
    BY <1>1, <2>2 DEF Indices
<1>4. fed' = 0 /\ taken' = 0 /\ firstErr' = 0 /\ \A w \in Workers : job'[w] = 0
  BY <1>c DEF BatchInv, PhaseInv
<1>5. job' \in [Workers -> 0 .. n] /\ cancelled' \in BOOLEAN
  BY <1>1, <1>4, <1>c DEF BatchInv, BatchTypeInv
<1>6. /\ slot' \in [1 .. n -> {"zero", "data", "error"}]
      /\ answers' \in [1 .. n -> {<<>>} \cup {<<a>> : a \in {"data", "error", "unauthorized"}}]
      /\ \A k \in 1 .. n : answers'[k] = <<>>
      /\ wpc' \in [Workers -> {"off", "range", "done"} \cup Busy]
  BY <1>c, <1>d
<1>7. /\ \A w \in Workers : wpc'[w] \notin Busy /\ wpc'[w] # "off"
      /\ \A w \in Workers : wpc'[w] = "done" => ~(w <= n)
  BY <1>2, <1>c DEF Busy
<1>8. BatchTypeInv'
  <2>1. raw' \in Seq(Spellings \cup {NotANumber})
    BY <1>c DEF BatchInv, BatchTypeInv
  <2>2. fed' \in 0 .. Len(ids') /\ taken' \in 0 .. fed' /\ firstErr' \in 0 .. Len(ids')
    BY <1>1, <1>3, <1>4
  <2>3. outcome' \in {"none", "invalid", "running", "unauthorized", "cancelled", "response"}
    BY <1>c
  <2> QED
    BY <1>3, <1>5, <1>6, <2>1, <2>2, <2>3 DEF BatchTypeInv
<1>9. PhaseInv' /\ OwnerInv' /\ LeaveInv' /\ AnswerInv'
  BY <1>1, <1>3, <1>4, <1>6, <1>7, <1>c DEF PhaseInv, OwnerInv, LeaveInv, AnswerInv
<1>10. IdsInv'
  <2>1. \A k \in 1 .. n : ids'[k] = raw[first[k]] /\ first[k] \in DOMAIN raw
    <3>1. \A k \in 1 .. n : first[k] \in DOMAIN raw
      BY <1>1
    <3>2. \A k \in DOMAIN first : ids'[k] = raw[first[k]]
      BY <1>c
    <3> QED
      BY <1>d, <3>1, <3>2
  <2>2. \A i \in DOMAIN raw : \E k \in 1 .. n : Key(ids'[k]) = Key(raw[i])
    <3> SUFFICES ASSUME NEW i \in DOMAIN raw
                 PROVE  \E k \in 1 .. n : Key(ids'[k]) = Key(raw[i])
      OBVIOUS
    <3>1. PICK k \in 1 .. n : Key(raw[first[k]]) = Key(raw[i])
      BY <1>1
    <3>2. ids'[k] = raw[first[k]]
      BY <2>1
    <3> QED
      BY <3>1, <3>2
  <2>3. ASSUME NEW k \in 1 .. n, NEW l \in 1 .. n, k < l
        PROVE  \E i \in DOMAIN raw : /\ Key(raw[i]) = Key(ids'[k])
                                     /\ \A j \in 1 .. i : Key(raw[j]) # Key(ids'[l])
    <3>1. /\ first[k] \in DOMAIN raw /\ Key(raw[first[k]]) = Key(ids'[k])
          /\ \A j \in 1 .. first[k] : Key(raw[j]) # Key(ids'[l])
      <4>1. ids'[k] = raw[first[k]] /\ ids'[l] = raw[first[l]] /\ first[k] \in DOMAIN raw
        BY <2>1
      <4>2. \A j \in 1 .. first[k] : Key(raw[j]) # Key(raw[first[l]])
        BY <1>1, <2>3
      <4> QED
        BY <4>1, <4>2
    <3> QED
      BY <3>1
  <2> QED
    BY <1>0, <1>3, <1>c, <2>2, <2>3 DEF IdsInv
<1> QED
  BY <1>8, <1>9, <1>10 DEF BatchInv

\* Steps that leave the input and the IDs alone keep what is known of them.
LEMMA IdsKept ==
    ASSUME BatchInv, UNCHANGED <<raw, ids>>,
           outcome \in {"none", "invalid"} => outcome' \in {"none", "invalid"}
    PROVE  IdsInv'
<1>1. CASE outcome \in {"none", "invalid"}
  BY <1>1 DEF IdsInv
<1>2. CASE outcome \notin {"none", "invalid"}
  <2>1. raw' = raw /\ ids' = ids /\ Indices' = Indices
    BY DEF Indices
  <2>2. /\ raw \in Seq(Integral)
        /\ \A i \in DOMAIN raw : \E k \in Indices : Key(ids[k]) = Key(raw[i])
        /\ \A k, l \in Indices :
             k < l => \E i \in DOMAIN raw : /\ Key(raw[i]) = Key(ids[k])
                                            /\ \A j \in 1 .. i : Key(raw[j]) # Key(ids[l])
    BY <1>2 DEF BatchInv, IdsInv
  <2> QED
    BY <2>1, <2>2 DEF IdsInv
<1> QED
  BY <1>1, <1>2

LEMMA ParentKeeps == ASSUME BatchInv, CollectFails \/ Cancel \/ Feed PROVE BatchInv'
<1> USE DEF Indices, FanDone
<1>1. CASE CollectFails
  <2>1. IdsInv'
    BY <1>1, IdsKept DEF CollectFails, workVars
  <2> QED
    BY <1>1, <2>1 DEF CollectFails, workVars, BatchInv, BatchTypeInv, PhaseInv, OwnerInv,
                      LeaveInv, AnswerInv
<1>2. CASE Cancel
  <2>1. IdsInv'
    BY <1>2, IdsKept DEF Cancel, workVars
  <2> QED
    BY <1>2, <2>1 DEF Cancel, workVars, BatchInv, BatchTypeInv, PhaseInv, OwnerInv,
                      LeaveInv, AnswerInv
<1>3. CASE Feed
  <2>1. IdsInv'
    BY <1>3, IdsKept DEF Feed
  <2>2. BatchTypeInv'
    BY <1>3 DEF Feed, BatchInv, BatchTypeInv
  <2> QED
    BY <1>3, <2>1, <2>2 DEF Feed, BatchInv, PhaseInv, OwnerInv, LeaveInv, AnswerInv
<1> QED
  BY <1>1, <1>2, <1>3

LEMMA ReturnKeeps == ASSUME BatchInv, Return PROVE BatchInv'
<1> USE DEF Indices, FanDone
<1>1. IdsInv'
  BY IdsKept DEF Return, workVars
<1>2. BatchTypeInv'
  BY DEF Return, workVars, BatchInv, BatchTypeInv
<1>3. PhaseInv'
  BY DEF Return, workVars, BatchInv, PhaseInv
<1> QED
  BY <1>1, <1>2, <1>3 DEF Return, workVars, BatchInv, OwnerInv, LeaveInv, AnswerInv

\* While a worker works, the batch is running.
LEMMA Running ==
    ASSUME BatchInv, NEW w \in Workers, wpc[w] \notin {"off", "done"}
    PROVE  outcome = "running"
  BY DEF BatchInv, BatchTypeInv, PhaseInv

LEMMA TakeKeeps == ASSUME BatchInv, NEW w \in Workers, Take(w) PROVE BatchInv'
<1> USE DEF Indices, FanDone, Busy
<1>0. outcome = "running" /\ outcome' = "running" /\ UNCHANGED <<raw, ids, answers, slot, firstErr>>
  BY Running DEF Take
<1>1. IdsInv'
  BY <1>0, IdsKept
<1>2. AnswerInv'
  BY <1>0 DEF BatchInv, AnswerInv
<1>n. Len(ids) \in Nat /\ fed \in 0 .. Len(ids) /\ taken \in 0 .. fed
  BY DEF BatchInv, BatchTypeInv
<1>3. CASE /\ taken < fed /\ taken' = taken + 1 /\ job' = [job EXCEPT ![w] = taken + 1]
           /\ wpc' = [wpc EXCEPT ![w] = "check"]
  <2>1. taken' \in 0 .. fed /\ taken + 1 \in 0 .. Len(ids) /\ taken + 1 \in 1 .. taken'
        /\ taken + 1 \in 1 .. Len(ids)
    BY <1>3, <1>n
  <2>2. BatchTypeInv'
    <3>1. job' \in [Workers -> 0 .. Len(ids)]
      BY <1>3, <2>1 DEF BatchInv, BatchTypeInv
    <3> QED
      BY <1>3, <2>1, <3>1 DEF Take, BatchInv, BatchTypeInv
  <2>3. PhaseInv'
    BY <1>0, <1>3 DEF Take, BatchInv, BatchTypeInv, PhaseInv
  <2>4. job'[w] = taken + 1 /\ wpc'[w] = "check"
        /\ \A v \in Workers : v # w => job'[v] = job[v] /\ wpc'[v] = wpc[v]
    BY <1>3 DEF BatchInv, BatchTypeInv
  <2>5. OwnerInv'
    <3>1. answers[taken + 1] = <<>>
      BY <1>n, <2>1 DEF BatchInv, OwnerInv
    <3>2. ASSUME NEW v \in Workers, wpc'[v] \in Busy
          PROVE  job'[v] \in 1 .. taken' /\ answers'[job'[v]] = <<>>
      <4>1. CASE v = w
        BY <1>0, <2>1, <2>4, <3>1, <4>1
      <4>2. CASE v # w
        <5>1. job[v] \in 1 .. taken /\ answers[job[v]] = <<>>
          BY <2>4, <3>2, <4>2 DEF BatchInv, OwnerInv
        <5> QED
          BY <1>0, <1>3, <1>n, <2>4, <4>2, <5>1
      <4> QED
        BY <4>1, <4>2
    <3>3. ASSUME NEW u \in Workers, NEW v \in Workers, wpc'[u] \in Busy, wpc'[v] \in Busy,
                 job'[u] = job'[v]
          PROVE  u = v
      <4>1. \A x \in Workers : x # w /\ wpc'[x] \in Busy => job'[x] # taken + 1
        BY <1>n, <2>4 DEF BatchInv, OwnerInv
      <4>2. CASE u # w /\ v # w
        BY <2>4, <3>3, <4>2 DEF BatchInv, OwnerInv
      <4> QED
        BY <2>4, <3>3, <4>1, <4>2
    <3>4. ASSUME NEW k \in Indices, k > taken' PROVE answers'[k] = <<>>
      BY <1>0, <1>3, <1>n, <3>4 DEF BatchInv, OwnerInv
    <3>5. ASSUME NEW k \in 1 .. taken'
          PROVE  \/ answers'[k] # <<>> \/ FanDone'
                 \/ \E v \in Workers : wpc'[v] \in Busy /\ job'[v] = k
      <4>1. CASE k = taken + 1
        BY <2>4, <4>1
      <4>2. CASE k # taken + 1
        <5>1. k \in 1 .. taken
          BY <1>3, <1>n, <4>2
        <5>2. \/ answers[k] # <<>> \/ FanDone
              \/ \E v \in Workers : wpc[v] \in Busy /\ job[v] = k
          BY <5>1 DEF BatchInv, OwnerInv
        <5>3. ASSUME NEW v \in Workers, wpc[v] \in Busy, job[v] = k
              PROVE  wpc'[v] \in Busy /\ job'[v] = k
          BY <2>4, <5>3 DEF Take
        <5> QED
          BY <1>0, <5>2, <5>3 DEF Take
      <4> QED
        BY <4>1, <4>2
    <3> QED
      BY <1>0, <3>2, <3>3, <3>4, <3>5 DEF OwnerInv
  <2>6. LeaveInv'
    <3> SUFFICES ASSUME NEW v \in Workers, wpc'[v] = "done", v <= Len(ids)
                 PROVE  FanDone' \/ taken' = Len(ids)
      BY <1>0 DEF LeaveInv
    <3>1. v # w /\ wpc[v] = "done"
      BY <2>4
    <3>2. FanDone \/ taken = Len(ids)
      BY <3>1 DEF BatchInv, LeaveInv
    <3> QED
      BY <1>0, <1>3, <1>n, <3>2 DEF Take
  <2> QED
    BY <1>1, <1>2, <2>2, <2>3, <2>5, <2>6 DEF BatchInv
<1>4. CASE /\ taken = fed /\ fed = Len(ids) /\ wpc' = [wpc EXCEPT ![w] = "done"]
           /\ UNCHANGED <<taken, job>>
  <2>1. BatchTypeInv'
    BY <1>4 DEF Take, BatchInv, BatchTypeInv
  <2>2. wpc[w] = "range" /\ wpc'[w] = "done" /\ \A v \in Workers : v # w => wpc'[v] = wpc[v]
    BY <1>4 DEF Take, BatchInv, BatchTypeInv
  <2>3. PhaseInv' /\ LeaveInv'
    BY <1>0, <1>4, <2>2 DEF Take, BatchInv, PhaseInv, LeaveInv
  <2>4. \A v \in Workers : wpc'[v] \in Busy <=> wpc[v] \in Busy
    BY <2>2
  <2>5. OwnerInv'
    BY <1>0, <1>4, <2>4 DEF Take, BatchInv, OwnerInv
  <2> QED
    BY <1>1, <1>2, <2>1, <2>3, <2>5 DEF BatchInv
<1> QED
  BY <1>3, <1>4 DEF Take

LEMMA CheckKeeps == ASSUME BatchInv, NEW w \in Workers, Check(w) PROVE BatchInv'
<1> USE DEF Indices, FanDone, Busy
<1>0. outcome = "running" /\ outcome' = "running"
      /\ UNCHANGED <<raw, ids, answers, slot, firstErr, taken, fed, job, cancelled>>
  BY Running DEF Check
<1>1. IdsInv'
  BY <1>0, IdsKept
<1>2. AnswerInv'
  BY <1>0 DEF BatchInv, AnswerInv
<1>3. /\ wpc[w] = "check" /\ wpc'[w] = IF FanDone THEN "done" ELSE "call"
      /\ \A v \in Workers : v # w => wpc'[v] = wpc[v]
  BY DEF Check, BatchInv, BatchTypeInv
<1>4. BatchTypeInv'
  BY DEF Check, BatchInv, BatchTypeInv
<1>5. PhaseInv' /\ LeaveInv'
  BY <1>0, <1>3 DEF BatchInv, PhaseInv, LeaveInv
<1>6. \A v \in Workers : wpc'[v] \in Busy => wpc[v] \in Busy
  BY <1>3
<1>7. ~FanDone => \A v \in Workers : wpc[v] \in Busy => wpc'[v] \in Busy
  BY <1>3
<1>8. OwnerInv'
  BY <1>0, <1>6, <1>7 DEF BatchInv, OwnerInv
<1> QED
  BY <1>1, <1>2, <1>4, <1>5, <1>8 DEF BatchInv

LEMMA CallKeeps ==
    ASSUME BatchInv, NEW w \in Workers, CallReturns(w) \/ CallUnauthorized(w)
    PROVE  BatchInv'
<1> USE DEF Indices, FanDone, Busy
<1>w. wpc[w] = "call"
  BY DEF CallReturns, CallUnauthorized, Answered
<1>0. outcome = "running" /\ outcome' = "running"
      /\ UNCHANGED <<raw, ids, taken, fed, job, cancelled>>
  BY <1>w, Running DEF CallReturns, CallUnauthorized, Answered
<1>1. IdsInv'
  BY <1>0, IdsKept
<1>2. PICK a \in {"data", "error", "unauthorized"} :
         /\ answers' = [answers EXCEPT ![job[w]] = Append(@, a)]
         /\ a # "unauthorized" => slot' = [slot EXCEPT ![job[w]] = a] /\ firstErr' = firstErr
                                  /\ wpc' = [wpc EXCEPT ![w] = "range"]
         /\ a = "unauthorized" => slot' = slot /\ wpc' = [wpc EXCEPT ![w] = "done"]
                                  /\ firstErr' = IF firstErr = 0 THEN job[w] ELSE firstErr
  BY DEF CallReturns, CallUnauthorized, Answered
<1>3. /\ job[w] \in 1 .. taken /\ job[w] \in Indices /\ answers[job[w]] = <<>>
      /\ job[w] # 0
  <2>1. job[w] \in 1 .. taken /\ answers[job[w]] = <<>>
    BY <1>w DEF BatchInv, OwnerInv
  <2>2. Len(ids) \in Nat /\ fed \in 0 .. Len(ids) /\ taken \in 0 .. fed
    BY DEF BatchInv, BatchTypeInv
  <2> QED
    BY <2>1, <2>2
<1>4. /\ answers'[job[w]] = <<a>>
      /\ \A k \in Indices : k # job[w] => answers'[k] = answers[k]
  BY <1>2, <1>3 DEF BatchInv, BatchTypeInv
<1>5. BatchTypeInv'
  <2>1. answers' \in [Indices -> {<<>>} \cup {<<b>> : b \in {"data", "error", "unauthorized"}}]
    BY <1>2, <1>3 DEF BatchInv, BatchTypeInv
  <2>2. slot' \in [Indices -> {"zero", "data", "error"}]
    BY <1>2, <1>3 DEF BatchInv, BatchTypeInv
  <2>3. firstErr' \in 0 .. Len(ids) /\ wpc' \in [Workers -> {"off", "range", "done"} \cup Busy]
    <3>1. job[w] \in 0 .. Len(ids) /\ firstErr \in 0 .. Len(ids)
      BY DEF BatchInv, BatchTypeInv
    <3>2. firstErr' \in {job[w], firstErr} /\ wpc' \in {[wpc EXCEPT ![w] = l] : l \in {"range", "done"}}
      BY <1>2
    <3>3. wpc \in [Workers -> {"off", "range", "done"} \cup Busy]
      BY DEF BatchInv, BatchTypeInv
    <3> QED
      BY <3>1, <3>2, <3>3
  <2> QED
    BY <1>0, <2>1, <2>2, <2>3 DEF BatchInv, BatchTypeInv
<1>6. /\ wpc'[w] \in {"range", "done"} /\ (wpc'[w] = "done" => firstErr' # 0)
      /\ \A v \in Workers : v # w => wpc'[v] = wpc[v]
      /\ firstErr # 0 => firstErr' # 0
  BY <1>2, <1>3 DEF BatchInv, BatchTypeInv
<1>7. PhaseInv'
  BY <1>0, <1>6 DEF BatchInv, PhaseInv
<1>8. LeaveInv'
  BY <1>0, <1>6 DEF BatchInv, LeaveInv
<1>9. OwnerInv'
  <2>1. \A v \in Workers : wpc'[v] \in Busy => v # w /\ wpc[v] \in Busy
    BY <1>6
  <2>2. \A v \in Workers : wpc'[v] \in Busy => job[v] # job[w]
    BY <1>w, <2>1 DEF BatchInv, OwnerInv
  <2>3. ASSUME NEW v \in Workers, wpc'[v] \in Busy
        PROVE  job'[v] \in 1 .. taken' /\ answers'[job'[v]] = <<>>
    <3>1. job[v] \in 1 .. taken /\ answers[job[v]] = <<>>
      BY <2>1, <2>3 DEF BatchInv, OwnerInv
    <3>2. job[v] \in Indices
      BY <3>1 DEF BatchInv, BatchTypeInv
    <3> QED
      BY <1>0, <1>4, <2>2, <2>3, <3>1, <3>2
  <2>4. ASSUME NEW k \in Indices, k > taken' PROVE answers'[k] = <<>>
    <3>1. k # job[w]
      BY <1>0, <1>3, <2>4 DEF BatchInv, BatchTypeInv
    <3> QED
      BY <1>0, <1>4, <2>4, <3>1 DEF BatchInv, OwnerInv
  <2>5. ASSUME NEW k \in 1 .. taken'
        PROVE  \/ answers'[k] # <<>> \/ FanDone'
               \/ \E v \in Workers : wpc'[v] \in Busy /\ job'[v] = k
    <3>1. CASE k = job[w]
      <4>1. <<a>> # <<>>
        OBVIOUS
      <4> QED
        BY <1>4, <3>1, <4>1
    <3>2. CASE k # job[w]
      <4>1. k \in Indices
        BY <1>0 DEF BatchInv, BatchTypeInv
      <4>2. \/ answers[k] # <<>> \/ FanDone
            \/ \E v \in Workers : wpc[v] \in Busy /\ job[v] = k
        BY <1>0 DEF BatchInv, OwnerInv
      <4> QED
        BY <1>0, <1>4, <1>6, <3>2, <4>1, <4>2
    <3> QED
      BY <3>1, <3>2
  <2> QED
    BY <1>0, <2>1, <2>3, <2>4, <2>5 DEF BatchInv, OwnerInv
<1>10. AnswerInv'
  <2> SUFFICES ASSUME NEW k \in Indices
               PROVE  \/ answers'[k] \in {<<>>, <<slot'[k]>>}
                      \/ answers'[k] = <<"unauthorized">> /\ firstErr' # 0
    BY <1>0 DEF AnswerInv
  <2>1. CASE k = job[w] /\ a = "unauthorized"
    BY <1>2, <1>3, <1>4, <2>1
  <2>2. CASE k = job[w] /\ a # "unauthorized"
    BY <1>2, <1>3, <1>4, <2>2 DEF BatchInv, BatchTypeInv
  <2>3. CASE k # job[w]
    <3>1. slot'[k] = slot[k]
      BY <1>2, <2>3 DEF BatchInv, BatchTypeInv
    <3> QED
      BY <1>4, <1>6, <2>3, <3>1 DEF BatchInv, AnswerInv
  <2> QED
    BY <2>1, <2>2, <2>3
<1> QED
  BY <1>1, <1>5, <1>7, <1>8, <1>9, <1>10 DEF BatchInv

LEMMA BatchInvStep == BatchInv /\ [BatchStep \/ Cancel]_batchVars => BatchInv'
<1> SUFFICES ASSUME BatchInv, [BatchStep \/ Cancel]_batchVars PROVE BatchInv'
  OBVIOUS
<1>1. CASE UNCHANGED batchVars
  <2>1. IdsInv'
    BY <1>1, IdsKept DEF batchVars
  <2>2. BatchTypeInv'
    BY <1>1 DEF batchVars, workVars, BatchInv, BatchTypeInv, Indices
  <2> QED
    BY <1>1, <2>1, <2>2 DEF batchVars, workVars, BatchInv, PhaseInv, OwnerInv, LeaveInv,
                            AnswerInv, Indices, FanDone
<1>2. CASE CollectFails \/ Cancel \/ Feed
  BY <1>2, ParentKeeps
<1> QED
  BY <1>1, <1>2, CollectKeeps, ReturnKeeps, TakeKeeps, CheckKeeps, CallKeeps
     DEF BatchStep, Work

LEMMA BatchInductive == BatchSpec => []BatchInv
  BY InitBatch, BatchInvStep, PTL DEF BatchSpec

LEMMA InvBatchIsTrue == BatchInv => BatchIsTrue
<1> SUFFICES ASSUME BatchInv PROVE BatchIsTrue
  OBVIOUS
<1> USE DEF Indices
<1>1. ASSUME outcome = "response", NEW k \in Indices PROVE answers[k] = <<slot[k]>>
  <2>1. /\ firstErr = 0 /\ ~cancelled /\ Len(ids) # 0
        /\ \A w \in Workers : wpc[w] = "done"
    BY <1>1 DEF BatchInv, PhaseInv
  <2>2. taken = Len(ids)
    <3>1. 1 \in Workers /\ 1 <= Len(ids)
      BY <2>1, BatchAssumption DEF Workers, BatchInv, BatchTypeInv
    <3> QED
      BY <2>1, <3>1 DEF BatchInv, LeaveInv, FanDone
  <2>3. answers[k] # <<>>
    BY <2>1, <2>2 DEF BatchInv, OwnerInv, FanDone, Busy
  <2> QED
    BY <2>1, <2>3 DEF BatchInv, AnswerInv
<1>2. ASSUME outcome \in {"response", "cancelled"}, NEW k \in Indices
      PROVE  answers[k] # <<"unauthorized">>
  <2>1. firstErr = 0 /\ slot[k] # "unauthorized"
    BY <1>2 DEF BatchInv, BatchTypeInv, PhaseInv
  <2> QED
    BY <2>1 DEF BatchInv, AnswerInv
<1> QED
  BY <1>1, <1>2 DEF BatchIsTrue, RowsAreAnswers, AuthFailsBatch

LEMMA InvEachNumberOnce == BatchInv => EachNumberOnce
<1> SUFFICES ASSUME BatchInv PROVE EachNumberOnce
  OBVIOUS
<1> USE DEF Indices
<1>1. ASSUME NEW k \in Indices PROVE Len(answers[k]) <= 1
  <2>1. \/ answers[k] = <<>>
        \/ \E a \in {"data", "error", "unauthorized"} : answers[k] = <<a>>
    BY DEF BatchInv, BatchTypeInv
  <2>2. CASE answers[k] = <<>>
    BY <2>2
  <2>3. CASE \E a \in {"data", "error", "unauthorized"} : answers[k] = <<a>>
    <3>1. PICK a : answers[k] = <<a>>
      BY <2>3
    <3>2. Len(<<a>>) = 1
      OBVIOUS
    <3>3. Len(answers[k]) = 1
      BY <3>1, <3>2
    <3> QED
      BY <3>3
  <2> QED
    BY <2>1, <2>2, <2>3
<1>2. \A k \in Indices : ids[k] \in Integral /\ ids[k] \in Spellings
  BY DEF BatchInv, BatchTypeInv, Integral
<1>3. ASSUME outcome \notin {"none", "invalid"}
      PROVE  /\ \A i \in DOMAIN raw : \E k \in Indices : Value(ids[k]) = Value(raw[i])
             /\ \A k, l \in Indices : k < l =>
                  \E i \in DOMAIN raw : /\ Value(raw[i]) = Value(ids[k])
                                        /\ \A j \in 1 .. i : Value(raw[j]) # Value(ids[l])
  <2>1. \A i \in DOMAIN raw : raw[i] \in Spellings
    BY <1>3 DEF BatchInv, IdsInv, Integral
  <2>2. ASSUME NEW i \in DOMAIN raw PROVE \E k \in Indices : Value(ids[k]) = Value(raw[i])
    <3>1. PICK k \in Indices : Key(ids[k]) = Key(raw[i])
      BY <1>3 DEF BatchInv, IdsInv
    <3> QED
      BY <1>2, <2>1, <3>1, KeyIsValue
  <2>3. ASSUME NEW k \in Indices, NEW l \in Indices, k < l
        PROVE  \E i \in DOMAIN raw : /\ Value(raw[i]) = Value(ids[k])
                                     /\ \A j \in 1 .. i : Value(raw[j]) # Value(ids[l])
    <3>1. PICK i \in DOMAIN raw : /\ Key(raw[i]) = Key(ids[k])
                                 /\ \A j \in 1 .. i : Key(raw[j]) # Key(ids[l])
      BY <1>3, <2>3 DEF BatchInv, IdsInv
    <3>2. Value(raw[i]) = Value(ids[k])
      BY <1>2, <2>1, <3>1, KeyIsValue
    <3>3. ASSUME NEW j \in 1 .. i PROVE Value(raw[j]) # Value(ids[l])
      <4>1. j \in DOMAIN raw
        BY DEF BatchInv, BatchTypeInv
      <4>2. Key(raw[j]) # Key(ids[l])
        BY <3>1
      <4> QED
        BY <1>2, <2>1, <4>1, <4>2, KeyIsValue
    <3> QED
      BY <3>2, <3>3
  <2> QED
    BY <2>2, <2>3
<1>4. ASSUME NEW k \in Lookups, NEW l \in Lookups, Value(ids[k]) = Value(ids[l]) PROVE k = l
  <2>1. k \in Indices /\ l \in Indices /\ answers[k] # <<>>
    BY DEF Lookups
  <2>2. outcome \notin {"none", "invalid"}
    <3>1. 1 <= k /\ k <= Len(ids) /\ taken \in Nat
      BY <2>1 DEF BatchInv, BatchTypeInv
    <3> QED
      BY <2>1, <3>1 DEF BatchInv, PhaseInv, OwnerInv
  <2>3. ASSUME NEW x \in Indices, NEW y \in Indices, x < y
        PROVE  Value(ids[x]) # Value(ids[y])
    <3>1. PICK i \in DOMAIN raw : /\ Value(raw[i]) = Value(ids[x])
                                 /\ \A j \in 1 .. i : Value(raw[j]) # Value(ids[y])
      BY <1>3, <2>2, <2>3
    <3>2. i \in 1 .. i
      BY DEF BatchInv, BatchTypeInv
    <3> QED
      BY <3>1, <3>2
  <2>4. k < l \/ l < k \/ k = l
    BY <2>1
  <2> QED
    BY <1>4, <2>1, <2>3, <2>4
<1>5. ASSUME NEW k \in Lookups PROVE \A d \in Value(ids[k]).digits : d[1] >= 0
  BY <1>2, IntegerDigits DEF Lookups
<1>6. CoversInput
  <2> SUFFICES ASSUME outcome = "response"
               PROVE  /\ \A i \in DOMAIN raw : \E k \in Indices : Value(ids[k]) = Value(raw[i])
                      /\ \A k, l \in Indices : k < l =>
                           \E i \in DOMAIN raw : /\ Value(raw[i]) = Value(ids[k])
                                                 /\ \A j \in 1 .. i : Value(raw[j]) # Value(ids[l])
    BY DEF CoversInput
  <2> QED
    BY <1>3
<1> QED
  BY <1>1, <1>4, <1>5, <1>6 DEF EachNumberOnce, OneCallPerNumber

(***************************************************************************)
(* With any number of IDs and workers, and wherever it is interrupted, a   *)
(* batch reports what its calls returned ...                               *)
(***************************************************************************)
THEOREM BatchTrue == BatchSpec => []BatchIsTrue
  BY BatchInductive, InvBatchIsTrue, PTL

(***************************************************************************)
(* ... and looks each number up once, in the order of the input.           *)
(***************************************************************************)
THEOREM NumbersOnce == BatchSpec => []EachNumberOnce
  BY BatchInductive, InvEachNumberOnce, PTL

-----------------------------------------------------------------------------
(***************************************************************************)
(* Upload, for any size of a file and of its parts.                        *)
(***************************************************************************)

\* What a run is asked to send: the ranges are off by one at most, and only at the end.
Asked == IF multipart THEN {Announced(c, e) : c \in Parts(size), e \in -1 .. 1}
         ELSE {Chunk(0, 0, size - 1)}

WholeFile == IF multipart THEN Parts(size) ELSE {Chunk(0, 0, size - 1)}

UploadInv ==
    /\ length \in Nat /\ size \in Nat /\ multipart \in BOOLEAN
    /\ upc = "send" =>
         /\ chunks \in Seq(Asked)
         /\ stored \subseteq WholeFile
         /\ final = "token" => stored = WholeFile
    /\ upc = "ok" => stored = WholeFile

\* The parts reach to the end of the file.
LEMMA PartsReach ==
    ASSUME NEW n \in Nat
    PROVE  PartCount(n) \in Nat /\ n <= PartCount(n) * PartSize
<1> DEFINE q == (n + PartSize - 1) \div PartSize
<1>1. PartSize \in Nat \ {0} /\ n + PartSize - 1 \in Nat
  BY UploadAssumption
<1>2. q \in Int /\ q * PartSize <= n + PartSize - 1 /\ n + PartSize - 1 < (q + 1) * PartSize
  BY <1>1
<1>3. (q + 1) * PartSize = q * PartSize + PartSize
  BY <1>1, <1>2
<1>4. n <= q * PartSize
  BY <1>1, <1>2, <1>3
<1> QED
  BY <1>1, <1>2, <1>4 DEF PartCount

LEMMA PartOf ==
    ASSUME NEW n \in Nat, NEW c \in Parts(n)
    PROVE  /\ c.index \in 0 .. PartCount(n) - 1 /\ c.first \in Int /\ c.last \in Int
           /\ c = Chunk(c.index, c.first, c.last)
           /\ c.first = c.index * PartSize
           /\ c.last = (IF (c.index + 1) * PartSize < n THEN (c.index + 1) * PartSize ELSE n) - 1
           /\ c.index = PartCount(n) - 1 => c.last = n - 1
<1>1. PICK i \in 0 .. PartCount(n) - 1 :
         c = Chunk(i, i * PartSize,
                   (IF (i + 1) * PartSize < n THEN (i + 1) * PartSize ELSE n) - 1)
  BY DEF Parts
<1>2. c.index = i /\ c.first = i * PartSize
      /\ c.last = (IF (i + 1) * PartSize < n THEN (i + 1) * PartSize ELSE n) - 1
  BY <1>1 DEF Chunk
<1>3. PartCount(n) \in Nat /\ n <= PartCount(n) * PartSize /\ PartSize \in Nat \ {0}
  BY PartsReach, UploadAssumption
<1>4. i \in Int /\ i * PartSize \in Int /\ (i + 1) * PartSize \in Int
  BY <1>3
<1>5. i = PartCount(n) - 1 => (i + 1) * PartSize = PartCount(n) * PartSize
  BY <1>3, <1>4
<1> QED
  BY <1>1, <1>2, <1>3, <1>4, <1>5

\* Whatever the range that is announced for it, a part is received as the server cut it.
LEMMA ReceivedAsCut ==
    ASSUME size \in Nat, multipart, NEW c \in Parts(size), NEW e \in -1 .. 1
    PROVE  Received(Announced(c, e)) = c
<1> DEFINE a == Announced(c, e)
<1>1. /\ c.index \in Int /\ c.first \in Int /\ c.last \in Int
      /\ c = Chunk(c.index, c.first, c.last)
      /\ c.index = PartCount(size) - 1 => c.last = size - 1
  BY PartOf
<1>2. a.index = c.index /\ a.first = c.first
  BY <1>1 DEF Announced, Chunk
<1>3. CASE c.index = PartCount(size) - 1
  <2>1. BodySize(a) = size - c.first
    BY <1>2, <1>3 DEF BodySize, LastPart
  <2>2. c.first + BodySize(a) - 1 = c.last
    BY <1>1, <1>3, <2>1
  <2> QED
    BY <1>1, <1>2, <2>2 DEF Received
<1>4. CASE c.index # PartCount(size) - 1
  <2>1. a = c
    BY <1>4 DEF Announced
  <2>2. BodySize(a) = c.last - c.first + 1
    BY <1>4, <2>1 DEF BodySize, LastPart
  <2>3. c.first + BodySize(a) - 1 = c.last
    BY <1>1, <2>2
  <2> QED
    BY <1>1, <2>1, <2>3 DEF Received
<1> QED
  BY <1>3, <1>4

LEMMA ReceivedWhole ==
    ASSUME UploadInv, NEW c \in Asked
    PROVE  Received(c) \in WholeFile
<1>1. size \in Nat /\ multipart \in BOOLEAN
  BY DEF UploadInv
<1>2. CASE multipart
  <2>1. PICK d \in Parts(size), e \in -1 .. 1 : c = Announced(d, e)
    BY <1>2 DEF Asked
  <2>2. Received(c) = d
    BY <1>1, <1>2, <2>1, ReceivedAsCut
  <2> QED
    BY <1>2, <2>2 DEF WholeFile
<1>3. CASE ~multipart
  <2>1. c = Chunk(0, 0, size - 1)
    BY <1>3 DEF Asked
  <2>2. BodySize(c) = size
    BY <1>1, <1>3, <2>1 DEF BodySize, LastPart, Chunk
  <2>3. Received(c) = Chunk(0, 0, 0 + size - 1)
    BY <2>1, <2>2 DEF Received, Chunk
  <2> QED
    BY <1>1, <1>3, <2>3 DEF WholeFile
<1> QED
  BY <1>1, <1>2, <1>3

\* Parts that have the same index are the same.
LEMMA OnePartEach ==
    ASSUME NEW n \in Nat, NEW c \in Parts(n), NEW d \in Parts(n), c.index = d.index
    PROVE  c = d
  BY PartOf

\* The orders in which parts may be asked for are sequences of them.
LEMMA OrderOfParts ==
    ASSUME NEW S, NEW n \in Nat, \A c \in S : c.index \in 0 .. n,
           \A c, d \in S : c.index = d.index => c = d,
           NEW s \in SetToAllKPermutations(S)
    PROVE  s \in Seq(S)
<1>1. PICK T \in SUBSET S : s \in SetToSeqs(T)
  BY DEF SetToAllKPermutations
<1> DEFINE f == [c \in T |-> c.index]
<1>2. f \in Injection(T, 0 .. n)
  BY DEF Injection, IsInjective
<1>3. IsFiniteSet(0 .. n)
  BY FS_Interval
<1>4. IsFiniteSet(T)
  <2> HIDE DEF f
  <2> QED
    BY <1>2, <1>3, FS_Injection
<1>5. Cardinality(T) \in Nat /\ s \in [1 .. Cardinality(T) -> T]
  BY <1>1, <1>4, FS_CardinalityType DEF SetToSeqs
<1> QED
  BY <1>5

LEMMA PreparedKeeps == ASSUME UploadInv, PrepareUpload PROVE UploadInv'
<1>1. size \in Nat /\ length \in Nat /\ UNCHANGED <<size, length>> /\ final' = "none"
  BY DEF UploadInv, PrepareUpload
<1>2. CASE upc' = "failed" /\ UNCHANGED <<multipart, chunks, stored>>
  BY <1>1, <1>2 DEF UploadInv
<1>3. CASE /\ upc' = "send" /\ multipart' = FALSE
           /\ chunks' = <<Chunk(0, 0, size - 1)>> /\ stored' = {}
  <2>1. Asked' = {Chunk(0, 0, size - 1)}
    BY <1>1, <1>3 DEF Asked, Chunk
  <2>2. chunks' \in Seq(Asked')
    BY <1>3, <2>1
  <2> QED
    BY <1>1, <1>3, <2>2 DEF UploadInv
<1>4. CASE /\ upc' = "send" /\ multipart' = TRUE
           /\ stored' = stored \cap Parts(size)
           /\ \E error \in -1 .. 1 :
                chunks' \in SetToAllKPermutations({Announced(c, error) : c \in Parts(size) \ stored'})
  <2>1. PICK e \in -1 .. 1 :
           chunks' \in SetToAllKPermutations({Announced(c, e) : c \in Parts(size) \ stored'})
    BY <1>4
  <2> DEFINE S == {Announced(c, e) : c \in Parts(size) \ stored'}
  <2>2. \A c \in Parts(size) : Announced(c, e).index = c.index
    <3> SUFFICES ASSUME NEW c \in Parts(size) PROVE Announced(c, e).index = c.index
      OBVIOUS
    <3> QED
      BY <1>1, PartOf DEF Announced, Chunk
  <2>3. PartCount(size) \in Nat /\ \A c \in S : c.index \in 0 .. PartCount(size)
    <3>1. PartCount(size) \in Nat
      BY <1>1, PartsReach
    <3>2. ASSUME NEW c \in Parts(size) PROVE c.index \in 0 .. PartCount(size)
      <4>1. c.index \in 0 .. PartCount(size) - 1
        BY <1>1, PartOf
      <4> QED
        BY <3>1, <4>1
    <3> QED
      BY <2>2, <3>1, <3>2
  <2>4. ASSUME NEW c \in S, NEW d \in S, c.index = d.index PROVE c = d
    <3>1. PICK x \in Parts(size) : c = Announced(x, e)
      OBVIOUS
    <3>2. PICK y \in Parts(size) : d = Announced(y, e)
      OBVIOUS
    <3>3. x = y
      BY <1>1, <2>2, <2>4, <3>1, <3>2, OnePartEach
    <3> QED
      BY <3>1, <3>2, <3>3
  <2>5. chunks' \in Seq(S)
    <3> HIDE DEF S
    <3>1. chunks' \in SetToAllKPermutations(S)
      BY <2>1 DEF S
    <3> QED
      BY <2>3, <2>4, <3>1, OrderOfParts
  <2>6. S \subseteq Asked'
    BY <1>1, <1>4 DEF Asked, Announced, Parts, PartCount
  <2>7. chunks' \in Seq(Asked')
    <3> HIDE DEF S
    <3> QED
      BY <2>5, <2>6
  <2> QED
    BY <1>1, <1>4, <2>7 DEF UploadInv, WholeFile
<1> QED
  BY <1>2, <1>3, <1>4 DEF PrepareUpload

\* A part that arrives is one that belongs to the file; once all have, the file is whole.
LEMMA SendKeeps == ASSUME UploadInv, SendPart PROVE UploadInv'
<1>1. /\ upc = "send" /\ chunks \in Seq(Asked) /\ chunks # <<>> /\ stored \subseteq WholeFile
      /\ final = "token" => stored = WholeFile
      /\ UNCHANGED <<length, size, run, multipart>>
      /\ size \in Nat /\ length \in Nat /\ multipart \in BOOLEAN
  BY DEF SendPart, Send, UploadInv
<1>2. Head(chunks) \in Asked /\ chunks' = Tail(chunks) /\ chunks' \in Seq(Asked)
  BY <1>1 DEF SendPart, Send
<1>3. Received(Head(chunks)) \in WholeFile /\ stored' = stored \cup {Received(Head(chunks))}
  BY <1>2, ReceivedWhole DEF SendPart, Send
<1>4. stored' \subseteq WholeFile
  BY <1>1, <1>3
<1>5. WholeFile' = WholeFile /\ Asked' = Asked
  BY <1>1 DEF WholeFile, Asked, Announced, Parts, PartCount
<1>6. upc' # "ok"
  BY <1>1 DEF SendPart
<1>7. ASSUME upc' = "send", final' = "token" PROVE stored' = WholeFile
  <2>1. CASE final = "token"
    BY <1>1, <1>4, <1>3, <2>1
  <2>2. CASE final # "token"
    <3>1. ~(multipart /\ Lacking # {})
      BY <1>1, <1>7, <2>2 DEF SendPart
    <3>2. CASE ~multipart
      BY <1>3, <1>4, <3>2 DEF WholeFile
    <3>3. CASE multipart /\ Lacking = {}
      <4>1. ASSUME NEW c \in Parts(size) PROVE c \in stored'
        <5>1. PICK d \in stored' : d.index = c.index
          BY <3>3 DEF Lacking
        <5>2. d \in Parts(size)
          BY <1>4, <3>3 DEF WholeFile
        <5> QED
          BY <1>1, <5>1, <5>2, OnePartEach
      <4> QED
        BY <1>4, <3>3, <4>1 DEF WholeFile
    <3> QED
      BY <1>1, <3>1, <3>2, <3>3
  <2> QED
    BY <2>1, <2>2
<1> QED
  BY <1>1, <1>2, <1>4, <1>5, <1>6, <1>7 DEF UploadInv

LEMMA UploadInvStep ==
    UploadInv /\ [UploadStep \/ RunAgain \/ FileChanges]_uploadVars => UploadInv'
<1> SUFFICES ASSUME UploadInv, [UploadStep \/ RunAgain \/ FileChanges]_uploadVars
             PROVE  UploadInv'
  OBVIOUS
<1> USE DEF WholeFile, Asked, Announced, Parts, PartCount
<1>1. CASE UNCHANGED uploadVars
  BY <1>1 DEF uploadVars, UploadInv
<1>2. CASE OpenFile
  BY <1>2 DEF OpenFile, UploadInv
<1>3. CASE SendFails
  BY <1>3 DEF SendFails, UploadInv
<1>4. CASE EndUpload
  BY <1>4 DEF EndUpload, UploadInv
<1>5. CASE RunAgain
  BY <1>5 DEF RunAgain, UploadInv
<1>6. CASE FileChanges
  <2>1. length' \in Nat
    BY <1>6, UploadAssumption DEF FileChanges
  <2> QED
    BY <1>6, <2>1 DEF FileChanges, UploadInv
<1> HIDE DEF WholeFile, Asked, Announced, Parts, PartCount
<1> QED
  BY <1>1, <1>2, <1>3, <1>4, <1>5, <1>6, PreparedKeeps, SendKeeps DEF UploadStep

LEMMA UploadInductive == UploadSpec => []UploadInv
<1>1. UploadInit => UploadInv
  <2> SUFFICES ASSUME UploadInit PROVE UploadInv
    OBVIOUS
  <2>1. length \in Nat /\ size \in Nat /\ multipart \in BOOLEAN
    <3>1. length \in 0 .. MaxSize /\ size = 0 /\ multipart = FALSE
      BY DEF UploadInit
    <3>2. length \in Nat /\ size \in Nat
      BY <3>1, UploadAssumption
    <3>3. multipart \in BOOLEAN
      BY <3>1
    <3> QED
      BY <3>2, <3>3
  <2>2. upc = "open"
    BY DEF UploadInit
  <2> QED
    BY <2>1, <2>2 DEF UploadInv
<1> QED
  BY <1>1, UploadInvStep, PTL DEF UploadSpec

(***************************************************************************)
(* For files and parts of any size, and any number of runs: an upload that *)
(* is reported is whole.                                                   *)
(***************************************************************************)
THEOREM UploadWhole == UploadSpec => []UploadIsWhole
<1>1. UploadInv => UploadIsWhole
  BY DEF UploadInv, UploadIsWhole, WholeFile
<1> QED
  BY <1>1, UploadInductive, PTL

-----------------------------------------------------------------------------
(***************************************************************************)
(* Download, for any number of processes and of pieces.                    *)
(***************************************************************************)

Stages == {"prepare", "check", "create", "fetch", "cleanup", "rename", "ok", "failed", "killed"}

\* The first pieces of an object.
Begun(d, n) == [i \in 1 .. n |-> Piece(d, i, TRUE)]

DownloadTypeInv ==
    /\ dpc \in [Downloads -> Stages] /\ overwrite \in [Downloads -> BOOLEAN]
    /\ fd \in [Downloads -> Downloads \cup {NoFile}]
    /\ offset \in [Downloads -> Nat]
    /\ dir \in [output : Downloads \cup {Old, NoFile}, partial : Downloads \cup {NoFile}]
    /\ data = [f \in Downloads \cup {Old} |-> data[f]]
    /\ overlapped \in BOOLEAN

\* A partial file has a process that works on it or has died.
LitterInv ==
    dir.partial # NoFile => \E d \in Downloads : dpc[d] \in {"fetch", "cleanup", "rename", "killed"}

\* No file has both names, and none that is still to be made has one.
NameInv ==
    /\ dir.output # NoFile => dir.output # dir.partial
    /\ \A d \in Downloads : dpc[d] \in {"prepare", "check", "create"} => d \notin {dir.output, dir.partial}
    /\ \A d \in Downloads : dpc[d] \in {"fetch", "cleanup", "rename"} => fd[d] # NoFile

\* A process that is alone at work may replace the output, and writes the partial file.
AloneInv ==
    ~overlapped =>
        /\ \A d, e \in Downloads : AtWork(d) /\ AtWork(e) => d = e
        /\ \A d \in Downloads : AtWork(d) => dir.output = NoFile \/ overwrite[d]
        /\ \A d \in Downloads : dpc[d] \in {"fetch", "cleanup", "rename"} => dir.partial = fd[d]
        /\ \A d \in Downloads :
             dpc[d] = "fetch" => offset[d] <= PartsOf[d] /\ data[fd[d]] = Begun(d, offset[d])
        /\ \A d \in Downloads : dpc[d] = "rename" => data[fd[d]] = Whole(d)
        /\ OutputIsWhole

DownloadInv == DownloadTypeInv /\ LitterInv /\ NameInv /\ AloneInv

LEMMA InitDownload == DownloadInit => DownloadInv
<1> SUFFICES ASSUME DownloadInit PROVE DownloadInv
  OBVIOUS
<1>1. DownloadTypeInv
  <2>1. /\ dpc \in [Downloads -> Stages] /\ overwrite \in [Downloads -> BOOLEAN]
        /\ fd \in [Downloads -> Downloads \cup {NoFile}] /\ offset \in [Downloads -> Nat]
    BY DEF DownloadInit, Stages
  <2>2. dir \in [output : Downloads \cup {Old, NoFile}, partial : Downloads \cup {NoFile}]
    BY DEF DownloadInit
  <2>3. data = [f \in Downloads \cup {Old} |-> data[f]]
    BY DEF DownloadInit
  <2>4. overlapped \in BOOLEAN
    BY DEF DownloadInit
  <2> QED
    BY <2>1, <2>2, <2>3, <2>4 DEF DownloadTypeInv
<1>2. LitterInv /\ NameInv
  BY DownloadAssumption DEF DownloadInit, LitterInv, NameInv
<1>3. AloneInv
  BY DEF DownloadInit, AloneInv, AtWork, OutputIsWhole
<1> QED
  BY <1>1, <1>2, <1>3 DEF DownloadInv

LEMMA DownloadTypeStep ==
    DownloadTypeInv /\ [\E d \in Downloads : DownloadStep(d) \/ Killed(d)]_downloadVars
        => DownloadTypeInv'
<1> SUFFICES ASSUME DownloadTypeInv,
                    [\E d \in Downloads : DownloadStep(d) \/ Killed(d)]_downloadVars
             PROVE  DownloadTypeInv'
  OBVIOUS
<1> USE DEF DownloadTypeInv, Stages, Goto
<1>1. CASE UNCHANGED downloadVars
  BY <1>1 DEF downloadVars
<1>2. ASSUME NEW d \in Downloads, PrepareDownload(d) \/ CheckOutput(d)
      PROVE  DownloadTypeInv'
  BY <1>2 DEF PrepareDownload, CheckOutput
<1>3. ASSUME NEW d \in Downloads, Create(d) PROVE DownloadTypeInv'
  <2> DEFINE file == IF dir.partial = NoFile THEN d ELSE dir.partial
  <2>1. file \in Downloads
    OBVIOUS
  <2>2. /\ fd' = [fd EXCEPT ![d] = file] /\ dir' = [dir EXCEPT !.partial = file]
        /\ data' = [data EXCEPT ![file] = <<>>] /\ offset' = [offset EXCEPT ![d] = 0]
        /\ dpc' = [dpc EXCEPT ![d] = "fetch"] /\ UNCHANGED <<overwrite, overlapped>>
    BY <1>3 DEF Create
  <2> HIDE DEF file
  <2> QED
    BY <2>1, <2>2
<1>4. ASSUME NEW d \in Downloads, ReceivePart(d) \/ BreakOff(d)
      PROVE  DownloadTypeInv'
  <2> DEFINE new(w) == Written(data[fd[d]], offset[d] + 1, Piece(d, offset[d] + 1, w))
  <2>1. PICK w \in BOOLEAN : data' = [data EXCEPT ![fd[d]] = new(w)]
    BY <1>4 DEF ReceivePart, BreakOff, Write
  <2>2. /\ offset' = [offset EXCEPT ![d] = @ + 1]
        /\ dpc' = dpc \/ dpc' = [dpc EXCEPT ![d] = "cleanup"]
        /\ UNCHANGED <<overwrite, fd, dir, overlapped>>
    BY <1>4 DEF ReceivePart, BreakOff, Write
  <2> HIDE DEF new
  <2>3. data' = [f \in Downloads \cup {Old} |-> data'[f]]
    BY <2>1
  <2>4. offset' \in [Downloads -> Nat]
    BY <2>2
  <2>5. dpc' \in [Downloads -> Stages]
    BY <2>2
  <2> QED
    BY <2>2, <2>3, <2>4, <2>5
<1>5. ASSUME NEW d \in Downloads, RefusePart(d) \/ ClosePartial(d)
      PROVE  DownloadTypeInv'
  BY <1>5 DEF RefusePart, ClosePartial
<1>6. ASSUME NEW d \in Downloads, Cleanup(d) \/ RenamePartial(d) \/ Killed(d)
      PROVE  DownloadTypeInv'
  BY <1>6 DEF Cleanup, RenamePartial, Killed
<1> QED
  BY <1>1, <1>2, <1>3, <1>4, <1>5, <1>6 DEF DownloadStep

\* What a step of d changes of the processes and the names.
LEMMA Moves ==
    ASSUME DownloadTypeInv, NEW d \in Downloads, DownloadStep(d) \/ Killed(d)
    PROVE  /\ \A e \in Downloads : e # d => /\ dpc'[e] = dpc[e] /\ fd'[e] = fd[e]
                                            /\ offset'[e] = offset[e]
           /\ overwrite' = overwrite
           /\ <<dpc[d], dpc'[d]>> \in
                {<<"prepare", "check">>, <<"prepare", "failed">>, <<"check", "failed">>,
                 <<"check", "create">>, <<"create", "fetch">>, <<"fetch", "fetch">>,
                 <<"fetch", "cleanup">>, <<"fetch", "rename">>, <<"cleanup", "failed">>,
                 <<"rename", "ok">>, <<"rename", "failed">>, <<"fetch", "killed">>,
                 <<"cleanup", "killed">>, <<"rename", "killed">>}
<1> USE DEF DownloadTypeInv, Stages, Goto
<1>1. CASE PrepareDownload(d) \/ CheckOutput(d)
  BY <1>1 DEF PrepareDownload, CheckOutput
<1>2. CASE Create(d)
  BY <1>2 DEF Create
<1>3. CASE ReceivePart(d) \/ BreakOff(d)
  BY <1>3 DEF ReceivePart, BreakOff, Write
<1>4. CASE RefusePart(d) \/ ClosePartial(d)
  BY <1>4 DEF RefusePart, ClosePartial
<1>5. CASE Cleanup(d) \/ RenamePartial(d) \/ Killed(d)
  BY <1>5 DEF Cleanup, RenamePartial, Killed
<1> QED
  BY <1>1, <1>2, <1>3, <1>4, <1>5 DEF DownloadStep

\* The names change when a file is created, renamed or removed.
LEMMA Names ==
    ASSUME DownloadTypeInv, NEW d \in Downloads, DownloadStep(d) \/ Killed(d)
    PROVE  \/ /\ dpc'[d] \notin {"ok"} /\ dir' = dir /\ fd' = fd
              /\ ~(dpc[d] = "create" /\ dpc'[d] = "fetch")
              /\ dpc[d] \in {"cleanup", "rename"} => dpc'[d] = "killed"
           \/ /\ dpc[d] = "create" /\ dpc'[d] = "fetch"
              /\ fd'[d] = dir'.partial /\ dir'.output = dir.output
              /\ dir'.partial = IF dir.partial = NoFile THEN d ELSE dir.partial
           \/ /\ dpc[d] \in {"cleanup", "rename"} /\ dpc'[d] = "failed" /\ fd' = fd
              /\ dir'.partial = NoFile /\ dir'.output = dir.output
           \/ /\ dpc[d] = "rename" /\ dpc'[d] = "ok" /\ fd' = fd
              /\ dir.partial # NoFile /\ dir'.partial = NoFile /\ dir'.output = dir.partial
<1> USE DEF DownloadTypeInv, Stages, Goto
<1>1. CASE PrepareDownload(d) \/ CheckOutput(d)
  BY <1>1 DEF PrepareDownload, CheckOutput
<1>2. CASE Create(d)
  BY <1>2 DEF Create
<1>3. CASE ReceivePart(d) \/ BreakOff(d)
  BY <1>3 DEF ReceivePart, BreakOff, Write
<1>4. CASE RefusePart(d) \/ ClosePartial(d) \/ Killed(d)
  BY <1>4 DEF RefusePart, ClosePartial, Killed
<1>5. CASE Cleanup(d)
  BY <1>5 DEF Cleanup
<1>6. CASE RenamePartial(d)
  BY <1>6 DEF RenamePartial
<1> QED
  BY <1>1, <1>2, <1>3, <1>4, <1>5, <1>6 DEF DownloadStep

\* A piece that is written after the ones before it.
LEMMA Appended ==
    ASSUME NEW d \in Downloads, NEW n \in Nat
    PROVE  Written(Begun(d, n), n + 1, Piece(d, n + 1, TRUE)) = Begun(d, n + 1)
<1> DEFINE old == Begun(d, n)
<1>1. Len(old) = n /\ \A i \in 1 .. n : old[i] = Piece(d, i, TRUE)
  BY DEF Begun
<1>2. Written(old, n + 1, Piece(d, n + 1, TRUE)) =
         [i \in 1 .. n + 1 |-> IF i = n + 1 THEN Piece(d, n + 1, TRUE)
                              ELSE IF i <= n THEN old[i] ELSE Hole]
  <2> HIDE DEF old
  <2> QED
    BY <1>1 DEF Written
<1>3. ASSUME NEW i \in 1 .. n + 1
      PROVE  (IF i = n + 1 THEN Piece(d, n + 1, TRUE) ELSE IF i <= n THEN old[i] ELSE Hole)
             = Piece(d, i, TRUE)
  <2> HIDE DEF old
  <2>1. CASE i = n + 1
    BY <2>1
  <2>2. CASE i # n + 1
    <3>1. i \in 1 .. n /\ i <= n
      BY <2>2
    <3> QED
      BY <1>1, <2>2, <3>1
  <2> QED
    BY <2>1, <2>2
<1>4. Begun(d, n + 1) = [i \in 1 .. n + 1 |-> Piece(d, i, TRUE)]
  BY DEF Begun
<1> HIDE DEF old
<1>5. Written(old, n + 1, Piece(d, n + 1, TRUE)) = Begun(d, n + 1)
  BY <1>2, <1>3, <1>4
<1> QED
  BY <1>5 DEF old

LEMMA LitterStep ==
    ASSUME DownloadInv, NEW d \in Downloads, DownloadStep(d) \/ Killed(d)
    PROVE  LitterInv' /\ NameInv'
<1>1. /\ \A e \in Downloads : e # d => dpc'[e] = dpc[e] /\ fd'[e] = fd[e]
      /\ <<dpc[d], dpc'[d]>> \in
           {<<"prepare", "check">>, <<"prepare", "failed">>, <<"check", "failed">>,
            <<"check", "create">>, <<"create", "fetch">>, <<"fetch", "fetch">>,
            <<"fetch", "cleanup">>, <<"fetch", "rename">>, <<"cleanup", "failed">>,
            <<"rename", "ok">>, <<"rename", "failed">>, <<"fetch", "killed">>,
            <<"cleanup", "killed">>, <<"rename", "killed">>}
  BY Moves DEF DownloadInv
<1>2. LitterInv
  BY DEF DownloadInv
<1>3. NameInv
  BY DEF DownloadInv
<1>4. NoFile \notin Downloads /\ dir.partial \in Downloads \cup {NoFile}
  BY DownloadAssumption DEF DownloadInv, DownloadTypeInv
<1>5. CASE /\ dpc'[d] \notin {"ok"} /\ dir' = dir /\ fd' = fd
           /\ ~(dpc[d] = "create" /\ dpc'[d] = "fetch")
           /\ dpc[d] \in {"cleanup", "rename"} => dpc'[d] = "killed"
  <2>1. LitterInv'
    BY <1>1, <1>2, <1>5 DEF LitterInv
  <2>2. NameInv'
    BY <1>1, <1>3, <1>5 DEF NameInv
  <2> QED
    BY <2>1, <2>2
<1>6. CASE /\ dpc[d] = "create" /\ dpc'[d] = "fetch"
           /\ fd'[d] = dir'.partial /\ dir'.output = dir.output
           /\ dir'.partial = IF dir.partial = NoFile THEN d ELSE dir.partial
  <2>1. LitterInv'
    BY <1>6 DEF LitterInv
  <2>2. NameInv'
    BY <1>1, <1>3, <1>4, <1>6 DEF NameInv
  <2> QED
    BY <2>1, <2>2
<1>7. CASE /\ dpc[d] \in {"cleanup", "rename"} /\ dpc'[d] = "failed" /\ fd' = fd
           /\ dir'.partial = NoFile /\ dir'.output = dir.output
  BY <1>1, <1>3, <1>4, <1>7 DEF LitterInv, NameInv
<1>8. CASE /\ dpc[d] = "rename" /\ dpc'[d] = "ok" /\ fd' = fd
           /\ dir.partial # NoFile /\ dir'.partial = NoFile /\ dir'.output = dir.partial
  BY <1>1, <1>3, <1>4, <1>8 DEF LitterInv, NameInv
<1> QED
  BY <1>5, <1>6, <1>7, <1>8, Names DEF DownloadInv

\* A step of the one process at work, or of one that is not yet.
LEMMA AloneStep ==
    ASSUME DownloadInv, NEW d \in Downloads, DownloadStep(d) \/ Killed(d)
    PROVE  AloneInv'
<1> SUFFICES ASSUME ~overlapped' PROVE AloneInv'
  BY DEF AloneInv
<1>t. DownloadTypeInv /\ NameInv
  BY DEF DownloadInv
<1>m. /\ \A e \in Downloads : e # d => /\ dpc'[e] = dpc[e] /\ fd'[e] = fd[e]
                                       /\ offset'[e] = offset[e]
      /\ overwrite' = overwrite
      /\ <<dpc[d], dpc'[d]>> \in
           {<<"prepare", "check">>, <<"prepare", "failed">>, <<"check", "failed">>,
            <<"check", "create">>, <<"create", "fetch">>, <<"fetch", "fetch">>,
            <<"fetch", "cleanup">>, <<"fetch", "rename">>, <<"cleanup", "failed">>,
            <<"rename", "ok">>, <<"rename", "failed">>, <<"fetch", "killed">>,
            <<"cleanup", "killed">>, <<"rename", "killed">>}
  BY <1>t, Moves
<1>o. /\ ~overlapped
      /\ dpc'[d] = "create" => dir.output = NoFile \/ overwrite[d]
      /\ dpc'[d] = "create" => ~\E e \in Downloads : AtWork(e)
  <2>1. CASE CheckOutput(d)
    BY <1>t, <2>1 DEF CheckOutput, Goto, DownloadTypeInv, Stages
  <2>2. CASE ~CheckOutput(d)
    <3>1. UNCHANGED overlapped
      BY <2>2 DEF DownloadStep, PrepareDownload, Create, ReceivePart, BreakOff, Write,
                  RefusePart, ClosePartial, Cleanup, RenamePartial, Killed
    <3>2. dpc'[d] # "create"
      <4>1. ASSUME PrepareDownload(d) PROVE dpc'[d] # "create"
        BY <1>t, <4>1 DEF PrepareDownload, Goto, DownloadTypeInv
      <4>2. ASSUME ~PrepareDownload(d) PROVE dpc[d] # "check"
        BY <2>2, <4>2 DEF DownloadStep, Create, ReceivePart, BreakOff, Write,
                    RefusePart, ClosePartial, Cleanup, RenamePartial, Killed
      <4> QED
        BY <1>m, <4>1, <4>2
    <3> QED
      BY <3>1, <3>2
  <2> QED
    BY <2>1, <2>2
<1>a. /\ \A e, f \in Downloads : AtWork(e) /\ AtWork(f) => e = f
      /\ \A e \in Downloads : AtWork(e) => dir.output = NoFile \/ overwrite[e]
      /\ \A e \in Downloads : dpc[e] \in {"fetch", "cleanup", "rename"} => dir.partial = fd[e]
      /\ \A e \in Downloads :
           dpc[e] = "fetch" => offset[e] <= PartsOf[e] /\ data[fd[e]] = Begun(e, offset[e])
      /\ \A e \in Downloads : dpc[e] = "rename" => data[fd[e]] = Whole(e)
      /\ OutputIsWhole
  BY <1>o DEF DownloadInv, AloneInv
\* No other process is at work, before or after.
<1>1. AtWork(d) \/ dpc'[d] = "create" => \A e \in Downloads : e # d => ~AtWork(e)
  <2> SUFFICES ASSUME AtWork(d) \/ dpc'[d] = "create", NEW e \in Downloads, e # d
               PROVE  ~AtWork(e)
    OBVIOUS
  <2>1. CASE AtWork(d)
    <3>1. AtWork(e) => e = d
      BY <1>a, <2>1
    <3> QED
      BY <3>1
  <2>2. CASE dpc'[d] = "create"
    BY <1>o, <2>2
  <2> QED
    BY <2>1, <2>2
<1>2. AtWork(d)' => AtWork(d) \/ dpc'[d] = "create"
  BY <1>m DEF AtWork
<1>3. \A e, f \in Downloads : AtWork(e)' /\ AtWork(f)' => e = f
  <2>1. \A e \in Downloads : e # d => (AtWork(e)' <=> AtWork(e))
    BY <1>m DEF AtWork
  <2> QED
    BY <1>1, <1>2, <1>a, <2>1
<1>4. ASSUME UNCHANGED <<dir, data, fd, offset>>, ~AtWork(d)'
      PROVE  AloneInv'
  <2>1. OutputIsWhole'
    <3> SUFFICES ASSUME dir.output \notin {NoFile, Old}
                 PROVE  \E e \in Downloads : dpc'[e] = "ok" /\ data[dir.output] = Whole(e)
      BY <1>4 DEF OutputIsWhole
    <3>1. PICK e \in Downloads : dpc[e] = "ok" /\ data[dir.output] = Whole(e)
      BY <1>a DEF OutputIsWhole
    <3>2. dpc'[e] = "ok"
      BY <1>m, <3>1
    <3> QED
      BY <3>1, <3>2
  <2>2. \A e \in Downloads : AtWork(e)' => AtWork(e) /\ dpc'[e] = dpc[e] /\ e # d
    BY <1>4, <1>m DEF AtWork
  <2>3. \A e \in Downloads : dpc'[e] \in {"fetch", "cleanup", "rename"} => AtWork(e)'
    BY DEF AtWork
  <2> QED
    BY <1>3, <1>4, <1>m, <1>a, <2>1, <2>2, <2>3 DEF AloneInv
\* Only d is at work after the step; the output is the one before, or the renamed file.
<1>5. ASSUME AtWork(d) \/ dpc'[d] = "create",
             dpc'[d] \in {"fetch", "cleanup", "rename"} => dir'.partial = fd'[d],
             AtWork(d)' => dir'.output = dir.output,
             dpc'[d] = "fetch" => offset'[d] <= PartsOf[d] /\ data'[fd'[d]] = Begun(d, offset'[d]),
             dpc'[d] = "rename" => data'[fd'[d]] = Whole(d),
             \/ dir'.output = dir.output /\ (dir.output \notin {NoFile, Old} => data'[dir.output] = data[dir.output])
             \/ dpc'[d] = "ok" /\ data'[dir'.output] = Whole(d)
      PROVE  AloneInv'
  <2>1. OutputIsWhole'
    <3>1. CASE dpc'[d] = "ok" /\ data'[dir'.output] = Whole(d)
      BY <3>1 DEF OutputIsWhole
    <3>2. CASE dir'.output = dir.output /\ (dir.output \notin {NoFile, Old} => data'[dir.output] = data[dir.output])
      <4> SUFFICES ASSUME dir.output \notin {NoFile, Old}
                   PROVE  \E e \in Downloads : dpc'[e] = "ok" /\ data'[dir.output] = Whole(e)
        BY <3>2 DEF OutputIsWhole
      <4>1. PICK e \in Downloads : dpc[e] = "ok" /\ data[dir.output] = Whole(e)
        BY <1>a DEF OutputIsWhole
      <4>2. dpc'[e] = "ok"
        BY <1>m, <4>1
      <4> QED
        BY <3>2, <4>1, <4>2
    <3> QED
      BY <1>5, <3>1, <3>2
  <2>2. \A e \in Downloads : e # d => ~AtWork(e)'
    BY <1>1, <1>5, <1>m DEF AtWork
  <2>3. \A e \in Downloads : dpc'[e] \in {"fetch", "cleanup", "rename"} => e = d
    BY <2>2 DEF AtWork
  <2>4. AtWork(d)' => dir'.output = NoFile \/ overwrite'[d]
    BY <1>5, <1>2, <1>a, <1>o, <1>m
  <2> QED
    BY <1>3, <1>5, <2>1, <2>2, <2>3, <2>4 DEF AloneInv
<1> USE DEF Goto
<1>6. CASE PrepareDownload(d)
  BY <1>4, <1>6, <1>t DEF PrepareDownload, DownloadTypeInv, AtWork
<1>7. CASE CheckOutput(d)
  <2>1. CASE dpc'[d] = "create"
    BY <1>5, <1>7, <2>1 DEF CheckOutput
  <2>2. CASE dpc'[d] # "create"
    BY <1>4, <1>7, <1>m, <2>2 DEF CheckOutput, AtWork
  <2> QED
    BY <2>1, <2>2
<1>w. dpc[d] \in {"create", "fetch", "cleanup", "rename"} => AtWork(d)
  BY DEF AtWork
<1>f. /\ dpc[d] \in {"fetch", "cleanup", "rename"} =>
           fd[d] \in Downloads /\ dir.partial = fd[d] /\ (dir.output # NoFile => dir.output # fd[d])
      /\ \A f : dir.output \notin {NoFile, Old} => dir.output \in Downloads
  BY <1>t, <1>a DEF NameInv, DownloadTypeInv
<1>8. CASE Create(d)
  <2> DEFINE file == IF dir.partial = NoFile THEN d ELSE dir.partial
  <2>1. /\ dpc[d] = "create" /\ dpc'[d] = "fetch" /\ fd'[d] = file /\ dir'.partial = file
        /\ dir'.output = dir.output /\ offset'[d] = 0 /\ data' = [data EXCEPT ![file] = <<>>]
    BY <1>8, <1>t DEF Create, DownloadTypeInv
  <2>2. file \in Downloads /\ (dir.output # NoFile => dir.output # file)
    BY <1>t, <2>1 DEF NameInv, DownloadTypeInv
  <2>3. data'[file] = <<>>
    BY <1>t, <2>1, <2>2 DEF DownloadTypeInv
  <2>4. <<>> = Begun(d, 0)
    BY DEF Begun
  <2>5. 0 <= PartsOf[d]
    BY DownloadAssumption
  <2>6. dir.output \notin {NoFile, Old} => data'[dir.output] = data[dir.output]
    BY <1>f, <1>t, <2>1, <2>2 DEF DownloadTypeInv
  <2> HIDE DEF file
  <2> QED
    BY <1>5, <1>w, <2>1, <2>2, <2>3, <2>4, <2>5, <2>6
<1>9. CASE ReceivePart(d) \/ BreakOff(d)
  <2>1. PICK w \in BOOLEAN :
           /\ data' = [data EXCEPT ![fd[d]] = Written(data[fd[d]], offset[d] + 1, Piece(d, offset[d] + 1, w))]
           /\ dpc'[d] = "fetch" => w = TRUE
    BY <1>9, <1>t DEF ReceivePart, BreakOff, Write, DownloadTypeInv
  <2>2. /\ dpc[d] = "fetch" /\ offset[d] < PartsOf[d] /\ offset'[d] = offset[d] + 1
        /\ UNCHANGED <<fd, dir>> /\ dpc'[d] \in {"fetch", "cleanup"}
    BY <1>9, <1>t DEF ReceivePart, BreakOff, Write, DownloadTypeInv
  <2>3. offset[d] \in Nat /\ PartsOf[d] \in Nat
    BY <1>t, DownloadAssumption DEF DownloadTypeInv
  <2>4. dpc'[d] = "fetch" => data'[fd'[d]] = Begun(d, offset'[d])
    <3>1. data[fd[d]] = Begun(d, offset[d])
      BY <1>a, <2>2
    <3>2. SUFFICES ASSUME dpc'[d] = "fetch" PROVE data'[fd[d]] = Begun(d, offset[d] + 1)
      BY <2>2
    <3>3. data'[fd[d]] = Written(data[fd[d]], offset[d] + 1, Piece(d, offset[d] + 1, TRUE))
      BY <1>f, <1>t, <2>1, <2>2, <3>2 DEF DownloadTypeInv
    <3> QED
      BY <2>3, <3>1, <3>3, Appended
  <2>5. dir.output \notin {NoFile, Old} => data'[dir.output] = data[dir.output]
    BY <1>f, <1>t, <2>1, <2>2 DEF DownloadTypeInv
  <2>6. offset'[d] <= PartsOf[d]
    BY <2>2, <2>3
  <2> QED
    BY <1>5, <1>f, <1>w, <2>2, <2>4, <2>5, <2>6
<1>10. CASE RefusePart(d) \/ Cleanup(d) \/ Killed(d)
  <2>1. /\ dpc[d] \in {"fetch", "cleanup", "rename"} /\ UNCHANGED <<data, fd, offset>>
        /\ dpc'[d] \in {"cleanup", "failed", "killed"} /\ dir'.output = dir.output
        /\ dpc'[d] = "cleanup" => dir' = dir
    BY <1>10, <1>t DEF RefusePart, Cleanup, Killed, DownloadTypeInv
  <2> QED
    BY <1>5, <1>f, <1>w, <2>1
<1>11. CASE ClosePartial(d)
  <2>1. /\ dpc[d] = "fetch" /\ offset[d] = PartsOf[d] /\ UNCHANGED <<data, fd, offset, dir>>
        /\ dpc'[d] \in {"cleanup", "rename"}
    BY <1>11, <1>t DEF ClosePartial, DownloadTypeInv
  <2>2. data[fd[d]] = Whole(d)
    BY <1>a, <2>1 DEF Begun, Whole
  <2> QED
    BY <1>5, <1>f, <1>w, <2>1, <2>2
<1>12. CASE RenamePartial(d)
  <2>1. /\ dpc[d] = "rename" /\ UNCHANGED <<data, fd, offset>>
        /\ \/ dpc'[d] = "ok" /\ dir'.output = dir.partial
           \/ dpc'[d] = "failed" /\ dir'.output = dir.output
    BY <1>12, <1>t DEF RenamePartial, DownloadTypeInv
  <2>2. data[fd[d]] = Whole(d) /\ dir.partial = fd[d]
    BY <1>a, <2>1
  <2>3. ~AtWork(d)'
    BY <2>1 DEF AtWork
  <2> QED
    BY <1>5, <1>w, <2>1, <2>2, <2>3
<1> QED
  BY <1>6, <1>7, <1>8, <1>9, <1>10, <1>11, <1>12 DEF DownloadStep

LEMMA DownloadInvStep ==
    DownloadInv /\ [\E d \in Downloads : DownloadStep(d) \/ Killed(d)]_downloadVars => DownloadInv'
<1> SUFFICES ASSUME DownloadInv,
                    [\E d \in Downloads : DownloadStep(d) \/ Killed(d)]_downloadVars
             PROVE  DownloadInv'
  OBVIOUS
<1>1. CASE UNCHANGED downloadVars
  BY <1>1 DEF downloadVars, DownloadInv, DownloadTypeInv, LitterInv, NameInv, AloneInv,
              AtWork, OutputIsWhole
<1>2. ASSUME NEW d \in Downloads, DownloadStep(d) \/ Killed(d)
      PROVE  DownloadInv'
  <2>1. DownloadTypeInv'
    BY <1>2, DownloadTypeStep DEF DownloadInv
  <2>2. LitterInv' /\ NameInv'
    BY <1>2, LitterStep
  <2>3. AloneInv'
    BY <1>2, AloneStep
  <2> QED
    BY <2>1, <2>2, <2>3 DEF DownloadInv
<1> QED
  BY <1>1, <1>2

\* Only a rename changes the output, and of a file that is there only on request.
LEMMA ReplaceStep ==
    ASSUME DownloadInv, [\E d \in Downloads : DownloadStep(d) \/ Killed(d)]_downloadVars,
           dir.output # NoFile, dir'.output # dir.output
    PROVE  overlapped \/ \E d \in Downloads : dpc[d] = "rename" /\ overwrite[d]
<1>1. PICK d \in Downloads : DownloadStep(d) \/ Killed(d)
  BY DEF downloadVars
<1>2. dpc[d] = "rename"
  BY <1>1, Names DEF DownloadInv
<1> QED
  BY <1>2 DEF DownloadInv, AloneInv, AtWork

(***************************************************************************)
(* For any number of downloads of any number of parts, that fail, break    *)
(* off or die anywhere.                                                    *)
(***************************************************************************)
THEOREM DownloadWhole == DownloadSpec => DownloadIsWhole
<1>1. DownloadInv => NoLitter /\ (overlapped \/ OutputIsWhole)
  BY DEF DownloadInv, DownloadTypeInv, LitterInv, AloneInv, NoLitter
<1>2. DownloadInv /\ [\E d \in Downloads : DownloadStep(d) \/ Killed(d)]_downloadVars
        => [dir.output # NoFile /\ dir'.output # dir.output =>
              overlapped \/ \E d \in Downloads : dpc[d] = "rename" /\ overwrite[d]]_dir
  BY ReplaceStep
<1> QED
  BY <1>1, <1>2, InitDownload, DownloadInvStep, PTL DEF DownloadSpec, DownloadIsWhole, ReplacedOnRequest

-----------------------------------------------------------------------------
(***************************************************************************)
(* PluginInstall, for any build: what a registrar has changes only until   *)
(* its plugin's turn is over, and a plugin that is over has been taken     *)
(* over or left out.                                                       *)
(***************************************************************************)

InstallPlaces == {"capabilities", "metadata", "check", "install", "installed", "failed"}

PluginTypeInv ==
    /\ plugins \in Seq([name : STRING, open : BOOLEAN, restricts : BOOLEAN])
    /\ turn \in Nat \ {0} /\ ipc \in InstallPlaces
    /\ staged \in [DOMAIN plugins -> SUBSET Registrations]
    /\ plugged \in [DOMAIN plugins -> SUBSET Registrations]
    /\ fate \in [DOMAIN plugins -> {"none", "active", "skipped"}]

\* The one whose turn it is.
TurnInv ==
    /\ ipc = "installed" <=> turn = Len(plugins) + 1
    /\ turn <= Len(plugins) + 1
    /\ ipc \in {"metadata", "check", "install"} =>
         ~(plugins[turn].restricts /\ plugins[turn].open)
    /\ ipc \in {"check", "install"} =>
         /\ plugins[turn].name \in seen
         /\ \A j \in Active : plugins[j].name # plugins[turn].name

\* What became of those whose turn is over, and that the others have nothing yet.
FateInv ==
    \A i \in DOMAIN plugins :
        /\ i >= turn => fate[i] = "none"
        /\ i < turn => fate[i] # "none" /\ i \notin running \ frozen
        /\ i > turn => i \notin running
        /\ i = turn /\ ipc # "install" => i \notin running \ frozen
        /\ fate[i] = "skipped" => plugins[i].open /\ ~plugins[i].restricts

ActiveInv ==
    /\ \A i \in DOMAIN plugins :
         IF i \in Active
         THEN /\ plugged[i] = staged[i] /\ plugins[i].name \in seen
              /\ plugins[i].restricts <=> "rule" \in plugged[i]
         ELSE plugged[i] = {}
    /\ \A i, j \in Active : plugins[i].name = plugins[j].name => i = j
    /\ \A i, j \in Restrictors : i = j

PluginInv == PluginTypeInv /\ TurnInv /\ FateInv /\ ActiveInv

LEMMA InitPluginInv == PluginInit => PluginInv
<1> SUFFICES ASSUME PluginInit PROVE PluginInv
  OBVIOUS
<1>1. plugins \in Seq([name : STRING, open : BOOLEAN, restricts : BOOLEAN])
  BY PluginAssumption DEF PluginInit
<1>2. plugins = <<>> <=> Len(plugins) = 0
  BY <1>1
<1>3. PluginTypeInv
  BY <1>1 DEF PluginInit, PluginTypeInv, InstallPlaces
<1>4. Active = {} /\ Restrictors = {}
  BY DEF PluginInit, Active, Restrictors
<1>5. TurnInv
  BY <1>1, <1>2, <1>4 DEF PluginInit, TurnInv
<1>6. FateInv
  BY <1>1 DEF PluginInit, FateInv
<1>7. ActiveInv
  BY <1>1, <1>4 DEF PluginInit, ActiveInv
<1> QED
  BY <1>3, <1>5, <1>6, <1>7 DEF PluginInv

-----------------------------------------------------------------------------
\* While a plugin has its turn it is one of the build, and it has nothing yet.
Installing == ipc \notin {"installed", "failed"}

LEMMA OnTurn ==
    PluginInv /\ Installing => /\ turn \in DOMAIN plugins /\ fate[turn] = "none"
                               /\ turn \notin Active /\ plugged[turn] = {}
<1> SUFFICES ASSUME PluginInv, Installing
             PROVE  /\ turn \in DOMAIN plugins /\ fate[turn] = "none"
                    /\ turn \notin Active /\ plugged[turn] = {}
  OBVIOUS
<1>1. turn \in DOMAIN plugins
  BY DEF PluginInv, PluginTypeInv, TurnInv, Installing
<1>2. fate[turn] = "none" /\ turn \notin Active
  BY <1>1 DEF PluginInv, PluginTypeInv, FateInv, Active
<1> QED
  BY <1>1, <1>2 DEF PluginInv, ActiveInv

\* The start fails: nothing else changes but what has been closed or taken.
LEMMA FailStep ==
    ASSUME PluginInv, Installing, StartFails, UNCHANGED <<plugins, running, staged, plugged>>,
           seen \subseteq seen', frozen \subseteq frozen', turn \notin running \ frozen'
    PROVE  PluginInv'
<1>1. turn' = turn /\ fate' = fate /\ ipc' = "failed" /\ turn \in DOMAIN plugins
  BY OnTurn DEF StartFails
<1>2. PluginTypeInv'
  BY <1>1 DEF PluginInv, PluginTypeInv, InstallPlaces
<1>3. TurnInv'
  BY <1>1 DEF PluginInv, PluginTypeInv, TurnInv
<1>4. FateInv'
  BY <1>1 DEF PluginInv, PluginTypeInv, FateInv
<1>5. Active' = Active /\ Restrictors' = Restrictors
  BY <1>1 DEF Active, Restrictors
<1>6. ActiveInv'
  BY <1>5 DEF PluginInv, ActiveInv
<1> QED
  BY <1>2, <1>3, <1>4, <1>6 DEF PluginInv

\* A turn ends: the plugin is skipped, or it is taken over.
LEMMA NextStep ==
    ASSUME PluginInv, Installing, NEW how \in {"active", "skipped"}, NextPlugin(how),
           UNCHANGED <<plugins, seen, running, staged>>, ActiveInv',
           plugged' \in [DOMAIN plugins -> SUBSET Registrations],
           how = "skipped" => plugins[turn].open /\ ~plugins[turn].restricts,
           frozen \subseteq frozen', turn \notin running \ frozen'
    PROVE  PluginInv'
<1>1. /\ turn \in DOMAIN plugins /\ DOMAIN plugins = 1 .. Len(plugins)
      /\ Len(plugins) \in Nat
  BY OnTurn DEF PluginInv, PluginTypeInv
<1>2. /\ turn' = turn + 1 /\ fate' = [fate EXCEPT ![turn] = how]
      /\ ipc' = IF turn = Len(plugins) THEN "installed" ELSE "capabilities"
  BY DEF NextPlugin
<1>3. PluginTypeInv'
  <2>1. fate' \in [DOMAIN plugins -> {"none", "active", "skipped"}]
    BY <1>2 DEF PluginInv, PluginTypeInv
  <2>2. turn' \in Nat \ {0} /\ ipc' \in InstallPlaces
    BY <1>1, <1>2 DEF InstallPlaces
  <2> QED
    BY <2>1, <2>2 DEF PluginInv, PluginTypeInv
<1>4. TurnInv'
  <2>1. turn <= Len(plugins) /\ plugins' = plugins
    BY <1>1
  <2> QED
    BY <1>1, <1>2, <2>1 DEF TurnInv
<1>5. FateInv'
  <2>1. /\ fate'[turn] = how
        /\ \A i \in DOMAIN plugins \ {turn} : fate'[i] = fate[i]
    BY <1>1, <1>2 DEF PluginInv, PluginTypeInv
  <2>2. turn \in Nat /\ turn' = turn + 1 /\ ipc' # "install"
    BY <1>1, <1>2
  <2>3. ASSUME NEW i \in DOMAIN plugins
        PROVE  /\ i >= turn' => fate'[i] = "none"
               /\ i < turn' => fate'[i] # "none"
    BY <1>1, <2>1, <2>2, <2>3 DEF PluginInv, FateInv
  <2>4. ASSUME NEW i \in DOMAIN plugins PROVE i \notin running' \ frozen'
    BY <1>1, <2>2, <2>4 DEF PluginInv, FateInv
  <2>5. ASSUME NEW i \in DOMAIN plugins, i > turn' PROVE i \notin running'
    BY <1>1, <2>2, <2>5 DEF PluginInv, FateInv
  <2>6. ASSUME NEW i \in DOMAIN plugins, fate'[i] = "skipped"
        PROVE  plugins[i].open /\ ~plugins[i].restricts
    BY <1>1, <2>1, <2>6 DEF PluginInv, FateInv
  <2>7. plugins' = plugins
    OBVIOUS
  <2> QED
    BY <2>3, <2>4, <2>5, <2>6, <2>7 DEF FateInv
<1> QED
  BY <1>3, <1>4, <1>5 DEF PluginInv

LEMMA SkipStep ==
    ASSUME PluginInv, ipc \in {"metadata", "check", "install"}, GiveUp,
           UNCHANGED <<plugins, seen, running, staged, plugged>>,
           frozen \subseteq frozen', turn \notin running \ frozen'
    PROVE  PluginInv'
<1>1. Installing
  BY DEF Installing
<1>2. CASE StartFails
  BY <1>1, <1>2, FailStep
<1>3. CASE plugins[turn].open /\ NextPlugin("skipped")
  <2>1. ~plugins[turn].restricts
    BY <1>3 DEF PluginInv, TurnInv
  <2>2. Active' = Active /\ Restrictors' = Restrictors
    BY <1>1, <1>3, OnTurn DEF NextPlugin, Active, Restrictors, PluginInv, PluginTypeInv
  <2>3. ActiveInv'
    BY <2>2 DEF PluginInv, ActiveInv
  <2> QED
    BY <1>1, <1>3, <2>1, <2>3, NextStep DEF PluginInv, PluginTypeInv
<1> QED
  BY <1>2, <1>3 DEF GiveUp

-----------------------------------------------------------------------------
\* One plugin registers: nothing that is frozen changes, so nothing of an active one.
LEMMA RegisterKeeps == ASSUME PluginInv, NEW k \in DOMAIN plugins, Register(k) PROVE PluginInv'
<1>1. /\ UNCHANGED <<plugins, turn, ipc, seen, running, frozen, plugged, fate>>
      /\ k \in running
      /\ \E r \in Registrations :
           staged' = IF k \in frozen THEN staged ELSE [staged EXCEPT ![k] = @ \cup {r}]
  BY DEF Register
<1>2. PluginTypeInv'
  BY <1>1 DEF PluginInv, PluginTypeInv
<1>3. TurnInv' /\ FateInv'
  BY <1>1 DEF PluginInv, TurnInv, FateInv, Active
<1>4. Active' = Active /\ Restrictors' = Restrictors
  BY <1>1 DEF Active, Restrictors
<1>5. \A i \in Active : staged'[i] = staged[i]
  <2>1. k \notin frozen => fate[k] = "none"
    BY <1>1 DEF PluginInv, PluginTypeInv, FateInv
  <2> QED
    BY <1>1, <2>1 DEF Active, PluginInv, PluginTypeInv
<1>6. ActiveInv'
  BY <1>1, <1>4, <1>5 DEF PluginInv, ActiveInv
<1> QED
  BY <1>2, <1>3, <1>6 DEF PluginInv

\* What a registrar has is taken over, or its plugin is given up on.
LEMMA TakeOverKeeps == ASSUME PluginInv, InstallReturns PROVE PluginInv'
<1>1. /\ ipc = "install" /\ Installing /\ frozen' = frozen \cup {turn}
      /\ UNCHANGED <<plugins, seen, running, staged>>
      /\ turn \notin running \ frozen'
  BY DEF InstallReturns, Installing
<1>2. CASE ~Sound(turn) /\ GiveUp /\ UNCHANGED plugged
  BY <1>1, <1>2, SkipStep
<1>3. CASE /\ Sound(turn) /\ NextPlugin("active")
           /\ plugged' = [plugged EXCEPT ![turn] = staged[turn]]
  <2>1. /\ turn \in DOMAIN plugins /\ turn \notin Active
        /\ staged[turn] \subseteq Registrations
        /\ plugged' \in [DOMAIN plugins -> SUBSET Registrations]
    BY <1>1, <1>3, OnTurn DEF PluginInv, PluginTypeInv
  <2>2. Active' = Active \cup {turn}
    BY <1>1, <1>3, <2>1 DEF Active, NextPlugin, PluginInv, PluginTypeInv
  <2>3. /\ plugged'[turn] = staged[turn]
        /\ \A i \in DOMAIN plugins \ {turn} : plugged'[i] = plugged[i]
    BY <1>3, <2>1 DEF PluginInv, PluginTypeInv
  <2>4. Restrictors' = Restrictors \cup (IF "rule" \in staged[turn] THEN {turn} ELSE {})
    <3>1. turn \notin Restrictors
      BY <1>1, OnTurn DEF Restrictors
    <3> QED
      BY <1>1, <2>1, <2>3, <3>1 DEF Restrictors
  <2>5. \A i, j \in Restrictors' : i = j
    BY <1>3, <2>4 DEF Sound, PluginInv, ActiveInv
  <2>6. \A i, j \in Active' : plugins'[i].name = plugins'[j].name => i = j
    BY <1>1, <2>2 DEF PluginInv, ActiveInv, TurnInv
  <2>7. plugins[turn].restricts <=> "rule" \in plugged'[turn]
    BY <1>3, <2>3 DEF Sound
  <2>8. ActiveInv'
    BY <1>1, <2>1, <2>2, <2>3, <2>5, <2>6, <2>7 DEF PluginInv, ActiveInv, TurnInv
  <2> QED
    BY <1>1, <1>3, <2>1, <2>8, NextStep
<1> QED
  BY <1>2, <1>3 DEF InstallReturns, TakeOver

LEMMA StepKeeps == ASSUME PluginInv, [PluginStep \/ RegisterStep]_pluginVars PROVE PluginInv'
<1>1. CASE Capabilities
  <2>1. Installing /\ turn \notin running \ frozen /\ ipc # "install"
    BY <1>1, OnTurn DEF Capabilities, Installing, PluginInv, FateInv, PluginTypeInv
  <2>2. CASE StartFails
    BY <1>1, <2>1, <2>2, FailStep DEF Capabilities
  <2>3. CASE /\ ~(plugins[turn].restricts /\ plugins[turn].open)
             /\ ipc' = "metadata" /\ UNCHANGED <<turn, fate>>
    <3>1. UNCHANGED <<plugins, turn, seen, running, staged, frozen, plugged, fate>>
      BY <1>1, <2>3 DEF Capabilities
    <3>2. PluginTypeInv' /\ FateInv'
      BY <2>1, <2>3, <3>1 DEF PluginInv, PluginTypeInv, FateInv, InstallPlaces
    <3>3. TurnInv'
      BY <2>1, <2>3, <3>1 DEF PluginInv, TurnInv, Installing
    <3>4. ActiveInv'
      BY <3>1 DEF PluginInv, ActiveInv, Active, Restrictors
    <3> QED
      BY <3>2, <3>3, <3>4 DEF PluginInv
  <2> QED
    BY <1>1, <2>2, <2>3 DEF Capabilities
<1>2. CASE MetadataFails \/ Unfit
  <2>1. turn \notin running \ frozen
    BY <1>2, OnTurn DEF MetadataFails, Unfit, Installing, PluginInv, FateInv, PluginTypeInv
  <2> QED
    BY <1>2, <2>1, SkipStep DEF MetadataFails, Unfit
<1>3. CASE Metadata
  <2>1. /\ Installing /\ turn \notin running \ frozen /\ ipc = "metadata"
        /\ seen' = seen \cup {plugins[turn].name}
        /\ UNCHANGED <<plugins, running, staged, frozen, plugged>>
    BY <1>3, OnTurn DEF Metadata, Installing, PluginInv, FateInv, PluginTypeInv
  <2>2. CASE StartFails
    BY <2>1, <2>2, FailStep
  <2>3. CASE plugins[turn].name \notin seen /\ ipc' = "check" /\ UNCHANGED <<turn, fate>>
    <3>1. PluginTypeInv' /\ FateInv'
      BY <2>1, <2>3 DEF PluginInv, PluginTypeInv, FateInv, InstallPlaces
    <3>2. Active' = Active /\ Restrictors' = Restrictors
      BY <2>1, <2>3 DEF Active, Restrictors
    <3>3. \A j \in Active : plugins[j].name # plugins[turn].name
      BY <2>3 DEF PluginInv, ActiveInv, Active
    <3>4. TurnInv'
      BY <2>1, <2>3, <3>2, <3>3 DEF PluginInv, TurnInv
    <3>5. ActiveInv'
      BY <2>1, <3>2 DEF PluginInv, ActiveInv
    <3> QED
      BY <3>1, <3>4, <3>5 DEF PluginInv
  <2> QED
    BY <1>3, <2>2, <2>3 DEF Metadata
<1>4. CASE CallInstall
  <2>1. /\ ipc = "check" /\ ipc' = "install" /\ running' = running \cup {turn}
        /\ UNCHANGED <<plugins, turn, seen, staged, frozen, plugged, fate>>
    BY <1>4 DEF CallInstall
  <2>2. PluginTypeInv' /\ FateInv'
    BY <2>1 DEF PluginInv, PluginTypeInv, FateInv, InstallPlaces
  <2>3. Active' = Active /\ Restrictors' = Restrictors
    BY <2>1 DEF Active, Restrictors
  <2>4. TurnInv' /\ ActiveInv'
    BY <2>1, <2>3 DEF PluginInv, TurnInv, ActiveInv
  <2> QED
    BY <2>2, <2>4 DEF PluginInv
<1>5. CASE InstallFails
  BY <1>5, SkipStep DEF InstallFails
<1>6. CASE InstallReturns
  BY <1>6, TakeOverKeeps
<1>7. CASE RegisterStep
  BY <1>7, RegisterKeeps DEF RegisterStep
<1>8. CASE UNCHANGED pluginVars
  BY <1>8 DEF pluginVars, PluginInv, PluginTypeInv, TurnInv, FateInv, ActiveInv, Active, Restrictors
<1> QED
  BY <1>1, <1>2, <1>3, <1>4, <1>5, <1>6, <1>7, <1>8 DEF PluginStep

\* What each turn leaves behind is what the invariant says, in every state.
THEOREM PluginInductive == PluginSpec => []PluginInv
  BY InitPluginInv, StepKeeps, PTL DEF PluginSpec

\* For any builds, a plugin is installed as a whole or not at all, a start that
\* succeeds has left out only fail-open ones, and at most one plugin restricts.
THEOREM Installed == PluginSpec => []InstalledWhole
<1>1. PluginInv => TakenIsInForce
  BY DEF PluginInv, ActiveInv, TakenIsInForce
<1>2. ASSUME PluginInv, ipc = "installed" PROVE StartIsComplete
  <2>1. \A i \in DOMAIN plugins : i \in Active \/ fate[i] = "skipped"
    BY <1>2 DEF PluginInv, PluginTypeInv, TurnInv, FateInv, Active
  <2>2. \A i \in DOMAIN plugins \ Active : plugins[i].open /\ ~plugins[i].restricts
    BY <1>2, <2>1 DEF PluginInv, FateInv
  <2>3. Restrictors = {i \in DOMAIN plugins : plugins[i].restricts}
    BY <1>2, <2>2 DEF PluginInv, ActiveInv, Restrictors
  <2>4. Cardinality(Restrictors) <= 1
    <3>1. Restrictors = {} => Cardinality(Restrictors) = 0
      BY FS_EmptySet
    <3>2. ASSUME NEW i \in Restrictors PROVE Cardinality(Restrictors) = 1
      <4>1. Restrictors = {i}
        BY <1>2 DEF PluginInv, ActiveInv
      <4> QED
        BY <4>1, FS_Singleton
    <3> QED
      BY <3>1, <3>2
  <2> QED
    BY <1>2, <2>2, <2>3, <2>4 DEF StartIsComplete, PluginInv, ActiveInv
<1>3. PluginInv => StartIsComplete
  BY <1>2 DEF StartIsComplete
<1> QED
  BY <1>1, <1>3, PluginInductive, PTL DEF InstalledWhole

-----------------------------------------------------------------------------
(***************************************************************************)
(* Catalog, for any listing and any table of tools that the CLI knows: a   *)
(* command that is accepted has been validated alone, with what the CLI    *)
(* adds to its group, and no two of them have the same path.  That this is *)
(* enough for the tree of all of them is what is shown first, one addition *)
(* to a group after the other.                                             *)
(***************************************************************************)

ServerCommand == [tool : STRING, resource : STRING, method : STRING, flags : Seq(STRING)]

UploadFlags == <<"resource-type", "project-key", "work-item-id", "work-item-type",
                 "field-key", "filename", "content-type">>
DownloadFlags == <<"project-key", "work-item-id", "output", "overwrite">>

\* To the provers, a literal is not known to be in STRING.
Words == STRING \cup {"me", "+upload", "+download", "+batch-get", "search_user_info",
                     "resource-type", "project-key", "work-item-id", "work-item-type",
                     "field-key", "filename", "content-type", "output", "overwrite",
                     "work-item-ids", "ids-file"}

NodeType == [name : Words, aliases : {<<>>, <<"+get-batch">>}, flags : Seq(Words), tool : Words]

\* The commands of a group that the server lists, before any is added.
Own(cs, g) ==
    LET own == Selected(cs, {i \in DOMAIN cs : cs[i].resource = g})
    IN [i \in DOMAIN own |-> Node(own[i].method, <<>>, own[i].flags, own[i].tool)]

\* What is said of the commands of a group at every step of its making.
GroupWhole(nodes, g, cs) ==
    /\ nodes \in Seq(NodeType) /\ ValidChildren(nodes)
    /\ \A i \in DOMAIN nodes :
         /\ ValidFlags(nodes[i].flags)
         /\ \/ nodes[i].name = "me"
            \/ \E j \in DOMAIN cs : cs[j].tool = nodes[i].tool /\ cs[j].resource = g

LEMMA StringsAreWords == STRING \subseteq Words /\ Seq(STRING) \subseteq Seq(Words)
  BY DEF Words

\* Each of them is made of one command, and every command of the group has one.
LEMMA OwnNodes ==
    ASSUME NEW cs \in Seq(ServerCommand), NEW g
    PROVE  /\ Own(cs, g) \in Seq(NodeType)
           /\ \A k \in DOMAIN Own(cs, g) : \E i \in DOMAIN cs :
                cs[i].resource = g
                /\ Own(cs, g)[k] = Node(cs[i].method, <<>>, cs[i].flags, cs[i].tool)
           /\ \A i \in DOMAIN cs : cs[i].resource = g => \E k \in DOMAIN Own(cs, g) :
                Own(cs, g)[k] = Node(cs[i].method, <<>>, cs[i].flags, cs[i].tool)
           /\ \A k, l \in DOMAIN Own(cs, g) : k # l => \E i, j \in DOMAIN cs :
                /\ i # j /\ cs[i].resource = g /\ cs[j].resource = g
                /\ Own(cs, g)[k].name = cs[i].method /\ Own(cs, g)[l].name = cs[j].method
<1> DEFINE S == {i \in DOMAIN cs : cs[i].resource = g}
           own == Selected(cs, S)
           NodeOf(c) == Node(c.method, <<>>, c.flags, c.tool)
<1>1. S \in SUBSET DOMAIN cs
  OBVIOUS
<1>2. own \in Seq(ServerCommand)
      /\ (\A k \in DOMAIN own : \E i \in S : own[k] = cs[i])
      /\ (\A i \in S : \E k \in DOMAIN own : own[k] = cs[i])
      /\ \A k, l \in DOMAIN own :
           k # l => \E i, j \in S : i # j /\ own[k] = cs[i] /\ own[l] = cs[j]
  BY <1>1, Selects
<1>3. Own(cs, g) = [k \in DOMAIN own |-> NodeOf(own[k])]
  BY DEF Own
<1> HIDE DEF own
<1>4. \A c \in ServerCommand : NodeOf(c) \in NodeType /\ NodeOf(c).name = c.method
  BY StringsAreWords DEF ServerCommand, NodeType, Node
<1> HIDE DEF NodeOf
<1>5. /\ DOMAIN own = 1 .. Len(own) /\ Len(own) \in Nat
      /\ \A k \in DOMAIN own : own[k] \in ServerCommand
  BY <1>2
<1>6. Own(cs, g) \in Seq(NodeType)
  BY <1>3, <1>4, <1>5
<1>7. \A i \in S : i \in DOMAIN cs /\ cs[i].resource = g
  OBVIOUS
<1>8. DOMAIN Own(cs, g) = DOMAIN own /\ \A k \in DOMAIN own :
        Own(cs, g)[k] = NodeOf(own[k]) /\ Own(cs, g)[k].name = own[k].method
  BY <1>3, <1>4, <1>5
<1>9. ASSUME NEW k \in DOMAIN own PROVE \E i \in DOMAIN cs :
        cs[i].resource = g /\ Own(cs, g)[k] = NodeOf(cs[i])
  BY <1>2, <1>7, <1>8
<1>10. ASSUME NEW i \in DOMAIN cs, cs[i].resource = g
       PROVE \E k \in DOMAIN own : Own(cs, g)[k] = NodeOf(cs[i])
  BY <1>2, <1>10, <1>8
<1>11. ASSUME NEW k \in DOMAIN own, NEW l \in DOMAIN own, k # l
       PROVE  \E i, j \in DOMAIN cs :
                /\ i # j /\ cs[i].resource = g /\ cs[j].resource = g
                /\ Own(cs, g)[k].name = cs[i].method /\ Own(cs, g)[l].name = cs[j].method
  <2>1. PICK i \in S, j \in S : i # j /\ own[k] = cs[i] /\ own[l] = cs[j]
    BY <1>2, <1>11
  <2> QED
    BY <1>7, <1>8, <2>1
<1> QED
  BY <1>6, <1>8, <1>9, <1>10, <1>11 DEF NodeOf

\* A command may be added to a group under names that are free in it.
LEMMA AppendWhole ==
    ASSUME NEW cs, NEW g, NEW nodes, GroupWhole(nodes, g, cs), NEW n \in NodeType,
           n.name \notin Range(n.aliases), ValidFlags(n.flags),
           \A i \in DOMAIN nodes : AllNames(nodes[i]) \cap AllNames(n) = {},
           n.name = "me" \/ \E j \in DOMAIN cs : cs[j].tool = n.tool /\ cs[j].resource = g
    PROVE  GroupWhole(Append(nodes, n), g, cs)
<1> DEFINE m == Append(nodes, n)
<1>1. nodes \in Seq(NodeType) /\ ValidChildren(nodes)
  BY DEF GroupWhole
<1>2. /\ m \in Seq(NodeType) /\ Len(nodes) \in Nat /\ DOMAIN nodes = 1 .. Len(nodes)
      /\ DOMAIN m = 1 .. Len(nodes) + 1 /\ m[Len(nodes) + 1] = n
      /\ \A i \in DOMAIN nodes : m[i] = nodes[i]
  BY <1>1
<1>3. IsInjective(n.aliases)
  BY DEF NodeType, IsInjective
<1> HIDE DEF m
<1>4. \A i \in DOMAIN m : \/ (i \in DOMAIN nodes /\ m[i] = nodes[i])
                           \/ (i = Len(nodes) + 1 /\ m[i] = n)
  BY <1>2
<1>5. ASSUME NEW i \in DOMAIN m
      PROVE IsInjective(m[i].aliases) /\ m[i].name \notin Range(m[i].aliases)
  BY <1>1, <1>3, <1>4 DEF ValidChildren
<1>6. ASSUME NEW i \in DOMAIN m, NEW j \in DOMAIN m, i # j
      PROVE  AllNames(m[i]) \cap AllNames(m[j]) = {}
  BY <1>1, <1>4, <1>6 DEF ValidChildren
<1>7. ASSUME NEW i \in DOMAIN m
      PROVE  /\ ValidFlags(m[i].flags)
             /\ \/ m[i].name = "me"
                \/ \E j \in DOMAIN cs : cs[j].tool = m[i].tool /\ cs[j].resource = g
  BY <1>4 DEF GroupWhole
<1> QED
  BY <1>2, <1>5, <1>6, <1>7 DEF GroupWhole, ValidChildren, m

\* A command that would do alone.
Alone(c) == Verdict(c, <<>>) = "ok"

\* What is known of the commands that have been accepted.
OwnInv(cs) ==
    /\ \A i \in DOMAIN cs : Alone(cs[i])
    /\ \A i, j \in DOMAIN cs :
         cs[i].resource = cs[j].resource /\ cs[i].method = cs[j].method => i = j

TreeOf(cs, g) == WithBatch(g, WithAttachments(g, WithSugar(g, Own(cs, g))))

LEMMA TreeGroups ==
    ASSUME NEW cs \in Seq(ServerCommand)
    PROVE  /\ DOMAIN Tree(cs) = {cs[i].resource : i \in DOMAIN cs}
           /\ \A g \in DOMAIN Tree(cs) : Tree(cs)[g] = TreeOf(cs, g)
  BY DEF Tree, TreeOf, Own, Range

LEMMA ChildFacts ==
    ASSUME NEW nodes, NEW name, Named(nodes, name)
    PROVE  \E i \in DOMAIN nodes : nodes[i].name = name /\ Child(nodes, name) = nodes[i]
  BY DEF Named, Child

LEMMA BatchFlagsType ==
    ASSUME NEW flags \in Seq(Words)
    PROVE  BatchFlags(flags) \in Seq(Words)
<1> DEFINE S == {i \in DOMAIN flags : flags[i] # "work-item-id"}
<1>1. Selected(flags, S) \in Seq(Words)
  <2>1. S \in SUBSET DOMAIN flags
    OBVIOUS
  <2> QED
    BY <2>1, Selects
<1>2. <<"work-item-ids", "ids-file">> \in Seq(Words)
  BY DEF Words
<1> QED
  BY <1>1, <1>2 DEF BatchFlags

\* Whatever is added to a group leaves its own commands in their places.
LEMMA StaysFirst ==
    ASSUME NEW n \in NodeType, NEW g
    PROVE  LET all == WithBatch(g, WithAttachments(g, WithSugar(g, <<n>>)))
           IN 1 \in DOMAIN all /\ all[1] = n
<1> DEFINE First(s) == s \in Seq(NodeType) /\ 1 \in DOMAIN s /\ s[1] = n
<1>1. ASSUME NEW s, First(s), NEW x \in NodeType PROVE First(Append(s, x))
  BY <1>1
<1>2. ASSUME NEW s, First(s), NEW name \in Words, NEW sibling, NEW flags \in Seq(Words)
      PROVE  First(WithShortcut(s, name, sibling, flags))
  <2>1. CASE Named(s, name) \/ ~Named(s, sibling)
    BY <1>2, <2>1 DEF WithShortcut
  <2>2. CASE ~Named(s, name) /\ Named(s, sibling)
    <3>1. Child(s, sibling) \in NodeType
      BY <1>2, <2>2, ChildFacts
    <3>2. Node(name, <<>>, flags, Child(s, sibling).tool) \in NodeType
      BY <3>1 DEF Node, NodeType
    <3> QED
      BY <1>1, <1>2, <2>2, <3>2 DEF WithShortcut
  <2> QED
    BY <2>1, <2>2
<1>3. First(<<n>>)
  OBVIOUS
<1>4. First(WithSugar(g, <<n>>))
  <2>1. Node("me", <<>>, <<>>, "search_user_info") \in NodeType
    BY DEF Node, NodeType, Words
  <2> QED
    BY <1>1, <1>3, <2>1 DEF WithSugar
<1>5. ASSUME NEW s, First(s) PROVE First(WithAttachments(g, s))
  <2>1. UploadFlags \in Seq(Words) /\ DownloadFlags \in Seq(Words)
    BY DEF UploadFlags, DownloadFlags, Words
  <2> HIDE DEF First
  <2> QED
    BY <1>2, <1>5, <2>1 DEF WithAttachments, Words, UploadFlags, DownloadFlags
<1>6. ASSUME NEW s, First(s) PROVE First(WithBatch(g, s))
  <2>1. CASE Named(s, "get")
    <3>1. Child(s, "get") \in NodeType
      BY <1>6, <2>1, ChildFacts
    <3>2. BatchFlags(Child(s, "get").flags) \in Seq(Words)
      BY <3>1, BatchFlagsType DEF NodeType
    <3>3. Node("+batch-get", <<"+get-batch">>, BatchFlags(Child(s, "get").flags),
               Child(s, "get").tool) \in NodeType
      BY <3>1, <3>2 DEF Node, NodeType, Words
    <3> HIDE DEF First
    <3> QED
      BY <1>1, <1>6, <3>3 DEF WithBatch
  <2>2. CASE ~Named(s, "get")
    BY <1>6, <2>2 DEF WithBatch
  <2> QED
    BY <2>1, <2>2
<1> HIDE DEF First
<1>7. First(WithBatch(g, WithAttachments(g, WithSugar(g, <<n>>))))
  BY <1>4, <1>5, <1>6
<1> QED
  BY <1>7 DEF First

\* A single command is a group by itself.
LEMMA OwnOfOne ==
    ASSUME NEW cs \in Seq(ServerCommand), DOMAIN cs = {1}
    PROVE  LET c == cs[1]
           IN Own(cs, c.resource) = <<Node(c.method, <<>>, c.flags, c.tool)>>
<1> DEFINE c == cs[1]
           g == c.resource
           own == Own(cs, g)
           NodeOf(x) == Node(x.method, <<>>, x.flags, x.tool)
           n == NodeOf(c)
<1> HIDE DEF g
<1>1. /\ own \in Seq(NodeType)
      /\ \A k \in DOMAIN own : \E i \in DOMAIN cs : own[k] = NodeOf(cs[i])
      /\ \A i \in DOMAIN cs : cs[i].resource = g => \E k \in DOMAIN own : own[k] = NodeOf(cs[i])
      /\ \A k, l \in DOMAIN own : k # l => \E i, j \in DOMAIN cs : i # j
  <2>1. own \in Seq(NodeType)
    BY OwnNodes
  <2>2. \A k \in DOMAIN own : \E i \in DOMAIN cs : own[k] = NodeOf(cs[i])
    BY OwnNodes
  <2>3. \A i \in DOMAIN cs : cs[i].resource = g => \E k \in DOMAIN own : own[k] = NodeOf(cs[i])
    BY OwnNodes
  <2>4. \A k, l \in DOMAIN own : k # l => \E i, j \in DOMAIN cs : i # j
    BY OwnNodes
  <2> HIDE DEF own, NodeOf
  <2> QED
    BY <2>1, <2>2, <2>3, <2>4
<1>2. g = cs[1].resource
  BY DEF g
<1> HIDE DEF own, NodeOf
<1>3. \E k \in DOMAIN own : own[k] = n
  BY <1>1, <1>2
<1>4. \A k, l \in DOMAIN own : k # l => \E i, j \in DOMAIN cs : i # j
  BY <1>1
<1>5. \A k \in DOMAIN own : own[k] = n
  BY <1>1
<1> HIDE DEF n
<1>6. DOMAIN own = 1 .. Len(own) /\ Len(own) \in Nat
  BY <1>1
<1>7. Len(own) = 1
  <2>1. ASSUME Len(own) > 1 PROVE FALSE
    <3>1. 1 \in DOMAIN own /\ 2 \in DOMAIN own
      BY <1>6, <2>1
    <3> QED
      BY <1>4, <3>1
  <2> QED
    BY <1>3, <1>6, <2>1
<1> QED
  BY <1>1, <1>5, <1>6, <1>7 DEF own, n, NodeOf, g

\* What a command that would do alone is like.
LEMMA AloneFacts ==
    ASSUME NEW c \in ServerCommand, Alone(c)
    PROVE  /\ c.resource \notin ReservedResources /\ ~OwnedByAnother(c)
           /\ c.resource \in LowerKebab /\ c.method \in LowerKebab
           /\ ValidFlags(c.flags)
           /\ ~(c.resource = "user" /\ c.method = "me")
           /\ c.resource = "workitem" /\ c.method = "get" => ValidFlags(BatchFlags(c.flags))
<1> DEFINE g == c.resource
           n == Node(c.method, <<>>, c.flags, c.tool)
<1>1. /\ c.resource \notin ReservedResources /\ ~OwnedByAnother(c)
      /\ c.resource \in LowerKebab /\ c.method \in LowerKebab /\ Valid(Tree(<<c>>))
  BY DEF Alone, Verdict
<1>2. <<c>> \in Seq(ServerCommand) /\ DOMAIN <<c>> = {1} /\ <<c>>[1] = c
  OBVIOUS
<1>3. g \in DOMAIN Tree(<<c>>) /\ Tree(<<c>>)[g] = TreeOf(<<c>>, g)
  BY <1>2, TreeGroups
<1>4. ValidChildren(TreeOf(<<c>>, g))
      /\ \A i \in DOMAIN TreeOf(<<c>>, g) : ValidFlags(TreeOf(<<c>>, g)[i].flags)
  BY <1>1, <1>3 DEF Valid
<1>5. Own(<<c>>, g) = <<n>>
  BY <1>2, OwnOfOne
<1>6. /\ n \in NodeType /\ n.name = c.method /\ n.flags = c.flags /\ n.tool = c.tool
      /\ n.aliases = <<>>
  BY StringsAreWords DEF ServerCommand, NodeType, Node
<1> HIDE DEF n
<1>7. ASSUME g = "user" PROVE c.method # "me"
  <2> DEFINE me == Node("me", <<>>, <<>>, "search_user_info")
  <2>1. TreeOf(<<c>>, g) = Append(<<n>>, me)
    BY <1>5, <1>7 DEF TreeOf, WithSugar, WithAttachments, WithBatch
  <2>2. me.name = "me" /\ me \in NodeType
    BY DEF Node, NodeType, Words
  <2> HIDE DEF me
  <2>3. {1, 2} \subseteq DOMAIN Append(<<n>>, me)
        /\ Append(<<n>>, me)[1] = n /\ Append(<<n>>, me)[2] = me
    BY <1>6, <2>2
  <2>4. AllNames(n) \cap AllNames(me) = {}
    BY <1>4, <2>1, <2>3 DEF ValidChildren
  <2> QED
    BY <1>6, <2>2, <2>4 DEF AllNames
<1>8. ASSUME g = "workitem", c.method = "get" PROVE ValidFlags(BatchFlags(c.flags))
  <2> DEFINE batch == Node("+batch-get", <<"+get-batch">>, BatchFlags(c.flags), c.tool)
  <2>1. DOMAIN <<n>> = {1} /\ <<n>>[1] = n
    OBVIOUS
  <2>2. ~Named(<<n>>, "+batch-get") /\ Named(<<n>>, "get") /\ Child(<<n>>, "get") = n
    BY <1>6, <1>8, <2>1 DEF Named, Child
  <2>3. TreeOf(<<c>>, g) = Append(<<n>>, batch)
    BY <1>5, <1>6, <1>8, <2>2 DEF TreeOf, WithSugar, WithAttachments, WithBatch
  <2>4. batch.flags = BatchFlags(c.flags)
    BY DEF Node
  <2> HIDE DEF batch
  <2>5. 2 \in DOMAIN Append(<<n>>, batch) /\ Append(<<n>>, batch)[2] = batch
    OBVIOUS
  <2> QED
    BY <1>4, <2>3, <2>4, <2>5
<1>9. ValidFlags(c.flags)
  <2>1. 1 \in DOMAIN TreeOf(<<c>>, g) /\ TreeOf(<<c>>, g)[1] = n
    BY <1>5, <1>6, StaysFirst DEF TreeOf
  <2> QED
    BY <1>4, <1>6, <2>1
<1> QED
  BY <1>1, <1>7, <1>8, <1>9

\* No flag is given twice, or is one of the builtin ones.
LEMMA OfferedFlags == ValidFlags(<<>>) /\ ValidFlags(UploadFlags) /\ ValidFlags(DownloadFlags)
<1>1. ValidFlags(<<>>)
  BY DEF ValidFlags, IsInjective, Range
<1>2. ValidFlags(UploadFlags)
  BY DEF ValidFlags, IsInjective, Range, UploadFlags, BuiltinFlags
<1>3. ValidFlags(DownloadFlags)
  BY DEF ValidFlags, IsInjective, Range, DownloadFlags, BuiltinFlags
<1> QED
  BY <1>1, <1>2, <1>3

\* The commands of a group by themselves.
LEMMA OwnWhole ==
    ASSUME NEW cs \in Seq(ServerCommand), OwnInv(cs), NEW g
    PROVE  /\ GroupWhole(Own(cs, g), g, cs)
           /\ \A k \in DOMAIN Own(cs, g) :
                /\ Own(cs, g)[k].aliases = <<>> /\ Own(cs, g)[k].name \in LowerKebab
                /\ g = "user" => Own(cs, g)[k].name # "me"
                /\ g = "workitem" /\ Own(cs, g)[k].name = "get" =>
                     ValidFlags(BatchFlags(Own(cs, g)[k].flags))
<1> DEFINE own == Own(cs, g)
<1>1. /\ own \in Seq(NodeType)
      /\ \A k \in DOMAIN own : \E i \in DOMAIN cs :
           cs[i].resource = g /\ own[k] = Node(cs[i].method, <<>>, cs[i].flags, cs[i].tool)
  BY OwnNodes
<1>2. \A k, l \in DOMAIN own : k # l => \E i, j \in DOMAIN cs :
        /\ i # j /\ cs[i].resource = g /\ cs[j].resource = g
        /\ own[k].name = cs[i].method /\ own[l].name = cs[j].method
  BY OwnNodes
<1> HIDE DEF own
<1>3. ASSUME NEW k \in DOMAIN own
      PROVE  /\ own[k].aliases = <<>> /\ own[k].name \in LowerKebab
             /\ ValidFlags(own[k].flags)
             /\ \E j \in DOMAIN cs : cs[j].tool = own[k].tool /\ cs[j].resource = g
             /\ g = "user" => own[k].name # "me"
             /\ g = "workitem" /\ own[k].name = "get" => ValidFlags(BatchFlags(own[k].flags))
  <2>1. PICK i \in DOMAIN cs :
          cs[i].resource = g /\ own[k] = Node(cs[i].method, <<>>, cs[i].flags, cs[i].tool)
    BY <1>1
  <2>2. cs[i] \in ServerCommand /\ Alone(cs[i])
    BY DEF OwnInv
  <2>3. /\ own[k].name = cs[i].method /\ own[k].aliases = <<>>
        /\ own[k].flags = cs[i].flags /\ own[k].tool = cs[i].tool
    BY <2>1 DEF Node
  <2> QED
    BY <2>1, <2>2, <2>3, AloneFacts
<1>4. ASSUME NEW k \in DOMAIN own, NEW l \in DOMAIN own, k # l PROVE own[k].name # own[l].name
  BY <1>2, <1>4 DEF OwnInv
<1>5. \A k \in DOMAIN own : AllNames(own[k]) = {own[k].name} /\ IsInjective(own[k].aliases)
        /\ own[k].name \notin Range(own[k].aliases)
  BY <1>3 DEF AllNames, Range, IsInjective
<1>6. ValidChildren(own)
  BY <1>4, <1>5 DEF ValidChildren
<1>7. GroupWhole(own, g, cs)
  BY <1>1, <1>3, <1>6 DEF GroupWhole
<1> QED
  BY <1>3, <1>7 DEF own

\* The shortcuts of a group keep it whole, as long as there are no aliases in it.
LEMMA ShortcutWhole ==
    ASSUME NEW cs \in Seq(ServerCommand), NEW g, NEW nodes, GroupWhole(nodes, g, cs),
           \A i \in DOMAIN nodes : nodes[i].aliases = <<>>,
           NEW name \in Words, NEW sibling, sibling # "me",
           NEW flags \in Seq(Words), ValidFlags(flags)
    PROVE  LET all == WithShortcut(nodes, name, sibling, flags)
           IN GroupWhole(all, g, cs) /\ \A i \in DOMAIN all : all[i].aliases = <<>>
<1>1. CASE Named(nodes, name) \/ ~Named(nodes, sibling)
  BY <1>1 DEF WithShortcut
<1>2. CASE ~Named(nodes, name) /\ Named(nodes, sibling)
  <2> DEFINE c == Child(nodes, sibling)
             n == Node(name, <<>>, flags, c.tool)
  <2>1. nodes \in Seq(NodeType)
    BY DEF GroupWhole
  <2>2. c \in NodeType /\ \E j \in DOMAIN cs : cs[j].tool = c.tool /\ cs[j].resource = g
    <3>1. PICK i \in DOMAIN nodes : nodes[i].name = sibling /\ c = nodes[i]
      BY <1>2, ChildFacts
    <3> QED
      BY <2>1, <3>1 DEF GroupWhole
  <2>3. n \in NodeType /\ n.name = name /\ n.aliases = <<>> /\ n.flags = flags /\ n.tool = c.tool
    BY <2>2 DEF Node, NodeType
  <2>4. WithShortcut(nodes, name, sibling, flags) = Append(nodes, n)
    BY <1>2 DEF WithShortcut
  <2> HIDE DEF n, c
  <2>5. \A i \in DOMAIN nodes : AllNames(nodes[i]) \cap AllNames(n) = {}
    BY <1>2, <2>3 DEF AllNames, Range, Named
  <2>6. n.name \notin Range(n.aliases)
    BY <2>3 DEF Range
  <2>7. GroupWhole(Append(nodes, n), g, cs)
    BY <2>2, <2>3, <2>5, <2>6, AppendWhole
  <2>8. \A i \in DOMAIN Append(nodes, n) : Append(nodes, n)[i].aliases = <<>>
    BY <2>1, <2>3
  <2> QED
    BY <2>4, <2>7, <2>8
<1> QED
  BY <1>1, <1>2

\* So a group is whole with all that is added to it.
LEMMA TreeOfWhole ==
    ASSUME NEW cs \in Seq(ServerCommand), OwnInv(cs), NEW g
    PROVE  GroupWhole(TreeOf(cs, g), g, cs)
<1> DEFINE own == Own(cs, g)
<1>1. /\ GroupWhole(own, g, cs) /\ own \in Seq(NodeType)
      /\ \A k \in DOMAIN own : own[k].aliases = <<>> /\ own[k].name \in LowerKebab
  BY OwnWhole DEF GroupWhole
<1>2. \A k \in DOMAIN own : AllNames(own[k]) = {own[k].name}
  BY <1>1 DEF AllNames, Range
<1>3. CASE g = "user"
  <2> DEFINE n == Node("me", <<>>, <<>>, "search_user_info")
  <2>1. n \in NodeType /\ n.name = "me" /\ n.aliases = <<>> /\ n.flags = <<>>
    BY DEF Node, NodeType, Words
  <2>2. TreeOf(cs, g) = Append(own, n)
    BY <1>3 DEF TreeOf, WithSugar, WithAttachments, WithBatch
  <2>3. \A k \in DOMAIN own : own[k].name # "me"
    BY <1>3, OwnWhole
  <2> HIDE DEF n, own
  <2>4. AllNames(n) = {"me"} /\ n.name \notin Range(n.aliases)
    BY <2>1 DEF AllNames, Range
  <2>5. \A k \in DOMAIN own : AllNames(own[k]) \cap AllNames(n) = {}
    BY <1>2, <2>3, <2>4
  <2>6. ValidFlags(n.flags)
    BY <2>1, OfferedFlags
  <2> QED
    BY <1>1, <2>1, <2>2, <2>4, <2>5, <2>6, AppendWhole
<1>4. CASE g = "attachment"
  <2> DEFINE up == WithShortcut(own, "+upload", "prepare-upload", UploadFlags)
  <2>1. TreeOf(cs, g) = WithShortcut(up, "+download", "prepare-download", DownloadFlags)
    BY <1>4 DEF TreeOf, WithSugar, WithAttachments, WithBatch, UploadFlags, DownloadFlags
  <2>2. /\ UploadFlags \in Seq(Words) /\ DownloadFlags \in Seq(Words)
        /\ "+upload" \in Words /\ "+download" \in Words
    BY DEF UploadFlags, DownloadFlags, Words
  <2> HIDE DEF own
  <2>3. GroupWhole(up, g, cs) /\ \A k \in DOMAIN up : up[k].aliases = <<>>
    BY <1>1, <2>2, OfferedFlags, ShortcutWhole
  <2> HIDE DEF up
  <2> QED
    BY <2>1, <2>2, <2>3, OfferedFlags, ShortcutWhole
<1>5. CASE g = "workitem" /\ Named(own, "get")
  <2> DEFINE c == Child(own, "get")
             n == Node("+batch-get", <<"+get-batch">>, BatchFlags(c.flags), c.tool)
  <2>1. ~Named(own, "+batch-get")
    BY <1>1, CatalogAssumption DEF Named
  <2>2. TreeOf(cs, g) = Append(own, n)
    BY <1>5, <2>1 DEF TreeOf, WithSugar, WithAttachments, WithBatch
  <2>3. PICK i \in DOMAIN own : own[i].name = "get" /\ c = own[i]
    BY <1>5, ChildFacts
  <2>4. ValidFlags(BatchFlags(c.flags))
    BY <1>5, <2>3, OwnWhole
  <2> HIDE DEF own
  <2>5. c \in NodeType /\ \E j \in DOMAIN cs : cs[j].tool = c.tool /\ cs[j].resource = g
    BY <1>1, <2>3 DEF GroupWhole
  <2>6. BatchFlags(c.flags) \in Seq(Words)
    BY <2>5, BatchFlagsType DEF NodeType
  <2> HIDE DEF c
  <2>7. /\ n \in NodeType /\ n.name = "+batch-get" /\ n.aliases = <<"+get-batch">>
        /\ n.flags = BatchFlags(c.flags) /\ n.tool = c.tool
    BY <2>5, <2>6 DEF Node, NodeType, Words
  <2> HIDE DEF n
  <2>8. AllNames(n) = {"+batch-get", "+get-batch"} /\ n.name \notin Range(n.aliases)
    BY <2>7 DEF AllNames, Range
  <2>9. \A k \in DOMAIN own : AllNames(own[k]) \cap AllNames(n) = {}
    BY <1>1, <1>2, <2>8, CatalogAssumption
  <2>10. ValidFlags(n.flags) /\ \E j \in DOMAIN cs : cs[j].tool = n.tool /\ cs[j].resource = g
    BY <2>4, <2>5, <2>7
  <2> QED
    BY <1>1, <2>2, <2>7, <2>8, <2>9, <2>10, AppendWhole
<1>6. CASE g \notin {"user", "attachment", "workitem"} \/ (g = "workitem" /\ ~Named(own, "get"))
  <2>1. TreeOf(cs, g) = own
    BY <1>6 DEF TreeOf, WithSugar, WithAttachments, WithBatch
  <2> QED
    BY <1>1, <2>1
<1> QED
  BY <1>3, <1>4, <1>5, <1>6

-----------------------------------------------------------------------------
\* What a listed tool is mapped to.
LEMMA FlagsType == ASSUME NEW t \in Listed PROVE Flags(t.params) \in Seq(STRING)
<1> DEFINE Params == DOMAIN FlagName \cup {"url"}
           S == {i \in DOMAIN t.params : t.params[i] # "url"}
           kept == Selected(t.params, S)
<1>1. t.params \in Seq(Params) /\ S \in SUBSET DOMAIN t.params
  BY DEF Listed
<1>2. kept \in Seq(Params) /\ \A k \in DOMAIN kept : \E i \in S : kept[k] = t.params[i]
  BY <1>1, Selects
<1>3. Flags(t.params) = [k \in DOMAIN kept |-> FlagName[kept[k]]]
  BY DEF Flags
<1> HIDE DEF kept
<1>4. /\ DOMAIN kept = 1 .. Len(kept) /\ Len(kept) \in Nat
      /\ \A k \in DOMAIN kept : kept[k] \in Params
  BY <1>2
<1>5. \A k \in DOMAIN kept : kept[k] # "url"
  BY <1>2
<1>6. \A k \in DOMAIN kept : FlagName[kept[k]] \in STRING
  BY <1>4, <1>5, CatalogAssumption
<1> QED
  BY <1>3, <1>4, <1>6

LEMMA PathFacts ==
    ASSUME NEW t \in Listed
    PROVE  /\ PathOf(t)[1] \in STRING /\ PathOf(t)[2] \in STRING
           /\ CommandAt(t, PathOf(t)) \in ServerCommand
           /\ t.name \in DOMAIN Fallback =>
                PathOf(t) = Fallback[t.name] /\ "" \notin Range(PathOf(t))
           /\ t.name \notin DOMAIN Fallback => PathOf(t) = <<t.resource, t.method>>
<1>1. CASE t.name \in DOMAIN Fallback
  <2>1. PathOf(t) = Fallback[t.name] /\ PathOf(t) \in LowerKebab \X LowerKebab
    BY <1>1, CatalogAssumption DEF PathOf
  <2>2. PICK a \in LowerKebab, b \in LowerKebab : PathOf(t) = <<a, b>>
    BY <2>1
  <2>3. Range(<<a, b>>) = {a, b} /\ PathOf(t)[1] = a /\ PathOf(t)[2] = b
    BY <2>2 DEF Range
  <2>4. a \in STRING /\ b \in STRING /\ a # "" /\ b # ""
    BY CatalogAssumption
  <2>5. CommandAt(t, PathOf(t)) \in ServerCommand
    BY <2>3, <2>4, FlagsType DEF CommandAt, ServerCommand, Listed
  <2> QED
    BY <1>1, <2>1, <2>2, <2>3, <2>4, <2>5
<1>2. CASE t.name \notin DOMAIN Fallback
  <2>1. PathOf(t) = <<t.resource, t.method>>
    BY <1>2 DEF PathOf
  <2>2. PathOf(t)[1] = t.resource /\ PathOf(t)[2] = t.method
    BY <2>1
  <2>3. t.resource \in STRING /\ t.method \in STRING /\ t.name \in STRING
    BY DEF Listed
  <2>4. CommandAt(t, PathOf(t)) \in ServerCommand
    BY <2>2, <2>3, FlagsType DEF CommandAt, ServerCommand
  <2> QED
    BY <1>2, <2>1, <2>2, <2>3, <2>4
<1> QED
  BY <1>1, <1>2

IssueType == [tool : STRING, code : {"wire", "invalid_tool_definition", "reserved_path",
                                     "invalid_command", "duplicate_path"}]

CatalogTypeInv ==
    /\ listing \in Seq(Listed) /\ todo \in Seq(ServerCommand) /\ commands \in Seq(ServerCommand)
    /\ cpc \in {"listed", "mapped", "built"}
    /\ issues \in Seq(IssueType)

\* A tool is waiting, served or reported; the path of a command is waiting or taken.
ToolAnswered(t) ==
    \/ \E k \in DOMAIN todo : todo[k].tool = t.name
    \/ \E j \in DOMAIN commands : commands[j].tool = t.name
    \/ \E j \in DOMAIN issues : issues[j].tool = t.name

Taken(c) ==
    \/ \E k \in DOMAIN todo : todo[k] = c
    \/ \E j \in DOMAIN commands :
         commands[j].resource = c.resource /\ commands[j].method = c.method

\* A path that is free for a command stays so until the command is judged.
CatalogInv ==
    /\ CatalogTypeInv
    /\ cpc = "listed" => commands = <<>>
    /\ OwnInv(commands)
    /\ cpc # "listed" => \A i \in DOMAIN listing :
         /\ ToolAnswered(listing[i])
         /\ i \in Mapped(listing) /\ Alone(CommandAt(listing[i], PathOf(listing[i])))
              => Taken(CommandAt(listing[i], PathOf(listing[i])))
    /\ cpc = "built" => todo = <<>> /\ tree = Tree(commands)

\* The first one is taken, and the others stay.
LEMMA QueueFacts ==
    ASSUME todo \in Seq(ServerCommand), todo # <<>>
    PROVE  /\ Head(todo) \in ServerCommand /\ Tail(todo) \in Seq(ServerCommand)
           /\ \A k \in DOMAIN todo :
                todo[k] = Head(todo) \/ \E l \in DOMAIN Tail(todo) : Tail(todo)[l] = todo[k]
<1>1. /\ Len(todo) \in Nat \ {0} /\ DOMAIN todo = 1 .. Len(todo) /\ Head(todo) = todo[1]
      /\ Tail(todo) \in Seq(ServerCommand) /\ DOMAIN Tail(todo) = 1 .. Len(todo) - 1
      /\ \A l \in DOMAIN Tail(todo) : Tail(todo)[l] = todo[l + 1]
  OBVIOUS
<1>2. ASSUME NEW k \in DOMAIN todo, k # 1
      PROVE  k - 1 \in DOMAIN Tail(todo) /\ Tail(todo)[k - 1] = todo[k]
  BY <1>1, <1>2
<1> QED
  BY <1>1, <1>2

LEMMA CatalogInitial == CatalogInit => CatalogInv
<1> SUFFICES ASSUME CatalogInit PROVE CatalogInv
  OBVIOUS
<1>1. listing \in Seq(Listed)
  BY CatalogAssumption DEF CatalogInit
<1> QED
  BY <1>1 DEF CatalogInit, CatalogInv, CatalogTypeInv, OwnInv

LEMMA MapToolsStep == ASSUME CatalogInv, MapTools PROVE CatalogInv'
<1> DEFINE mapped == Selected(listing, Mapped(listing))
           bad == Selected(listing, Malformed(listing))
           C(t) == CommandAt(t, PathOf(t))
           Code(t) == IF t.issue THEN "wire" ELSE "invalid_tool_definition"
<1>1. listing \in Seq(Listed) /\ listing' = listing /\ commands' = <<>> /\ cpc' = "mapped"
  BY DEF CatalogInv, CatalogTypeInv, MapTools
<1>2. Mapped(listing) \in SUBSET DOMAIN listing /\ Malformed(listing) \in SUBSET DOMAIN listing
  BY DEF Mapped, Malformed
<1>3. /\ mapped \in Seq(Listed)
      /\ \A i \in Mapped(listing) : \E k \in DOMAIN mapped : mapped[k] = listing[i]
  BY <1>1, <1>2, Selects
<1>4. /\ bad \in Seq(Listed)
      /\ \A i \in Malformed(listing) : \E k \in DOMAIN bad : bad[k] = listing[i]
  BY <1>1, <1>2, Selects
<1>5. /\ todo' = [k \in DOMAIN mapped |-> C(mapped[k])]
      /\ issues' = [k \in DOMAIN bad |-> [tool |-> bad[k].name, code |-> Code(bad[k])]]
  BY DEF MapTools
<1>6. \A t \in Listed : C(t) \in ServerCommand /\ C(t).tool = t.name
  BY PathFacts DEF CommandAt
<1> HIDE DEF mapped, bad, C
<1>7. todo' \in Seq(ServerCommand) /\ \A k \in DOMAIN mapped : todo'[k] = C(mapped[k])
  BY <1>3, <1>5, <1>6
<1>8. CatalogTypeInv'
  <2>1. \A t \in Listed : [tool |-> t.name, code |-> Code(t)]
          \in IssueType
    BY DEF Listed, IssueType
  <2>2. DOMAIN bad = 1 .. Len(bad) /\ Len(bad) \in Nat /\ \A k \in DOMAIN bad : bad[k] \in Listed
    BY <1>4
  <2>3. issues' \in Seq(IssueType)
    BY <1>5, <2>1, <2>2
  <2> QED
    BY <1>1, <1>7, <2>3 DEF CatalogTypeInv
<1>9. ASSUME NEW i \in Mapped(listing) PROVE \E k \in DOMAIN todo' : todo'[k] = C(listing[i])
  BY <1>3, <1>5, <1>7, <1>9
<1>10. ASSUME NEW i \in DOMAIN listing PROVE ToolAnswered(listing[i])'
  <2>1. listing[i] \in Listed
    BY <1>1
  <2>2. CASE i \in Malformed(listing)
    BY <1>1, <1>4, <1>5, <2>2 DEF ToolAnswered
  <2>3. CASE i \in Mapped(listing)
    <3>1. PICK k \in DOMAIN todo' : todo'[k] = C(listing[i])
      BY <1>9, <2>3
    <3>2. todo'[k].tool = listing'[i].name
      BY <1>1, <1>6, <2>1, <3>1
    <3> QED
      BY <3>2 DEF ToolAnswered
  <2>4. CASE i \notin Malformed(listing) /\ i \notin Mapped(listing)
    <3>1. ~listing[i].issue /\ listing[i].name \notin DOMAIN Fallback
      BY <2>1, <2>4, PathFacts DEF Mapped, Malformed
    <3>2. PathOf(listing[i]) = <<listing[i].resource, listing[i].method>>
      BY <2>1, <3>1, PathFacts
    <3>3. Range(<<listing[i].resource, listing[i].method>>)
            = {listing[i].resource, listing[i].method}
      BY DEF Range
    <3> QED
      BY <2>4, <3>1, <3>2, <3>3 DEF Mapped, Malformed
  <2> QED
    BY <2>2, <2>3, <2>4
<1>11. ASSUME NEW i \in Mapped(listing) PROVE Taken(CommandAt(listing[i], PathOf(listing[i])))'
  BY <1>1, <1>9, <1>11 DEF Taken, C
<1>12. OwnInv(commands')
  BY <1>1 DEF OwnInv
<1> QED
  BY <1>1, <1>8, <1>10, <1>11, <1>12 DEF CatalogInv

\* A command that would do alone is turned down only for one that has its path.
LEMMA Judged ==
    ASSUME NEW c, NEW cs
    PROVE  /\ Verdict(c, cs) = "ok" =>
                /\ Alone(c)
                /\ \A i \in DOMAIN cs :
                     ~(cs[i].resource = c.resource /\ cs[i].method = c.method)
           /\ Alone(c) /\ Verdict(c, cs) # "ok" =>
                \E i \in DOMAIN cs : cs[i].resource = c.resource /\ cs[i].method = c.method
           /\ Verdict(c, cs) # "ok" =>
                Verdict(c, cs) \in {"reserved_path", "invalid_command", "duplicate_path"}
  BY DEF Alone, Verdict

LEMMA AcceptStep == ASSUME CatalogInv, Accept PROVE CatalogInv'
<1> DEFINE h == Head(todo)
<1>1. /\ listing \in Seq(Listed) /\ todo \in Seq(ServerCommand) /\ commands \in Seq(ServerCommand)
      /\ todo # <<>> /\ todo' = Tail(todo) /\ commands' = Append(commands, h)
      /\ Verdict(h, commands) = "ok" /\ cpc = "mapped"
      /\ UNCHANGED <<listing, issues, tree, cpc>>
  BY DEF CatalogInv, CatalogTypeInv, Accept
<1>2. /\ h \in ServerCommand /\ todo' \in Seq(ServerCommand)
      /\ \A k \in DOMAIN todo : todo[k] = h \/ \E l \in DOMAIN todo' : todo'[l] = todo[k]
  BY <1>1, QueueFacts
<1> HIDE DEF h
<1>3. /\ commands' \in Seq(ServerCommand)
      /\ \A j \in DOMAIN commands : j \in DOMAIN commands' /\ commands'[j] = commands[j]
      /\ \E j \in DOMAIN commands' : commands'[j] = h
      /\ \A j \in DOMAIN commands' : \/ (j \in DOMAIN commands /\ commands'[j] = commands[j])
                                     \/ (j = Len(commands) + 1 /\ commands'[j] = h)
  BY <1>1, <1>2
<1>4. /\ Alone(h)
      /\ \A i \in DOMAIN commands :
           ~(commands[i].resource = h.resource /\ commands[i].method = h.method)
  BY <1>1, Judged
<1>5. OwnInv(commands')
  BY <1>3, <1>4 DEF CatalogInv, OwnInv
<1>6. ASSUME NEW i \in DOMAIN listing PROVE ToolAnswered(listing[i])'
  <2>1. ToolAnswered(listing[i])
    BY <1>1 DEF CatalogInv
  <2>2. CASE \E k \in DOMAIN todo : todo[k].tool = listing[i].name
    <3>1. PICK k \in DOMAIN todo : todo[k].tool = listing[i].name
      BY <2>2
    <3>2. CASE todo[k] = h
      BY <1>1, <1>3, <3>1, <3>2 DEF ToolAnswered
    <3>3. CASE \E l \in DOMAIN todo' : todo'[l] = todo[k]
      BY <1>1, <3>1, <3>3 DEF ToolAnswered
    <3> QED
      BY <1>2, <3>2, <3>3
  <2>3. CASE \E j \in DOMAIN commands : commands[j].tool = listing[i].name
    BY <1>1, <1>3, <2>3 DEF ToolAnswered
  <2>4. CASE \E j \in DOMAIN issues : issues[j].tool = listing[i].name
    BY <1>1, <2>4 DEF ToolAnswered
  <2> QED
    BY <2>1, <2>2, <2>3, <2>4 DEF ToolAnswered
<1>7. ASSUME NEW c, Taken(c) PROVE Taken(c)'
  BY <1>2, <1>3, <1>7 DEF Taken
<1>8. CatalogTypeInv'
  BY <1>1, <1>2, <1>3 DEF CatalogInv, CatalogTypeInv
<1> QED
  BY <1>1, <1>5, <1>6, <1>7, <1>8 DEF CatalogInv

LEMMA RejectStep == ASSUME CatalogInv, Reject PROVE CatalogInv'
<1> DEFINE h == Head(todo)
           x == [tool |-> h.tool, code |-> Verdict(h, commands)]
<1>1. /\ listing \in Seq(Listed) /\ todo \in Seq(ServerCommand) /\ commands \in Seq(ServerCommand)
      /\ todo # <<>> /\ todo' = Tail(todo) /\ issues' = Append(issues, x)
      /\ Verdict(h, commands) # "ok" /\ cpc = "mapped"
      /\ UNCHANGED <<listing, commands, tree, cpc>>
  BY DEF CatalogInv, CatalogTypeInv, Reject
<1>2. /\ h \in ServerCommand /\ todo' \in Seq(ServerCommand)
      /\ \A k \in DOMAIN todo : todo[k] = h \/ \E l \in DOMAIN todo' : todo'[l] = todo[k]
  BY <1>1, QueueFacts
<1>3. x.tool = h.tool /\ x \in IssueType
  BY <1>1, <1>2, Judged DEF ServerCommand, IssueType
<1> HIDE DEF h, x
<1>4. /\ issues' \in Seq(IssueType)
      /\ \A j \in DOMAIN issues : j \in DOMAIN issues' /\ issues'[j] = issues[j]
      /\ \E j \in DOMAIN issues' : issues'[j] = x
  <2>1. issues \in Seq(IssueType)
    BY DEF CatalogInv, CatalogTypeInv
  <2>2. /\ issues' \in Seq(IssueType) /\ Len(issues) + 1 \in DOMAIN issues'
        /\ issues'[Len(issues) + 1] = x
        /\ \A j \in DOMAIN issues : j \in DOMAIN issues' /\ issues'[j] = issues[j]
    BY <1>1, <1>3, <2>1
  <2> QED
    BY <2>2
<1>5. ASSUME NEW i \in DOMAIN listing PROVE ToolAnswered(listing[i])'
  <2>1. ToolAnswered(listing[i])
    BY <1>1 DEF CatalogInv
  <2> QED
    BY <1>1, <1>2, <1>3, <1>4, <2>1 DEF ToolAnswered
<1>6. Alone(h) => \E j \in DOMAIN commands :
        commands[j].resource = h.resource /\ commands[j].method = h.method
  BY <1>1, Judged
<1>7. ASSUME NEW c, Taken(c), Alone(c) PROVE Taken(c)'
  BY <1>1, <1>2, <1>6, <1>7 DEF Taken
<1>8. CatalogTypeInv'
  BY <1>1, <1>2, <1>4 DEF CatalogInv, CatalogTypeInv
<1> QED
  BY <1>1, <1>5, <1>7, <1>8 DEF CatalogInv

LEMMA BuildTreeStep == ASSUME CatalogInv, BuildTree PROVE CatalogInv'
<1>1. /\ cpc = "mapped" /\ todo = <<>> /\ cpc' = "built" /\ tree' = Tree(commands)
      /\ UNCHANGED <<listing, todo, commands, issues>>
  BY DEF BuildTree
<1>2. CatalogTypeInv'
  BY <1>1 DEF CatalogInv, CatalogTypeInv
<1>3. ASSUME NEW i \in DOMAIN listing
      PROVE  /\ ToolAnswered(listing[i])'
             /\ i \in Mapped(listing) /\ Alone(CommandAt(listing[i], PathOf(listing[i])))
                  => Taken(CommandAt(listing[i], PathOf(listing[i])))'
  <2>1. /\ ToolAnswered(listing[i])
        /\ i \in Mapped(listing) /\ Alone(CommandAt(listing[i], PathOf(listing[i])))
             => Taken(CommandAt(listing[i], PathOf(listing[i])))
    BY <1>1 DEF CatalogInv
  <2> QED
    BY <1>1, <2>1 DEF ToolAnswered, Taken
<1> QED
  BY <1>1, <1>2, <1>3 DEF CatalogInv

LEMMA CatalogInvStep == CatalogInv /\ [CatalogStep]_catalogVars => CatalogInv'
<1>1. ASSUME CatalogInv, UNCHANGED catalogVars PROVE CatalogInv'
  BY <1>1 DEF catalogVars, CatalogInv, CatalogTypeInv, ToolAnswered, Taken
<1> QED
  BY <1>1, MapToolsStep, AcceptStep, RejectStep, BuildTreeStep DEF CatalogStep

LEMMA ServedFacts ==
    ASSUME NEW j \in DOMAIN commands
    PROVE  \E s \in Served : /\ s[1] = commands[j].tool
                             /\ s[2] = <<commands[j].resource, commands[j].method>>
                             /\ s[2][1] = commands[j].resource
<1> DEFINE path == <<commands[j].resource, commands[j].method>>
<1>1. <<commands[j].tool, path>> \in Served
  BY DEF Served
<1>2. path[1] = commands[j].resource
  OBVIOUS
<1> HIDE DEF path
<1>3. <<commands[j].tool, path>>[1] = commands[j].tool /\ <<commands[j].tool, path>>[2] = path
  OBVIOUS
<1> QED
  BY <1>1, <1>2, <1>3 DEF path

\* What is kept of a list is a tree that holds together.
LEMMA BuiltWell == CatalogInv => TreeHolds
<1> SUFFICES ASSUME CatalogInv, cpc = "built" PROVE /\ Composes(tree)
        /\ RootsLost \subseteq {"telemetry"}
        /\ \A g \in DOMAIN tree : \A n \in Range(tree[g]) :
             n.name = "me" \/ \E s \in Served : s[1] = n.tool /\ s[2][1] = g
  BY DEF TreeHolds
<1>1. tree = Tree(commands) /\ commands \in Seq(ServerCommand) /\ OwnInv(commands)
  BY DEF CatalogInv, CatalogTypeInv
<1>2. /\ DOMAIN tree = {commands[i].resource : i \in DOMAIN commands}
      /\ \A g \in DOMAIN tree : tree[g] = TreeOf(commands, g)
  BY <1>1, TreeGroups
<1>3. \A g \in DOMAIN tree : GroupWhole(tree[g], g, commands)
  BY <1>1, <1>2, TreeOfWhole
<1>4. DOMAIN tree \cap ReservedResources = {}
  <2>1. \A i \in DOMAIN commands : commands[i].resource \notin ReservedResources
    BY <1>1, AloneFacts DEF OwnInv
  <2> QED
    BY <1>2, <2>1
<1>5. Composes(tree)
  BY <1>3, <1>4 DEF Composes, Valid, GroupWhole, ReservedResources
<1>6. RootsLost \subseteq {"telemetry"}
  BY <1>4 DEF RootsLost, Answers, StaticRoots, LocalRoots, ReservedResources
<1>7. ASSUME NEW g \in DOMAIN tree, NEW n \in Range(tree[g])
      PROVE  n.name = "me" \/ \E s \in Served : s[1] = n.tool /\ s[2][1] = g
  <2>1. PICK i \in DOMAIN tree[g] : n = tree[g][i]
    BY DEF Range
  <2>2. \/ n.name = "me"
        \/ \E j \in DOMAIN commands : commands[j].tool = n.tool /\ commands[j].resource = g
    BY <1>3, <2>1 DEF GroupWhole
  <2> QED
    BY <2>2, ServedFacts
<1> QED
  BY <1>5, <1>6, <1>7

\* Every tool of a list is accounted for.
LEMMA BuiltComplete == CatalogInv => EveryToolAnswered
<1> SUFFICES ASSUME CatalogInv, cpc = "built", NEW i \in DOMAIN listing
             PROVE  LET t == listing[i]
                        path == <<t.resource, t.method>>
                    IN /\ \/ \E s \in Served : s[1] = t.name
                          \/ \E j \in DOMAIN issues : issues[j].tool = t.name
                       /\ IF t.name \in DOMAIN Fallback
                          THEN Fits(t, Fallback[t.name]) => <<t.name, Fallback[t.name]>> \in Served
                          ELSE Fits(t, path) => \E s \in Served : s[2] = path
  BY DEF EveryToolAnswered
<1> DEFINE t == listing[i]
           c == CommandAt(t, PathOf(t))
<1>1. t \in Listed /\ todo = <<>> /\ commands \in Seq(ServerCommand) /\ OwnInv(commands)
  BY DEF CatalogInv, CatalogTypeInv
<1>2. ToolAnswered(t) /\ (i \in Mapped(listing) /\ Alone(c) => Taken(c))
  BY DEF CatalogInv
<1> HIDE DEF t
<1>3. \/ \E s \in Served : s[1] = t.name
      \/ \E j \in DOMAIN issues : issues[j].tool = t.name
  BY <1>1, <1>2, ServedFacts DEF ToolAnswered
<1>4. ASSUME Fits(t, PathOf(t))
      PROVE  \E j \in DOMAIN commands :
               commands[j].resource = PathOf(t)[1] /\ commands[j].method = PathOf(t)[2]
  <2>1. i \in Mapped(listing) /\ Alone(c)
    BY <1>4 DEF Fits, Mapped, Alone, t
  <2>2. Taken(c)
    BY <1>2, <2>1
  <2> QED
    BY <1>1, <2>2 DEF Taken, CommandAt
<1>5. ASSUME t.name \in DOMAIN Fallback, Fits(t, Fallback[t.name])
      PROVE  <<t.name, Fallback[t.name]>> \in Served
  <2>1. PathOf(t) = Fallback[t.name] /\ Fallback[t.name] \in LowerKebab \X LowerKebab
    BY <1>5, CatalogAssumption DEF PathOf
  <2>2. PICK j \in DOMAIN commands :
          commands[j].resource = Fallback[t.name][1] /\ commands[j].method = Fallback[t.name][2]
    BY <1>4, <1>5, <2>1
  <2>3. Fallback[t.name] = <<commands[j].resource, commands[j].method>>
    BY <2>1, <2>2
  <2>4. ~OwnedByAnother(commands[j])
    BY <1>1, AloneFacts DEF OwnInv
  <2>5. commands[j].tool = t.name
    BY <1>5, <2>3, <2>4 DEF OwnedByAnother
  <2> QED
    BY <2>3, <2>5 DEF Served
<1>6. ASSUME t.name \notin DOMAIN Fallback, Fits(t, <<t.resource, t.method>>)
      PROVE  \E s \in Served : s[2] = <<t.resource, t.method>>
  <2>1. PathOf(t) = <<t.resource, t.method>>
    BY <1>6 DEF PathOf
  <2>2. PICK j \in DOMAIN commands :
          commands[j].resource = t.resource /\ commands[j].method = t.method
    BY <1>4, <1>6, <2>1
  <2> QED
    BY <2>2, ServedFacts
<1> QED
  BY <1>3, <1>5, <1>6 DEF t

\* Whatever a server lists, the tree of the commands holds together beside the CLI's own.
THEOREM CatalogTree == CatalogSpec => []TreeHolds
  BY CatalogInitial, CatalogInvStep, BuiltWell, PTL DEF CatalogSpec

\* Whatever a server lists, each tool is served or reported, and the ones the CLI knows
\* are served at their own paths.
THEOREM CatalogAnswers == CatalogSpec => []EveryToolAnswered
  BY CatalogInitial, CatalogInvStep, BuiltComplete, PTL DEF CatalogSpec

-----------------------------------------------------------------------------
(***************************************************************************)
(* The executors inside a command.                                         *)
(***************************************************************************)

\* The steps that touch no executor.
Aside ==
    \/ InstallPlugins \/ FactoryFails \/ BuildCommands \/ CommandsBuilt \/ StartupHooks
    \/ RouteFails \/ Route \/ RunLocal \/ Validate \/ Session
    \/ Preview \/ Executed \/ Output \/ RenderEnvelope
    \/ ShutdownHooks \/ RenderExplicit \/ Exit \/ Panic

LEMMA StepsAside == Aside => UNCHANGED executorVars
<1> SUFFICES ASSUME Aside PROVE UNCHANGED executorVars
  OBVIOUS
<1>1. CASE InstallPlugins \/ FactoryFails \/ BuildCommands \/ CommandsBuilt \/ StartupHooks
  BY <1>1 DEF InstallPlugins, FactoryFails, BuildCommands, CommandsBuilt, StartupHooks, Fails, Proceeds
<1>2. CASE RouteFails \/ Route \/ RunLocal \/ Validate \/ Session
  BY <1>2 DEF RouteFails, Route, RunLocal, Validate, Session, Fails, Proceeds
<1>3. CASE Preview \/ Executed \/ Output \/ RenderEnvelope
  BY <1>3 DEF Preview, Executed, Output, RenderEnvelope, Fails, Proceeds
<1>4. CASE ShutdownHooks \/ RenderExplicit \/ Exit \/ Panic
  BY <1>4 DEF ShutdownHooks, RenderExplicit, Exit, Panic, Fails, Proceeds
<1> QED
  BY <1>1, <1>2, <1>3, <1>4 DEF Aside

LEMMA StepsOf ==
    [CommandNext]_commandVars =>
        \/ UNCHANGED executorVars
        \/ RunBatch \/ RunTool \/ RunUpload \/ RunDownload \/ Surroundings
  BY StepsAside DEF CommandNext, Program, Aside, commandVars, executorVars

LEMMA ToolStep == [CommandNext]_commandVars => [Next]_vars
  BY StepsOf DEF executorVars, RunBatch, RunTool, RunUpload, RunDownload, Surroundings,
                 LateRegistration, Interrupt, FileChangesElsewhere, UploadAgain,
                 OtherDownload, KilledHere, WorkerPanics

LEMMA ToolInit == CommandInit => Init
<1>1. (CHOOSE c \in Commands : TRUE) \in Commands
  BY CommandAssumption
<1> QED
  BY <1>1 DEF CommandInit

LEMMA LookupStep == [CommandNext]_commandVars => [BatchStep \/ Cancel]_batchVars
  BY StepsOf DEF executorVars, RunBatch, RunTool, RunUpload, RunDownload, Surroundings,
                 LateRegistration, Interrupt, FileChangesElsewhere, UploadAgain,
                 OtherDownload, KilledHere, WorkerPanics

LEMMA TransferStep ==
    [CommandNext]_commandVars => [UploadStep \/ RunAgain \/ FileChanges]_uploadVars
  BY StepsOf DEF executorVars, RunBatch, RunTool, RunUpload, RunDownload, Surroundings,
                 LateRegistration, Interrupt, FileChangesElsewhere, UploadAgain,
                 OtherDownload, KilledHere, WorkerPanics

LEMMA FetchStep ==
    [CommandNext]_commandVars =>
        [\E d \in Downloads : DownloadStep(d) \/ Killed(d)]_downloadVars
  BY StepsOf, CommandAssumption
     DEF executorVars, RunBatch, RunTool, RunUpload, RunDownload, Surroundings,
         LateRegistration, Interrupt, FileChangesElsewhere, UploadAgain,
                 OtherDownload, KilledHere, WorkerPanics

LEMMA InstallStep ==
    [CommandNext]_commandVars => [PluginStep \/ RegisterStep]_pluginVars
<1> SUFFICES ASSUME CommandNext, ~InstallPlugins, ~LateRegistration
             PROVE  UNCHANGED pluginVars
  BY DEF commandVars, factoryVars, CommandNext, InstallPlugins, LateRegistration
<1>1. CASE FactoryFails \/ BuildCommands \/ CommandsBuilt \/ StartupHooks
  BY <1>1 DEF FactoryFails, BuildCommands, CommandsBuilt, StartupHooks, Fails, Proceeds,
              factoryVars
<1>2. CASE RouteFails \/ Route \/ RunLocal \/ Validate \/ Session
  BY <1>2 DEF RouteFails, Route, RunLocal, Validate, Session, Fails, Proceeds, factoryVars
<1>3. CASE RunBatch \/ RunTool \/ RunUpload \/ RunDownload
  BY <1>3 DEF RunBatch, RunTool, RunUpload, RunDownload, factoryVars
<1>4. CASE Preview \/ Executed \/ Output \/ RenderEnvelope
  BY <1>4 DEF Preview, Executed, Output, RenderEnvelope, Fails, Proceeds, factoryVars
<1>5. CASE ShutdownHooks \/ RenderExplicit \/ Exit \/ Panic
  BY <1>5 DEF ShutdownHooks, RenderExplicit, Exit, Panic, Fails, Proceeds, factoryVars
<1>6. CASE Surroundings
  BY <1>6 DEF Surroundings, Interrupt, FileChangesElsewhere, UploadAgain, OtherDownload,
              KilledHere, WorkerPanics, factoryVars
<1> QED
  BY <1>1, <1>2, <1>3, <1>4, <1>5, <1>6 DEF CommandNext, Program

LEMMA ListingStep == [CommandNext]_commandVars => [CatalogStep]_catalogVars
<1> SUFFICES ASSUME CommandNext, ~BuildCommands PROVE UNCHANGED catalogVars
  BY DEF commandVars, factoryVars, CommandNext, BuildCommands
<1>1. CASE InstallPlugins \/ FactoryFails \/ CommandsBuilt \/ StartupHooks
  BY <1>1 DEF InstallPlugins, FactoryFails, CommandsBuilt, StartupHooks, Fails, Proceeds,
              factoryVars
<1>2. CASE RouteFails \/ Route \/ RunLocal \/ Validate \/ Session
  BY <1>2 DEF RouteFails, Route, RunLocal, Validate, Session, Fails, Proceeds, factoryVars
<1>3. CASE RunBatch \/ RunTool \/ RunUpload \/ RunDownload
  BY <1>3 DEF RunBatch, RunTool, RunUpload, RunDownload, factoryVars
<1>4. CASE Preview \/ Executed \/ Output \/ RenderEnvelope
  BY <1>4 DEF Preview, Executed, Output, RenderEnvelope, Fails, Proceeds, factoryVars
<1>5. CASE ShutdownHooks \/ RenderExplicit \/ Exit \/ Panic
  BY <1>5 DEF ShutdownHooks, RenderExplicit, Exit, Panic, Fails, Proceeds, factoryVars
<1>6. CASE LateRegistration \/ Surroundings
  BY <1>6 DEF LateRegistration, Surroundings, Interrupt, FileChangesElsewhere, UploadAgain,
              OtherDownload, KilledHere, WorkerPanics, factoryVars
<1> QED
  BY <1>1, <1>2, <1>3, <1>4, <1>5, <1>6 DEF CommandNext, Program

-----------------------------------------------------------------------------
\* The plugins of a command are installed as PluginInstall does.
THEOREM RunsInstall == CommandSpec => PluginSpec
<1>1. CommandInit => PluginInit
  BY DEF CommandInit
<1> QED
  BY <1>1, InstallStep, PTL DEF CommandSpec, PluginSpec

\* The commands of the CLI are put together as in Catalog, whatever becomes of the start.
THEOREM RunsCatalog == CommandSpec => CatalogSpec
<1>1. CommandInit => CatalogInit
  BY DEF CommandInit
<1> QED
  BY <1>1, ListingStep, PTL DEF CommandSpec, CatalogSpec

\* The tool call of a command, paginated or not, is the one of Pagination.
THEOREM RunsTool == CommandSpec => Spec
  BY ToolInit, ToolStep, PTL DEF CommandSpec, Spec

\* The batch of a command is the one of Batch, whenever it is interrupted.
THEOREM RunsBatch == CommandSpec => BatchSpec
<1>1. CommandInit => BatchInit
  BY DEF CommandInit
<1> QED
  BY <1>1, LookupStep, PTL DEF CommandSpec, BatchSpec

\* The upload of a command, and of the ones that repeat it, is the one of Upload.
THEOREM RunsUpload == CommandSpec => UploadSpec
<1>1. CommandInit => UploadInit
  BY DEF CommandInit
<1> QED
  BY <1>1, TransferStep, PTL DEF CommandSpec, UploadSpec

\* The download of a command is one of those of Download.
THEOREM RunsDownload == CommandSpec => DownloadSpec
<1>1. CommandInit => DownloadInit
  BY DEF CommandInit
<1> QED
  BY <1>1, FetchStep, PTL DEF CommandSpec, DownloadSpec

\* Whatever the command, its hooks and the server do, a command asks for a bounded
\* number of pages, and the server runs no tool twice.
THEOREM CommandBounded == CommandSpec => []RequestsBounded
  BY RunsTool, PagesBounded

\* Whatever plugins a build has, a command runs with whole ones.
THEOREM CommandInstalled == CommandSpec => []InstalledWhole
  BY RunsInstall, Installed

\* No listing of a server takes a start down or one of the CLI's own roots but "telemetry",
\* and what the CLI adds to a group calls a tool that is served there.
THEOREM CommandTree == CommandSpec => []TreeHolds
  BY RunsCatalog, CatalogTree

\* A command runs with every tool that was listed, or with an issue that says why not.
THEOREM CommandTools == CommandSpec => []EveryToolAnswered
  BY RunsCatalog, CatalogAnswers

\* What the result of a command says of its own completeness is true.
THEOREM CommandMarked == CommandSpec => []MarksAreTrue
  BY RunsTool, Marked

\* A command that follows the pages of a tool has them all, in their order.
THEOREM CommandPages == CommandSpec => []PagesInOrder
  BY RunsTool, InOrderOfPages

\* Every item of a batch's response is what the server answered for its own number,
\* whenever the batch is interrupted and whatever else goes on in the command.
THEOREM CommandBatch == CommandSpec => [](BatchIsTrue /\ EachNumberOnce)
<1>1. CommandSpec => []BatchIsTrue
  BY RunsBatch, BatchTrue
<1>2. CommandSpec => []EachNumberOnce
  BY RunsBatch, NumbersOnce
<1> QED
  BY <1>1, <1>2, PTL

\* A command that reports an upload has stored the whole file, in any of its runs.
THEOREM CommandUpload == CommandSpec => []UploadIsWhole
  BY RunsUpload, UploadWhole

\* A command never leaves an incomplete file under the name that was asked for, killed or
\* not, unless another download to the same path has overlapped with it.
THEOREM CommandDownload == CommandSpec => DownloadIsWhole
  BY RunsDownload, DownloadWhole
-----------------------------------------------------------------------------
(* How a command ends. *)

\* The stages in which there is no error, the ones on the way out, and the end of an
\* executor that a result may be printed for.
Early == {"factory", "startup", "route", "validate", "session", "executor", "output"}
Leaving == {"shutdown", "explicit", "main"}
HasResult == Succeeded \/ NotBegun

\* An error arises once, and is marked as rendered exactly when it has been told.
NoErrorYet == stage \in Early => err = "none" /\ rendered = FALSE /\ told = 0
ResultIsThere == stage = "output" => HasResult
NotToldYet ==
    stage = "failed" =>
        err \in {"client", "server", "cli", "plain", "canceled"} /\ rendered = FALSE /\ told = 0
ToldWhenMarked ==
    stage \in Leaving =>
        /\ err \in {"none", "client", "server", "cli", "plain", "canceled", "status", "success"}
        /\ rendered \in BOOLEAN
        /\ rendered => told = 1 /\ err \notin {"none", "success", "status"}
        /\ ~rendered => told = 0
        /\ err = "none" => printed /\ (kind # "local" => HasResult)
RunInv ==
    /\ stage \in Early \cup Leaving \cup {"failed", "exit", "killed"}
    /\ NoErrorYet /\ ResultIsThere /\ NotToldYet /\ ToldWhenMarked /\ ToldOnce

LEMMA ResultStays == UNCHANGED <<kind, executorVars>> => (HasResult <=> HasResult')
  BY DEF HasResult, Succeeded, NotBegun, executorVars, batchVars, vars, uploadVars, downloadVars

\* Wherever a command goes on within the stages of one kind, nothing else changes.
LEMMA GoesOn ==
  ASSUME RunInv, NEW from, NEW to, Proceeds(from, to),
         from \in Early, to \in Early, to = "output" => HasResult
  PROVE  RunInv'
<1>1. stage = from /\ stage' = to /\ UNCHANGED <<kind, executorVars>>
  BY DEF Proceeds, Goes
<1>2. err' = "none" /\ rendered' = FALSE /\ told' = 0
  BY <1>1 DEF RunInv, NoErrorYet, Proceeds
<1> QED
  BY <1>1, <1>2, ResultStays
     DEF RunInv, NoErrorYet, ResultIsThere, NotToldYet, ToldWhenMarked, ToldOnce, Early, Leaving

\* A command that fails in the pipeline has its error told by the renderer, and one
\* that fails elsewhere later.
LEMMA FailsToo ==
  ASSUME RunInv, NEW from, NEW to, NEW errors, Fails(from, errors, to), from \in Early,
         \/ to = "failed" /\ errors \subseteq {"client", "server", "cli", "plain", "canceled"}
         \/ /\ to \in {"shutdown", "main"}
            /\ errors \subseteq {"client", "server", "cli", "plain", "canceled", "status", "success"}
  PROVE  RunInv'
<1>1. stage = from /\ stage' = to /\ err' \in errors
  BY DEF Fails, Goes
<1>2. rendered' = FALSE /\ told' = 0
  BY <1>1 DEF RunInv, NoErrorYet, Fails
<1>3. CASE to = "failed"
  BY <1>1, <1>2, <1>3
     DEF RunInv, NoErrorYet, ResultIsThere, NotToldYet, ToldWhenMarked, ToldOnce, Early, Leaving
<1>4. CASE to \in {"shutdown", "main"}
  <2>1. err' \in {"client", "server", "cli", "plain", "canceled", "status", "success"}
    BY <1>1, <1>4
  <2> QED
    BY <1>1, <1>2, <1>4, <2>1
       DEF RunInv, NoErrorYet, ResultIsThere, NotToldYet, ToldWhenMarked, ToldOnce, Early, Leaving
<1> QED
  BY <1>3, <1>4

\* A step within a stage that has no result yet keeps all of it.
LEMMA StaysThere ==
  ASSUME RunInv, UNCHANGED runVars, stage \notin {"output", "exit"} \cup Leaving
  PROVE  RunInv'
  BY DEF RunInv, NoErrorYet, ResultIsThere, NotToldYet, ToldWhenMarked, ToldOnce, Early, Leaving,
         runVars

\* So does a step that changes nothing the result depends on.
LEMMA KeepsResult ==
  ASSUME RunInv, UNCHANGED <<kind, runVars, executorVars>>
  PROVE  RunInv'
<1>1. HasResult <=> HasResult'
  BY ResultStays
<1>2. (Succeeded \/ NotBegun) <=> (Succeeded \/ NotBegun)'
  BY <1>1 DEF HasResult
<1> QED
  BY <1>1, <1>2 DEF RunInv, NoErrorYet, ResultIsThere, NotToldYet, ToldWhenMarked, ToldOnce, runVars

LEMMA EntryTold ==
  ASSUME RunInv,
         \/ InstallPlugins \/ FactoryFails \/ BuildCommands \/ CommandsBuilt
         \/ StartupHooks \/ RouteFails \/ Route \/ RunLocal \/ Validate \/ Session
  PROVE  RunInv'
<1>1. CASE InstallPlugins \/ BuildCommands
  <2>1. stage = "factory" /\ UNCHANGED runVars
    BY <1>1 DEF InstallPlugins, BuildCommands
  <2> QED
    BY <2>1, StaysThere DEF Leaving
<1>2. CASE FactoryFails
  BY <1>2, FailsToo DEF FactoryFails, Early
<1>3. CASE CommandsBuilt
  <2>1. Proceeds("factory", "startup") \/ Fails("factory", {"plain"}, "main")
    BY <1>3 DEF CommandsBuilt
  <2> QED
    BY <2>1, FailsToo, GoesOn DEF Early
<1>4. CASE StartupHooks \/ RouteFails
  BY <1>4, GoesOn, FailsToo DEF StartupHooks, RouteFails, Early
<1>5. CASE Route
  BY <1>5, GoesOn DEF Route, Early
<1>6. CASE RunLocal
  <2>1. CASE Fails("route", {"client", "server", "plain", "canceled", "status", "success"},
                   "shutdown")
    BY <2>1, FailsToo DEF Early
  <2>2. CASE /\ Goes("route", "shutdown") /\ printed' = TRUE
             /\ UNCHANGED <<kind, err, rendered, told, code, factoryVars, executorVars>>
    <3>1. kind' = "local"
      BY <1>6, <2>2 DEF RunLocal
    <3>2. stage' = "shutdown" /\ err' = "none" /\ rendered' = FALSE /\ told' = 0 /\ printed'
      BY <2>2 DEF RunInv, NoErrorYet, Goes, Early
    <3> QED
      BY <3>1, <3>2
         DEF RunInv, NoErrorYet, ResultIsThere, NotToldYet, ToldWhenMarked, ToldOnce, Early, Leaving
  <2> QED
    BY <1>6, <2>1, <2>2 DEF RunLocal
<1>7. CASE Validate
  BY <1>7, GoesOn, FailsToo DEF Validate, Early
<1>8. CASE Session
  BY <1>8, GoesOn, FailsToo DEF Session, Early
<1> QED
  BY <1>1, <1>2, <1>3, <1>4, <1>5, <1>6, <1>7, <1>8

LEMMA ExecutorTold ==
  ASSUME RunInv,
         \/ RunBatch \/ RunTool \/ RunUpload \/ RunDownload \/ Preview
         \/ Executed \/ Output \/ RenderEnvelope
  PROVE  RunInv'
<1>1. CASE RunBatch \/ RunTool \/ RunUpload \/ RunDownload
  <2>1. stage = "executor" /\ UNCHANGED runVars
    BY <1>1 DEF RunBatch, RunTool, RunUpload, RunDownload
  <2> QED
    BY <2>1, StaysThere DEF Leaving
<1>2. CASE Preview
  BY <1>2, GoesOn DEF Preview, HasResult, Early
<1>3. CASE Executed
  <2>1. CASE Succeeded /\ Proceeds("executor", "output")
    BY <2>1, GoesOn DEF HasResult, Early
  <2>2. CASE Fails("executor", Failure, "failed")
    <3>1. Failure \subseteq {"client", "server", "cli", "plain", "canceled"}
      BY DEF Failure
    <3> QED
      BY <2>2, <3>1, FailsToo DEF Early
  <2> QED
    BY <1>3, <2>1, <2>2 DEF Executed
<1>4. CASE Output
  <2>1. CASE Fails("output", {"cli", "plain"}, "failed")
    BY <2>1, FailsToo DEF Early
  <2>2. CASE /\ Goes("output", "shutdown") /\ printed' = TRUE
             /\ UNCHANGED <<kind, err, rendered, told, code, factoryVars, executorVars>>
    <3>1. HasResult'
      BY <2>2, ResultStays DEF RunInv, ResultIsThere, Goes
    <3>2. stage' = "shutdown" /\ err' = "none" /\ rendered' = FALSE /\ told' = 0 /\ printed'
      BY <2>2 DEF RunInv, NoErrorYet, Goes, Early
    <3> QED
      BY <3>1, <3>2
         DEF RunInv, NoErrorYet, ResultIsThere, NotToldYet, ToldWhenMarked, ToldOnce, Early, Leaving
  <2> QED
    BY <1>4, <2>1, <2>2 DEF Output
<1>5. CASE RenderEnvelope
  <2>1. /\ stage' = "shutdown"
        /\ err' \in {"client", "server", "cli", "plain", "canceled"}
        /\ rendered = FALSE /\ told = 0
    BY <1>5 DEF RenderEnvelope, Goes, RunInv, NotToldYet
  <2>2. (rendered' = TRUE /\ told' = 1) \/ (rendered' = FALSE /\ told' = 0)
    BY <1>5, <2>1 DEF RenderEnvelope, Rendering
  <2> QED
    BY <2>1, <2>2
       DEF RunInv, NoErrorYet, ResultIsThere, NotToldYet, ToldWhenMarked, ToldOnce, Early, Leaving
<1> QED
  BY <1>1, <1>2, <1>3, <1>4, <1>5

LEMMA EndTold ==
  ASSUME RunInv, ShutdownHooks \/ RenderExplicit \/ Exit \/ Panic
  PROVE  RunInv'
<1>1. CASE ShutdownHooks
  <2>1. CASE Proceeds("shutdown", "explicit")
    <3>1. stage = "shutdown" /\ stage' = "explicit"
          /\ UNCHANGED <<kind, err, rendered, told, printed, executorVars>>
      BY <2>1 DEF Proceeds, Goes
    <3> QED
      BY <3>1, ResultStays
         DEF RunInv, NoErrorYet, ResultIsThere, NotToldYet, ToldWhenMarked, ToldOnce, Early, Leaving
  <2>2. CASE err \in {"none", "success"} /\ Fails("shutdown", {"client"}, "explicit")
    <3>1. stage = "shutdown" /\ stage' = "explicit" /\ err' = "client"
          /\ UNCHANGED <<rendered, told>>
      BY <2>2 DEF Fails, Goes
    <3>2. ~rendered /\ told = 0 /\ rendered \in BOOLEAN
      BY <2>2, <3>1 DEF RunInv, ToldWhenMarked, Leaving
    <3> QED
      BY <3>1, <3>2
         DEF RunInv, NoErrorYet, ResultIsThere, NotToldYet, ToldWhenMarked, ToldOnce, Early, Leaving
  <2> QED
    BY <1>1, <2>1, <2>2 DEF ShutdownHooks
<1>2. CASE RenderExplicit
  <2>1. stage = "explicit" /\ stage' = "main" /\ UNCHANGED <<kind, err, printed, executorVars>>
    BY <1>2 DEF RenderExplicit, Goes
  <2>2. CASE HasPayload /\ ~rendered
    <3>1. err' \in {"client", "server", "cli"} /\ told = 0
      BY <2>1, <2>2 DEF HasPayload, RunInv, ToldWhenMarked, Leaving
    <3>2. (rendered' /\ told' = 1) \/ (rendered' = FALSE /\ told' = 0)
      BY <1>2, <2>2, <3>1 DEF RenderExplicit, Rendering
    <3>3. rendered' \in BOOLEAN
      BY <1>2, <2>1, <2>2 DEF RenderExplicit, Rendering, RunInv, ToldWhenMarked, Leaving
    <3> QED
      BY <2>1, <3>1, <3>2, <3>3
         DEF RunInv, NoErrorYet, ResultIsThere, NotToldYet, ToldWhenMarked, ToldOnce, Early, Leaving
  <2>3. CASE ~(HasPayload /\ ~rendered)
    <3>1. UNCHANGED <<rendered, told>>
      BY <1>2, <2>3 DEF RenderExplicit
    <3> QED
      BY <2>1, <3>1, ResultStays
         DEF RunInv, NoErrorYet, ResultIsThere, NotToldYet, ToldWhenMarked, ToldOnce, Early, Leaving
  <2> QED
    BY <2>2, <2>3
<1>3. CASE Exit
  <2>1. stage = "main" /\ stage' = "exit" /\ TellError
        /\ UNCHANGED <<kind, err, rendered, printed, executorVars>>
    BY <1>3 DEF Exit, Goes
  <2>2. /\ err \in {"none", "client", "server", "cli", "plain", "canceled", "status", "success"}
        /\ rendered => told = 1 /\ err \notin {"none", "success", "status"}
        /\ ~rendered => told = 0
        /\ err = "none" => printed /\ (kind # "local" => HasResult)
    BY <2>1 DEF RunInv, ToldWhenMarked, Leaving
  <2>3. err' = "none" => printed' /\ (kind' # "local" => (Succeeded \/ NotBegun)')
    BY <2>1, <2>2, ResultStays DEF HasResult
  <2>4. code' = 0 <=> err \in {"none", "success"}
    BY <2>1, <2>2 DEF TellError, ExitCodes, HasPayload
  <2>5. /\ err \in {"none", "success", "status"} => told' = 0
        /\ err = "canceled" => told' <= 1
        /\ err \in Errors \ {"success", "status", "canceled", "panic"} => told' = 1
        /\ err # "panic"
    BY <2>1, <2>2 DEF TellError, Errors
  <2>6. ToldOnce'
    BY <2>1, <2>3, <2>4, <2>5 DEF ToldOnce
  <2> QED
    BY <2>1, <2>6
       DEF RunInv, NoErrorYet, ResultIsThere, NotToldYet, ToldWhenMarked, Early, Leaving
<1>4. CASE Panic
  <2>1. /\ stage \in Early \cup Leaving \cup {"failed"} /\ stage' = "exit"
        /\ err' = "panic" /\ told' = told + 1 /\ code' = 1 /\ rendered' = rendered
    BY <1>4 DEF Panic, RunInv, Early
  <2>2. told' = IF rendered THEN 2 ELSE 1
    <3>1. CASE stage \in Early \cup {"failed"}
      BY <2>1, <3>1 DEF RunInv, NoErrorYet, NotToldYet
    <3>2. CASE stage \in Leaving
      BY <2>1, <3>2 DEF RunInv, ToldWhenMarked
    <3> QED
      BY <2>1, <3>1, <3>2
  <2>3. ToldOnce'
    BY <2>1, <2>2 DEF ToldOnce, Errors
  <2> QED
    BY <2>1, <2>3
       DEF RunInv, NoErrorYet, ResultIsThere, NotToldYet, ToldWhenMarked, Early, Leaving
<1> QED
  BY <1>1, <1>2, <1>3, <1>4

LEMMA SurroundingsTold ==
  ASSUME RunInv, Surroundings
  PROVE  RunInv'
<1>1. CASE LateRegistration
  BY <1>1, KeepsResult DEF LateRegistration
<1>2. CASE Interrupt \/ FileChangesElsewhere
  <2>1. stage = "executor" /\ UNCHANGED runVars
    BY <1>2 DEF Interrupt, FileChangesElsewhere
  <2> QED
    BY <2>1, StaysThere DEF Leaving
<1>3. CASE UploadAgain
  BY <1>3
     DEF UploadAgain, Goes, RunInv, NoErrorYet, ResultIsThere, NotToldYet, ToldWhenMarked,
         ToldOnce, Early, Leaving
<1>4. CASE OtherDownload
  <2>1. stage \in {"executor", "killed"} /\ UNCHANGED runVars
    BY <1>4 DEF OtherDownload
  <2> QED
    BY <2>1, StaysThere DEF Leaving
<1>5. CASE KilledHere \/ WorkerPanics
  BY <1>5
     DEF KilledHere, WorkerPanics, Goes, RunInv, NoErrorYet, ResultIsThere, NotToldYet, ToldWhenMarked,
         ToldOnce, Early, Leaving
<1> QED
  BY <1>1, <1>2, <1>3, <1>4, <1>5 DEF Surroundings

\* Whatever the command, its plugins, hooks and the server do, the exit code says
\* whether it succeeded, and a failure is told exactly once.
THEOREM Told == CommandSpec => []ToldOnce
<1>1. CommandInit => RunInv
  BY DEF CommandInit, RunInv, NoErrorYet, ResultIsThere, NotToldYet, ToldWhenMarked, ToldOnce,
         Early, Leaving
<1>2. RunInv /\ [CommandNext]_commandVars => RunInv'
  <2> SUFFICES ASSUME RunInv, [CommandNext]_commandVars PROVE RunInv'
    OBVIOUS
  <2>1. CASE UNCHANGED commandVars
    BY <2>1, KeepsResult DEF commandVars, executorVars
  <2>2. CASE CommandNext
    BY <2>2, EntryTold, ExecutorTold, EndTold, SurroundingsTold DEF CommandNext, Program
  <2> QED
    BY <2>1, <2>2
<1>3. RunInv => ToldOnce
  BY DEF RunInv
<1> QED
  BY <1>1, <1>2, <1>3, PTL DEF CommandSpec

=============================================================================
