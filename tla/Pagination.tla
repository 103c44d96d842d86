------------------------------ MODULE Pagination ------------------------------
(***************************************************************************)
(* One MCP tool command with --auto-paginate (MCPRuntime.Execute): the     *)
(* call of McpExecutorStep, then the calls by which AutoPaginateStep       *)
(* follows the cursors that the server gives, each of them repeated once   *)
(* by mcpclient.Client.Call when it is answered 401.  What a page holds,   *)
(* and whether another one follows it, is up to the server.                *)
(***************************************************************************)
EXTENDS Naturals, Sequences, FiniteSets

CONSTANTS
    Commands,     \* the command lines that may be given
    MaxPages,     \* maxAutoPaginatePages
    MaxEmpty,     \* maxEmptyPageStreak
    MaxInt,       \* the largest page number an int can hold
    MaxItems,     \* bound: items of one page
    MaxToken,     \* bound: page tokens that the server tells apart
    Replies,      \* what the server may answer
    Totals        \* totals that it may announce; 0: none

TokenParams == {"next_page_token", "page_token"}

\* start: the page number given; 1 stands for none, and 0 for one that is no
\* positive integer.  declares: the paging parameters of the tool.
Command == [auto : BOOLEAN, dry : BOOLEAN, valid : BOOLEAN, refreshable : BOOLEAN,
            start : 0 .. MaxInt, declares : SUBSET (TokenParams \cup {"page_num"})]

\* A reply's list is an array, null, missing, or the reply is no object at all.
\* next = 0 is a page without token; more is pagination.has_more.
Page == [list : {"list", "null", "absent", "other"}, n : 0 .. MaxItems,
         next : 0 .. MaxToken, more : BOOLEAN]

ASSUME PaginationAssumption ==
    /\ MaxPages \in Nat \ {0} /\ MaxEmpty \in Nat \ {0} /\ MaxInt \in Nat \ {0}
    /\ MaxItems \in Nat /\ MaxToken \in Nat
    /\ Totals \subseteq Nat
    /\ Commands \subseteq Command
    /\ Replies \subseteq {p \in Page : /\ p.list # "list" => p.n = 0
                                       /\ p.list = "other" => p.next = 0 /\ ~p.more}

\* What a page asked for with a given cursor turned out to be.
Fetched == [at : Nat, param : TokenParams \cup {"page_num"}, page : Page]

VARIABLES
    cmd, pc,
    mode,      \* the kind of cursor in use, once the first page told
    cursor,    \* the token or the page number of the next request
    retried,   \* this call has been answered 401 once
    merged,    \* the list of the merged payload; an item is the number of its page
    pageCount, streak, total,
    why,       \* why the loop ended
    out,       \* the result of the command
    pages,     \* history: the replies received ...
    ran        \* ... and how many requests the server carried out

vars == <<cmd, pc, mode, cursor, retried, merged, pageCount, streak, total, why,
          out, pages, ran>>

NoResult == [kind |-> "none", items |-> <<>>, marks |-> {}, next |-> 0]

TypeOK ==
    /\ cmd \in Commands
    /\ pc \in {"execute", "request", "refresh", "loop", "finish", "done"}
    /\ mode \in {"first", "token", "number"}
    /\ cursor \in Nat /\ (mode = "number" => cursor \in 1 .. MaxInt)
    /\ retried \in BOOLEAN
    /\ merged \in [list : {"list", "null", "absent"}, items : Seq(Nat)]
    /\ pageCount \in Nat /\ streak \in Nat /\ total \in Totals \cup {0}
    /\ why \in {"end", "cap", "empty"}
    /\ out \in [kind : {"none", "dry", "error", "single", "merged"}, items : Seq(Nat),
                marks : SUBSET {"truncated", "stopped", "exhausted"}, next : Nat]
    /\ pages \in Seq(Fetched)
    /\ ran \in Nat

Init ==
    /\ cmd \in Commands
    /\ pc = "execute" /\ mode = "first"
    /\ cursor = cmd.start /\ retried = FALSE
    /\ merged = [list |-> "absent", items |-> <<>>]
    /\ pageCount = 1 /\ streak = 0 /\ total = 0 /\ why = "end"
    /\ out = NoResult /\ pages = <<>> /\ ran = 0

-----------------------------------------------------------------------------
(* The first call, and any call: mcpclient.Client.Call. *)

Abort ==
    /\ pc' = "done"
    /\ out' = [NoResult EXCEPT !.kind = "error"]

Execute ==
    /\ pc = "execute"
    /\ IF ~cmd.valid THEN Abort
       ELSE IF cmd.dry THEN pc' = "done" /\ out' = [NoResult EXCEPT !.kind = "dry"]
       ELSE pc' = "request" /\ out' = out
    /\ UNCHANGED <<cmd, mode, cursor, retried, merged, pageCount, streak, total,
                   why, pages, ran>>

\* Fault: any failed call is repeated, whether or not the server carried it out.
CallFailsRetrying ==
    /\ pc = "request"
    /\ ran' \in {ran, ran + 1}
    /\ IF retried THEN Abort ELSE pc' = pc /\ out' = out
    /\ retried' = TRUE
    /\ UNCHANGED <<cmd, mode, cursor, merged, pageCount, streak, total, why, pages>>

\* Any failure but 401: the server may have run the tool and its reply be lost.
CallFails ==
    /\ pc = "request"
    /\ ran' \in {ran, ran + 1}
    /\ Abort
    /\ UNCHANGED <<cmd, mode, cursor, retried, merged, pageCount, streak, total,
                   why, pages>>

\* The server turned the request away without running the tool.
Unauthorized ==
    /\ pc = "request"
    /\ IF cmd.refreshable /\ ~retried THEN pc' = "refresh" /\ out' = out ELSE Abort
    /\ UNCHANGED <<cmd, mode, cursor, retried, merged, pageCount, streak, total,
                   why, pages, ran>>

\* The same request is sent again, with the new token.
RefreshOK ==
    /\ pc = "refresh"
    /\ pc' = "request" /\ retried' = TRUE
    /\ UNCHANGED <<cmd, mode, cursor, merged, pageCount, streak, total, why, out,
                   pages, ran>>

RefreshFails ==
    /\ pc = "refresh"
    /\ Abort
    /\ UNCHANGED <<cmd, mode, cursor, retried, merged, pageCount, streak, total,
                   why, pages, ran>>

-----------------------------------------------------------------------------
(* Merging pages: mergePayloads and getListLength. *)

Length(m) == IF m.list = "list" THEN Len(m.items) ELSE 0

\* The n items of the page that arrives now.
Items(p) == [i \in 1 .. p.n |-> Len(pages) + 1]

\* Fault: a longer list wins instead of being joined.
MergeLonger(m, p) ==
    IF p.list = "absent" \/ p.n < Length(m) THEN m
    ELSE [list |-> p.list, items |-> Items(p)]

\* Two arrays are joined; anything else that is there replaces what was.
Merge(m, p) ==
    IF p.list = "absent" THEN m
    ELSE [list  |-> p.list,
          items |-> IF m.list = "list" /\ p.list = "list" THEN m.items \o Items(p)
                    ELSE Items(p)]

TokenParam ==
    IF "next_page_token" \in cmd.declares THEN "next_page_token" ELSE "page_token"

Receive(p) ==
    /\ pc = "request"
    /\ retried' = FALSE
    /\ ran' = ran + 1
    /\ pages' = Append(pages, [at |-> cursor, page |-> p,
                               param |-> IF mode = "token" THEN TokenParam ELSE "page_num"])
    /\ UNCHANGED cmd

Single == [kind |-> "single", items |-> merged'.items, marks |-> {}, next |-> 0]

\* A token is followed first; numbers only by a tool that declares them.
ByToken(p) == p.next # 0

ByNumber(p) == p.more /\ "page_num" \in cmd.declares

(* The first page decides whether and how the others are fetched. *)
FirstPage(p) ==
    /\ mode = "first"
    /\ Receive(p)
    /\ merged' = IF p.list = "other" THEN merged ELSE Merge(merged, p)
    /\ IF ~cmd.auto \/ ~(ByToken(p) \/ ByNumber(p))
       THEN /\ pc' = "done" /\ out' = Single
            /\ UNCHANGED <<mode, cursor, total>>
       ELSE IF ByToken(p)
       THEN /\ pc' = "loop" /\ mode' = "token" /\ cursor' = p.next
            /\ UNCHANGED <<total, out>>
       ELSE IF cmd.start = 0
       THEN Abort /\ UNCHANGED <<mode, cursor, total>>
       ELSE /\ pc' = "loop" /\ mode' = "number" /\ total' \in Totals
            /\ UNCHANGED <<cursor, out>>
    /\ UNCHANGED <<pageCount, streak, why>>

\* A page that leaves the length of the list as it was counts as empty.
CountEmpty ==
    LET same == Length(merged') = Length(merged)
    IN  /\ streak' = IF same THEN streak + 1 ELSE 0
        /\ IF same /\ streak + 1 >= MaxEmpty
           THEN pc' = "finish" /\ why' = "empty"
           ELSE pc' = "loop" /\ why' = why

-----------------------------------------------------------------------------
(* paginateByToken *)

SendToken ==
    /\ pc = "loop" /\ mode = "token"
    /\ cursor # 0 /\ pageCount < MaxPages
    /\ pageCount' = pageCount + 1
    /\ pc' = "request"
    /\ UNCHANGED <<cmd, mode, cursor, retried, merged, streak, total, why, out,
                   pages, ran>>

StopToken ==
    /\ pc = "loop" /\ mode = "token"
    /\ cursor = 0 \/ pageCount >= MaxPages
    /\ pc' = "finish"
    /\ why' = IF cursor = 0 THEN "end" ELSE "cap"
    /\ UNCHANGED <<cmd, mode, cursor, retried, merged, pageCount, streak, total,
                   out, pages, ran>>

TokenPage(p) ==
    /\ mode = "token"
    /\ Receive(p)
    /\ IF p.list = "other"
       THEN pc' = "finish" /\ UNCHANGED <<merged, cursor, streak, why>>
       ELSE merged' = Merge(merged, p) /\ cursor' = p.next /\ CountEmpty
    /\ UNCHANGED <<mode, pageCount, total, out>>

-----------------------------------------------------------------------------
(* paginateByPageNum *)

AllThere == total > 0 /\ Length(merged) >= total

SendNumber ==
    /\ pc = "loop" /\ mode = "number"
    /\ pageCount < MaxPages /\ ~AllThere
    /\ IF cursor = MaxInt THEN Abort /\ cursor' = cursor
       ELSE pc' = "request" /\ cursor' = cursor + 1 /\ out' = out
    /\ UNCHANGED <<cmd, mode, retried, merged, pageCount, streak, total, why,
                   pages, ran>>

\* The cap is looked at before the total is.
StopNumber ==
    /\ pc = "loop" /\ mode = "number"
    /\ pageCount >= MaxPages \/ AllThere
    /\ pc' = "finish"
    /\ why' = IF pageCount >= MaxPages THEN "cap" ELSE "end"
    /\ UNCHANGED <<cmd, mode, cursor, retried, merged, pageCount, streak, total,
                   out, pages, ran>>

NumberPage(p) ==
    /\ mode = "number"
    /\ Receive(p)
    /\ IF p.list = "other"
       THEN pc' = "finish" /\ UNCHANGED <<merged, pageCount, streak, why>>
       ELSE /\ pageCount' = pageCount + 1
            /\ merged' = Merge(merged, p)
            /\ IF p.more THEN CountEmpty
               ELSE pc' = "finish" /\ UNCHANGED <<streak, why>>
    /\ UNCHANGED <<mode, cursor, total, out>>

-----------------------------------------------------------------------------
\* Fault: the page to continue with is the last one merged.
MarkLast ==
    IF why = "cap" THEN [marks |-> {"truncated"}, next |-> cursor]
    ELSE [marks |-> IF why = "empty" THEN {"stopped"} ELSE {}, next |-> 0]

\* The marks put on the result, and the cursor to continue with.
Mark ==
    IF why = "cap"
    THEN IF mode = "token" THEN [marks |-> {"truncated"}, next |-> cursor]
         ELSE IF cursor < MaxInt THEN [marks |-> {"truncated"}, next |-> cursor + 1]
         ELSE [marks |-> {"truncated", "exhausted"}, next |-> 0]
    ELSE [marks |-> IF why = "empty" THEN {"stopped"} ELSE {}, next |-> 0]

Finish ==
    /\ pc = "finish"
    /\ pc' = "done"
    /\ out' = [kind |-> "merged", items |-> merged.items, marks |-> Mark.marks,
               next |-> Mark.next]
    /\ UNCHANGED <<cmd, mode, cursor, retried, merged, pageCount, streak, total,
                   why, pages, ran>>

Next ==
    \/ Execute
    \/ CallFails
    \/ Unauthorized
    \/ RefreshOK
    \/ RefreshFails
    \/ \E p \in Replies : FirstPage(p) \/ TokenPage(p) \/ NumberPage(p)
    \/ SendToken
    \/ StopToken
    \/ SendNumber
    \/ StopNumber
    \/ Finish

Spec == Init /\ [][Next]_vars

-----------------------------------------------------------------------------
(* Properties *)

LastPage == pages[Len(pages)]

\* Every page after the first was asked for with the cursor of the page before
\* it, in the parameter that the tool declares for it, whatever calls had to be
\* repeated in between: no page is skipped and none is fetched twice
\* (paginateByToken, paginateByPageNum, resolveTokenParamName).
CursorFollowed ==
    \A i \in 2 .. Len(pages) :
        IF mode = "token"
        THEN /\ pages[i].at = pages[i - 1].page.next /\ pages[i].at # 0
             /\ pages[i].param \in cmd.declares \/ cmd.declares \cap TokenParams = {}
        ELSE /\ mode = "number" /\ pages[i - 1].page.more
             /\ pages[i].at = pages[i - 1].at + 1

\* The merged list has every item of every page from the last null list on, in
\* the order of the pages: nothing is lost, doubled or moved (mergePayloads).
Kept(i) == pages[i].page.list = "list"
           /\ \A j \in i + 1 .. Len(pages) : pages[j].page.list # "null"

NothingLost ==
    out.kind = "merged" =>
        /\ \A i \in 1 .. Len(pages) : Kept(i) =>
              Cardinality({k \in 1 .. Len(out.items) : out.items[k] = i}) = pages[i].page.n
        /\ \A j, k \in 1 .. Len(out.items) : j < k => out.items[j] <= out.items[k]

\* The pages are those the server has, from the first one on, and so is the list.
PagesInOrder == CursorFollowed /\ NothingLost

\* A truncated result names exactly the page that would have come next, so
\* running the command again with it neither skips nor repeats one.
ContinuationExact ==
    "truncated" \in out.marks =>
        /\ Len(pages) = MaxPages
        /\ IF mode = "token" THEN out.next = LastPage.page.next /\ out.next # 0
           ELSE IF "exhausted" \in out.marks THEN LastPage.at = MaxInt
           ELSE out.next = LastPage.at + 1

\* A merged result that carries no mark is complete: the last page promised no
\* other one, or the announced total was reached.  The exception is a reply
\* that is no object, after which the code stops without a mark.
UnmarkedIsComplete ==
    (out.kind = "merged" /\ out.marks = {}) =>
        \/ LastPage.page.list = "other"
        \/ mode = "token" /\ LastPage.page.next = 0
        \/ mode = "number" /\ (~LastPage.page.more \/ AllThere)

\* A mark says exactly where to go on, and no mark is a statement of completeness.
MarksAreTrue == ContinuationExact /\ UnmarkedIsComplete

\* Whatever the server answers, a command fetches at most MaxPages pages and
\* goes through at most MaxEmpty pages in a row that bring nothing.
Brings(f) == f.page.n > 0 \/ f.page.list \in {"null", "other"}

NoRunaway ==
    /\ Len(pages) <= MaxPages
    /\ \A i \in 2 .. Len(pages) : i + MaxEmpty <= Len(pages) =>
          \E j \in i .. i + MaxEmpty : Brings(pages[j])

\* The server runs a tool at most once for each page of the result, and a run
\* whose reply was lost ends the command: only a request that was turned away
\* is sent again, so a tool that writes is never run twice (Client.Call).
RunOnce ==
    /\ ran \in {Len(pages), Len(pages) + 1}
    /\ ran > Len(pages) => out.kind = "error"

\* However the server answers, a command asks for a bounded number of pages, and
\* for none of them twice.
RequestsBounded == NoRunaway /\ RunOnce
=============================================================================
