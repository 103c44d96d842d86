------------------------------ MODULE MCCommandRun ------------------------------
EXTENDS CommandRun

-----------------------------------------------------------------------------
(* The plugins of a build. *)

\* Of two names, with either policy; restricting ones, one of which may not fail open.
SomePlugins ==
    {Plugin("p", TRUE, FALSE), Plugin("q", TRUE, FALSE), Plugin("q", FALSE, FALSE),
     Plugin("p", FALSE, TRUE), Plugin("q", FALSE, TRUE), Plugin("p", TRUE, TRUE)}

MCGiven == UNION {[1 .. n -> SomePlugins] : n \in 0 .. 2}

-----------------------------------------------------------------------------
(* What a server lists. *)

MCFallback ==
    [get_workitem_brief |-> <<"workitem", "get">>, search_user_info |-> <<"user", "search">>,
     upload_file |-> <<"attachment", "prepare-upload">>,
     download_file |-> <<"attachment", "prepare-download">>]

MCLowerKebab ==
    {"workitem", "get", "user", "search", "me", "attachment", "prepare-upload",
     "prepare-download", "auth", "preference", "telemetry", "status", "report", "run",
     "profile", "format", "key", "work-item-id", "ids-file", "help"}

MCFlagName ==
    [key |-> "key", work_item_id |-> "work-item-id", ids_file |-> "ids-file",
     profile |-> "profile", format |-> "format", Key |-> "Key"]

\* Tools that the CLI knows, beside entries that meet them, its own commands or
\* flags, each other, or no rule at all.
Few ==
    {Tool("shadow", "workitem", "get", <<>>), Tool("get_workitem_brief", "", "", <<"ids_file">>),
     Tool("get_workitem_brief", "", "", <<"work_item_id", "url", "key">>),
     Tool("remote_auth", "auth", "status", <<>>), Tool("myself", "user", "me", <<>>),
     Tool("search_user_info", "auth", "login", <<>>), Tool("blank", " ", "run", <<>>),
     Undecoded("garbled"), Tool("twice", "report", "run", <<"key", "key">>),
     Tool("fine", "report", "run", <<"key">>), Tool("again", "report", "run", <<>>)}
Pool ==
    Few \cup
    {Tool("remote_preference", "preference", "run", <<>>), Tool("upload_file", "", "", <<"profile">>),
     Tool("upload_file", " ", "run", <<"key">>), Tool("unmapped", "", "", <<>>),
     Tool("builtin", "report", "run", <<"format">>), Tool("upper", "Report", "run", <<"Key">>),
     Tool("remote_telemetry", "telemetry", "status", <<>>)}

\* A server that lists nothing, and one that serves every shortcut.
MCStocked ==
    {<<>>, <<Tool("get_workitem_brief", "", "", <<"work_item_id">>),
             Tool("upload_file", "", "", <<"key">>), Tool("download_file", "", "", <<"key">>)>>}

MCListings == UNION {[1 .. n -> Pool] : n \in 0 .. 2} \cup [1 .. 3 -> Few] \cup MCStocked

-----------------------------------------------------------------------------
(* What is asked of the executors. *)

\* Spellings of 7, 70, 8 and -7, of zero, of half of one, and of no number.
Dec(digits, fraction, exponent) ==
    [negative |-> FALSE, digits |-> digits, fraction |-> fraction, exponent |-> exponent]
Minus(n) == [n EXCEPT !.negative = TRUE]

Seven == {Dec(<<7>>, 0, 0), Dec(<<7, 0>>, 1, 0), Dec(<<0, 7>>, 1, 1), Dec(<<7, 0>>, 0, -1)}
Several ==
    Seven \cup {Dec(<<7, 0>>, 0, 0), Dec(<<7>>, 0, 1), Dec(<<8>>, 0, 0), Minus(Dec(<<7>>, 0, 0)),
               Dec(<<0>>, 0, 0), Minus(Dec(<<0, 0>>, 1, 2)), Dec(<<5>>, 0, -1), Dec(<<0, 5>>, 1, 0)}

N(d) == Dec(<<d>>, 0, 0)
SevenAgain == Dec(<<7, 0>>, 1, 0)

\* Lists of up to two, and longer ones at and beyond the cap of three.
MCInputs ==
    UNION {[1 .. n -> Several] : n \in 0 .. 2}
    \cup {<<NotANumber>>, <<N(7), NotANumber>>, <<N(7), N(8), N(9)>>, <<N(7), N(8), SevenAgain, N(9)>>,
          <<N(7), SevenAgain, N(9), N(8)>>, <<N(8), N(7), N(8), SevenAgain>>,
          <<N(7), N(8), N(9), N(6)>>}

\* An object of two parts, and another one of a single part.
MCPartsOf == [d \in Downloads |-> IF d = Me THEN 2 ELSE 1]

\* Tools with each kind of cursor, starting pages from which the cap
\* comes before, with or after the largest number.
Paged(s, d) == [auto |-> TRUE, dry |-> FALSE, valid |-> TRUE, refreshable |-> TRUE,
                start |-> s, declares |-> d]

MCCommands ==
    {Paged(1, {"next_page_token"}), Paged(1, {"page_token"}), Paged(1, {})}
    \cup {Paged(s, {"page_num"}) : s \in {0, 1, 3, 4}}
    \cup {[Paged(1, TokenParams) EXCEPT !.refreshable = FALSE],
          [Paged(1, {"page_num"}) EXCEPT !.auto = FALSE],
          [Paged(1, {"page_num"}) EXCEPT !.dry = TRUE],
          [Paged(1, {"page_num"}) EXCEPT !.valid = FALSE]}

Reply(list, n, next, more) == [list |-> list, n |-> n, next |-> next, more |-> more]

\* Pages with and without items, with a cursor of each kind, of both or of none, and
\* ones whose list is null or missing, or that are no object.
MCReplies ==
    {Reply("list", 1, 2, TRUE), Reply("list", 0, 1, TRUE), Reply("null", 0, 2, TRUE),
     Reply("list", 1, 0, TRUE), Reply("list", 1, 0, FALSE), Reply("absent", 0, 0, FALSE),
     Reply("other", 0, 0, FALSE)}
=============================================================================
