-------------------------------- MODULE Catalog --------------------------------
(***************************************************************************)
(* The commands that a tools/list answer stands for, whatever a server     *)
(* lists: how every listed tool becomes a command, is left out, or is      *)
(* turned down with an issue, one after the other, and how the command     *)
(* tree is put together from what remains, the commands that the CLI adds  *)
(* to a group, and its own root commands.                                  *)
(***************************************************************************)
EXTENDS Selection, Functions

CONSTANTS
    Fallback,     \* the path of every tool the CLI knows: name -> <<resource, method>>
    LowerKebab,   \* the names that a server may give: [a-z][a-z0-9-]*
    FlagName,     \* the flag of a parameter, with every _ made a -
    Listings      \* what the server may list: sequences of Tool and Undecoded

\* An entry of a list, as it is decoded.
Listed == [name : STRING, resource : STRING, method : STRING,
           params : Seq(DOMAIN FlagName \cup {"url"}), issue : BOOLEAN]

ASSUME CatalogAssumption ==
    /\ \A n \in DOMAIN Fallback : Fallback[n] \in LowerKebab \X LowerKebab
    /\ IsInjective(Fallback)
    /\ LowerKebab \cap {"", " ", "+upload", "+download", "+batch-get", "+get-batch"} = {}
    /\ LowerKebab \subseteq STRING /\ FlagName \in [DOMAIN FlagName -> STRING]
    /\ Listings \subseteq Seq(Listed)

\* A tool as it is listed: "" is a resource or method that is missing, " " one that
\* is blank, and issue is set when the entry could not be decoded.
Tool(name, resource, method, params) ==
    [name |-> name, resource |-> resource, method |-> method, params |-> params, issue |-> FALSE]
Undecoded(name) == [Tool(name, "", "", <<>>) EXCEPT !.issue = TRUE]

LocalRoots == {"ai-handoff", "preference"}
StaticRoots == {"auth", "config", "inspect", "completion", "url", "telemetry", "extension",
                "help", "version"}
ReservedResources ==
    {"auth", "completion", "config", "extension", "help", "inspect", "url", "version"}
    \cup LocalRoots

GlobalFlags == {"profile", "refresh"}
BuiltinFlags == {"set", "params", "dry-run", "format", "select", "envelope", "verbose",
                 "auto-paginate"}

-----------------------------------------------------------------------------
(* A tool and its command. *)

Flags(params) == LET kept == Selected(params, {i \in DOMAIN params : params[i] # "url"})
                 IN [i \in DOMAIN kept |-> FlagName[kept[i]]]

\* A listed tool as the command at a path.
CommandAt(t, path) ==
    [tool |-> t.name, resource |-> path[1], method |-> path[2], flags |-> Flags(t.params)]

\* Fault: the path that the server gives is taken first.
PathByMetadata(t) ==
    IF t.name \in DOMAIN Fallback /\ "" \in {t.resource, t.method}
    THEN Fallback[t.name] ELSE <<t.resource, t.method>>

\* A tool the CLI knows keeps its path, whatever the server says of it.
PathOf(t) == IF t.name \in DOMAIN Fallback THEN Fallback[t.name] ELSE <<t.resource, t.method>>

\* The entries of a list that become commands, and the ones that are reported before
\* they are anything like a command.
Mapped(list) == {i \in DOMAIN list : ~list[i].issue /\ "" \notin Range(PathOf(list[i]))}
Malformed(list) ==
    {i \in DOMAIN list :
        \/ list[i].issue
        \/ list[i].name \notin DOMAIN Fallback
           /\ {list[i].resource, list[i].method} \cap {"", " "} # {}}

-----------------------------------------------------------------------------
(* The tree. *)

Node(name, aliases, flags, tool) ==
    [name |-> name, aliases |-> aliases, flags |-> flags, tool |-> tool]

Named(nodes, name) == \E i \in DOMAIN nodes : nodes[i].name = name
Child(nodes, name) == nodes[CHOOSE i \in DOMAIN nodes : nodes[i].name = name]

WithSugar(group, nodes) ==
    IF group = "user" THEN Append(nodes, Node("me", <<>>, <<>>, "search_user_info")) ELSE nodes

\* A shortcut is added beside the command that it is made of, and calls its tool.
WithShortcut(nodes, name, sibling, flags) ==
    IF Named(nodes, name) \/ ~Named(nodes, sibling) THEN nodes
    ELSE Append(nodes, Node(name, <<>>, flags, Child(nodes, sibling).tool))

WithAttachments(group, nodes) ==
    IF group # "attachment" THEN nodes
    ELSE WithShortcut(WithShortcut(nodes, "+upload", "prepare-upload",
                                   <<"resource-type", "project-key", "work-item-id", "work-item-type",
                                     "field-key", "filename", "content-type">>),
                      "+download", "prepare-download",
                      <<"project-key", "work-item-id", "output", "overwrite">>)

\* The batch form takes the flags of the single one, but for the work item.
BatchFlags(flags) ==
    <<"work-item-ids", "ids-file">>
        \o Selected(flags, {i \in DOMAIN flags : flags[i] # "work-item-id"})

WithBatch(group, nodes) ==
    IF group # "workitem" \/ Named(nodes, "+batch-get") \/ ~Named(nodes, "get") THEN nodes
    ELSE LET get == Child(nodes, "get")
         IN Append(nodes, Node("+batch-get", <<"+get-batch">>, BatchFlags(get.flags), get.tool))

\* The groups of a tree and the commands below each of them.
Tree(commands) ==
    [g \in {c.resource : c \in Range(commands)} |->
        LET own == Selected(commands, {i \in DOMAIN commands : commands[i].resource = g})
            nodes == [i \in DOMAIN own |->
                        Node(own[i].method, <<>>, own[i].flags, own[i].tool)]
        IN WithBatch(g, WithAttachments(g, WithSugar(g, nodes)))]

ValidFlags(flags) == IsInjective(flags) /\ Range(flags) \cap BuiltinFlags = {}
AllNames(node) == {node.name} \cup Range(node.aliases)
ValidChildren(nodes) ==
    /\ \A i \in DOMAIN nodes :
         IsInjective(nodes[i].aliases) /\ nodes[i].name \notin Range(nodes[i].aliases)
    /\ \A i, j \in DOMAIN nodes : i # j => AllNames(nodes[i]) \cap AllNames(nodes[j]) = {}
Valid(tree) ==
    \A g \in DOMAIN tree :
        ValidChildren(tree[g]) /\ \A i \in DOMAIN tree[g] : ValidFlags(tree[g][i].flags)

-----------------------------------------------------------------------------
(* What is kept of a list. *)

FlagsAllowed(flags) ==
    Range(flags) \subseteq LowerKebab \ ({"help", "version"} \cup GlobalFlags)

OwnedByAnother(c) ==
    \E n \in DOMAIN Fallback : Fallback[n] = <<c.resource, c.method>> /\ n # c.tool

\* Fault: a command is not validated with what is added to its group.
VerdictByName(c, accepted) ==
    IF c.resource \in ReservedResources \/ OwnedByAnother(c) THEN "reserved_path"
    ELSE IF {c.resource, c.method} \ LowerKebab # {} \/ ~FlagsAllowed(c.flags) THEN "invalid_command"
    ELSE IF \E i \in DOMAIN accepted : accepted[i].resource = c.resource /\ accepted[i].method = c.method
         THEN "duplicate_path"
    ELSE "ok"

\* The fate of a command, after the ones that have been accepted before it.
Verdict(c, accepted) ==
    IF c.resource \in ReservedResources \/ OwnedByAnother(c) THEN "reserved_path"
    ELSE IF \/ {c.resource, c.method} \ LowerKebab # {}
            \/ ~FlagsAllowed(c.flags)
            \/ ~Valid(Tree(<<c>>))
         THEN "invalid_command"
    ELSE IF \E i \in DOMAIN accepted : accepted[i].resource = c.resource /\ accepted[i].method = c.method
         THEN "duplicate_path"
    ELSE "ok"

\* The root commands of the server's and of the local setup must not meet.
Composes(tree) == Valid(tree) /\ DOMAIN tree \cap LocalRoots = {}

\* Who answers to a root command: the router has registered the commands of the
\* server and the local ones before the static ones are added to the root.
Answers(root, groups) ==
    IF root \in groups THEN "server"
    ELSE IF root \in LocalRoots THEN "local"
    ELSE IF root \in StaticRoots THEN "static"
    ELSE "none"

-----------------------------------------------------------------------------
(* mapAndSanitizeTools and buildCommandTree at work. *)

VARIABLES
    listing,      \* what was listed
    todo,         \* the commands that are still to be judged
    commands,     \* those that have been accepted, in order
    issues,       \* what is reported of the others
    tree,         \* the groups and commands, once they are built
    cpc
catalogVars == <<listing, todo, commands, issues, tree, cpc>>

CatalogInit ==
    /\ listing \in Listings /\ cpc = "listed"
    /\ todo = <<>> /\ commands = <<>> /\ issues = <<>> /\ tree = <<>>

MapTools ==
    /\ cpc = "listed" /\ cpc' = "mapped"
    /\ LET mapped == Selected(listing, Mapped(listing))
           bad == Selected(listing, Malformed(listing))
       IN /\ todo' = [i \in DOMAIN mapped |-> CommandAt(mapped[i], PathOf(mapped[i]))]
          /\ issues' = [i \in DOMAIN bad |->
                          [tool |-> bad[i].name, code |-> IF bad[i].issue THEN "wire"
                                                          ELSE "invalid_tool_definition"]]
    /\ UNCHANGED <<listing, commands, tree>>

Accept ==
    /\ cpc = "mapped" /\ todo # <<>> /\ todo' = Tail(todo)
    /\ Verdict(Head(todo), commands) = "ok" /\ commands' = Append(commands, Head(todo))
    /\ UNCHANGED <<listing, issues, tree, cpc>>

Reject ==
    /\ cpc = "mapped" /\ todo # <<>> /\ todo' = Tail(todo)
    /\ Verdict(Head(todo), commands) # "ok"
    /\ issues' = Append(issues, [tool |-> Head(todo).tool,
                                 code |-> Verdict(Head(todo), commands)])
    /\ UNCHANGED <<listing, commands, tree, cpc>>

BuildTree ==
    /\ cpc = "mapped" /\ todo = <<>> /\ cpc' = "built" /\ tree' = Tree(commands)
    /\ UNCHANGED <<listing, todo, commands, issues>>

CatalogStep == MapTools \/ Accept \/ Reject \/ BuildTree

CatalogSpec == CatalogInit /\ [][CatalogStep]_catalogVars

-----------------------------------------------------------------------------
(* Properties. *)

Served == {<<commands[i].tool, <<commands[i].resource, commands[i].method>>>> :
             i \in DOMAIN commands}

Fits(t, path) ==
    ~t.issue /\ "" \notin Range(path) /\ Verdict(CommandAt(t, path), <<>>) = "ok"

\* Every tool of a list is served or reported; one that the CLI knows, and that
\* would do alone, is served at its own path whatever the server says of it
\* and lists around it; and every path that a tool may take is served by some tool.
EveryToolAnswered ==
    cpc = "built" => \A i \in DOMAIN listing :
        LET t == listing[i]
            path == <<t.resource, t.method>>
        IN /\ \/ \E s \in Served : s[1] = t.name
              \/ \E j \in DOMAIN issues : issues[j].tool = t.name
           /\ IF t.name \in DOMAIN Fallback
              THEN Fits(t, Fallback[t.name]) => <<t.name, Fallback[t.name]>> \in Served
              ELSE Fits(t, path) => \E s \in Served : s[2] = path

RootsLost == {r \in LocalRoots \cup StaticRoots : Answers(r, DOMAIN tree) = "server"}

\* Whatever the server lists, the tree holds together beside the local commands, so
\* that no listing takes the start, and with it the commands that repair it, down; no
\* root command of the CLI but "telemetry" goes to the server; and what the CLI adds to
\* a group calls a tool that is served there, but for "user me".
TreeHolds ==
    cpc = "built" =>
        /\ Composes(tree)
        /\ RootsLost \subseteq {"telemetry"}
        /\ \A g \in DOMAIN tree : \A n \in Range(tree[g]) :
             n.name = "me" \/ \E s \in Served : s[1] = n.tool /\ s[2][1] = g
=============================================================================
