-------------------------------- MODULE Startup --------------------------------
(***************************************************************************)
(* Processes of the CLI as they start: the profile and the identity that a *)
(* command is to run with, among the configuration, the token store and a  *)
(* credential extension; the list of tools, from the cache of a profile or *)
(* from the server, of which Catalog makes the command tree; and the       *)
(* identity the command finally runs with.  In the meantime a login or a   *)
(* refresh elsewhere stores another token, tokens are revoked, the current *)
(* profile is switched and caches grow old.                                *)
(***************************************************************************)
EXTENDS Naturals, FiniteSets

CONSTANTS
    Procs, Profiles, First,     \* First is the current profile to begin with
    Commands,     \* the commands each process may run
    Selectable,   \* the profiles that an account of the extension may select
    MaxToken,     \* bound: tokens that are issued
    MaxEvents     \* bound: steps of the world around the processes

NoProfile == "none"
Command == [root : {"tool", "local", "offline", "inspect"},
            profile : Profiles \cup {NoProfile}, refresh : BOOLEAN]

ASSUME StartupAssumption ==
    /\ NoProfile \notin Profiles /\ First \in Profiles /\ Selectable \subseteq Profiles
    /\ Commands \in [Procs -> SUBSET Command]
    /\ MaxToken \in Nat \ {0} /\ MaxEvents \in Nat

\* Tokens count in the order in which they are issued; 0 is none.
Token == 0 .. MaxToken
NoCache == [by |-> NoProfile, stale |-> FALSE, via |-> "start"]

VARIABLES
    current,              \* the current profile of the configuration
    store,                \* the stored token of every profile
    cache,                \* its tool cache: whose tools, how old, written by whom
    revoked, issued, events,
    cmd, pc,
    handler,              \* the process resolves again, for the inspect command
    profile, effective,   \* the profile of the invocation, and that of the identity
    host, source, token,  \* the identity: a host, a token that is given or stored
    bootError,            \* the configuration could not be resolved
    tools,                \* whose tools it holds, of a cache or of an answer
    ran,                  \* the profile whose identity the command ran with,
    filed,                \* ... and the one under which it files the remote configuration
    answer,               \* what became of the request for the tools
    selected,             \* history: the profile that an account selected
    overlapped,           \* history: removals of a token during which another was stored
    lost                  \* history: tokens removed by a process that had another rejected

world == <<current, store, cache, revoked, issued, events>>
identity == <<profile, effective, host, source, token, bootError>>
found == <<tools, answer>>
history == <<selected, overlapped, lost>>
vars == <<world, cmd, pc, handler, identity, found, ran, filed, history>>

TypeOK ==
    /\ current \in Profiles /\ store \in [Profiles -> Token]
    /\ cache \in [Profiles -> [by : Profiles \cup {NoProfile}, stale : BOOLEAN,
                               via : {"start", "inspect"}]]
    /\ revoked \subseteq Token /\ issued \in Token /\ events \in 0 .. MaxEvents
    /\ \A p \in Procs : cmd[p] \in Commands[p]
    /\ pc \in [Procs -> {"launch", "account", "token", "stored", "lookup", "ask",
                         "compare", "clear", "write", "build", "run", "over", "done"}]
    /\ handler \in [Procs -> BOOLEAN]
    /\ profile \in [Procs -> Profiles \cup {NoProfile}]
    /\ effective \in [Procs -> Profiles \cup {NoProfile}]
    /\ host \in [Procs -> BOOLEAN]
    /\ source \in [Procs -> {"unset", "given", "store"}]
    /\ token \in [Procs -> Token] /\ bootError \in [Procs -> BOOLEAN]
    /\ tools \in [Procs -> Profiles \cup {NoProfile}]
    /\ ran \in [Procs -> Profiles \cup {NoProfile}]
    /\ filed \in [Procs -> Profiles \cup {NoProfile}]
    /\ answer \in [Procs -> {"none", "listed", "missing", "rejected"}]
    /\ selected \in [Procs -> Profiles \cup {NoProfile}]
    /\ overlapped \subseteq Procs /\ lost \subseteq Token \X Procs

Init ==
    /\ current = First
    /\ \E in \in SUBSET Profiles :       \* the profiles with a login and a cache so far
         /\ store = [f \in Profiles |-> IF f \in in THEN 1 ELSE 0]
         /\ cache = [f \in Profiles |-> IF f \in in THEN [NoCache EXCEPT !.by = f] ELSE NoCache]
    /\ issued = 1 /\ revoked \in SUBSET {1}
    /\ events = 0
    /\ cmd \in {c \in [Procs -> Command] : \A p \in Procs : c[p] \in Commands[p]}
    /\ pc = [p \in Procs |-> "launch"] /\ handler = [p \in Procs |-> FALSE]
    /\ profile = [p \in Procs |-> NoProfile] /\ effective = profile
    /\ host = [p \in Procs |-> FALSE] /\ source = [p \in Procs |-> "unset"]
    /\ token = [p \in Procs |-> 0] /\ bootError = [p \in Procs |-> FALSE]
    /\ tools = [p \in Procs |-> NoProfile]
    /\ ran = tools /\ filed = tools /\ selected = tools
    /\ answer = [p \in Procs |-> "none"]
    /\ overlapped = {} /\ lost = {}

Goto(p, label) == pc' = [pc EXCEPT ![p] = label]
Set(f, p, value) == [f EXCEPT ![p] = value]

-----------------------------------------------------------------------------
(* The identity. *)

\* A plugin that does not install, or a provider that fails with an error, a panic
\* or no answer in time: the start fails, inspect has nothing to show.
ExtensionFails(p) ==
    /\ Goto(p, "over")
    /\ UNCHANGED <<world, cmd, handler, identity, found, ran, filed, history>>

\* NewCLIAppContext: the commands known to be local build their tree without an
\* identity, for help and completion.
Launch(p) ==
    /\ pc[p] = "launch"
    /\ \/ ExtensionFails(p)
       \/ LET given == cmd[p].profile
              named == IF given = NoProfile THEN current ELSE given
          IN /\ profile' = Set(profile, p, named) /\ effective' = Set(effective, p, named)
             /\ Goto(p, IF cmd[p].root \in {"tool", "local"} THEN "account" ELSE "lookup")
             /\ UNCHANGED <<world, cmd, handler, host, source, token, bootError, found,
                            ran, filed, history>>

\* The first provider that has an account selects the host, the profile, or both.
ResolveAccount(p) ==
    /\ pc[p] = "account"
    /\ \/ ExtensionFails(p)
       \/ \E f \in Selectable \cup {NoProfile}, h \in BOOLEAN :
            /\ effective' = Set(effective, p, IF f = NoProfile THEN profile[p] ELSE f)
            /\ selected' = Set(selected, p, f)
            /\ host' = Set(host, p, h)
            /\ Goto(p, "token")
            /\ UNCHANGED <<world, cmd, handler, profile, source, token, bootError, found,
                           ran, filed, overlapped, lost>>

\* NewCLIAppContext and ResolveMappedCommands when the built-in configuration is
\* of no use: the tree is made of placeholders, inspect has nothing to show.
ConfigFails(p) ==
    /\ host' = Set(host, p, FALSE) /\ source' = Set(source, p, "unset")
    /\ effective' = Set(effective, p, profile[p])
    /\ bootError' = Set(bootError, p, TRUE)
    /\ Goto(p, IF handler[p] THEN "over" ELSE "build")

Identified(p, h, from) ==
    /\ host' = Set(host, p, h) /\ source' = Set(source, p, from)
    /\ UNCHANGED <<effective, bootError>>

\* What the configuration of the effective profile and the environment hold:
\* nothing that can be expanded, no host, a host, or a host and a token.
ResolveToken(p) ==
    /\ pc[p] = "token"
    /\ \/ ExtensionFails(p)
       \/ \E builtIn \in {"broken", "bare", "host", "token"}, extended \in BOOLEAN :
            LET known == host[p] \/ builtIn \in {"host", "token"} IN
            /\ \/ /\ builtIn = "broken" /\ ~(extended /\ known)
                  /\ ConfigFails(p)
               \/ /\ IF extended THEN builtIn = "broken" => known ELSE builtIn = "token"
                  /\ Identified(p, known, "given") /\ Goto(p, "lookup")
               \/ /\ ~extended /\ builtIn \in {"bare", "host"}
                  /\ Identified(p, known, "unset") /\ Goto(p, "stored")
            /\ UNCHANGED <<world, cmd, handler, profile, token, found, ran, filed, history>>

AttachStored(p) ==
    /\ pc[p] = "stored"
    /\ token' = Set(token, p, store[effective[p]])
    /\ source' = Set(source, p, IF store[effective[p]] = 0 THEN "unset" ELSE "store")
    /\ Goto(p, "lookup")
    /\ UNCHANGED <<world, cmd, handler, profile, effective, host, bootError, found, ran, filed,
                   history>>

-----------------------------------------------------------------------------
(* The tools: resolveToolsState. *)

HasClient(p) == host[p] /\ source[p] # "unset"

\* Fault: the start, too, files under the profile of the invocation.
CacheInvoked(p) == profile[p]

\* The start files under the profile of the identity; inspect keeps to that of
\* the invocation, though it has resolved an identity of its own.
CacheProfile(p) == IF handler[p] THEN profile[p] ELSE effective[p]

Lookup(p) ==
    /\ pc[p] = "lookup"
    /\ LET entry == cache[CacheProfile(p)]
           fresh == entry.by # NoProfile /\ ~entry.stale /\ ~(cmd[p].refresh /\ ~handler[p])
       IN /\ tools' = Set(tools, p, entry.by)
          /\ Goto(p, IF ~fresh /\ HasClient(p) THEN "ask" ELSE "build")
    /\ UNCHANGED <<world, cmd, handler, identity, answer, ran, filed, history>>

\* The server lists its tools, lists none or cannot be reached, which leaves an
\* old cache if there is one, or rejects the token once and for all.  A client with
\* a store sends the token that is stored by now.
Ask(p) ==
    /\ pc[p] = "ask"
    /\ \E how \in {"listed", "missing", "rejected"} :
         /\ answer' = Set(answer, p, how)
         /\ source[p] = "store" =>
              LET good == store[effective[p]] \notin revoked \cup {0}
              IN (how = "listed" => good) /\ (how = "rejected" => ~good)
         /\ tools' = Set(tools, p, CASE how = "listed" -> effective[p]
                                     [] how = "missing" -> tools[p]
                                     [] how = "rejected" -> NoProfile)
         /\ Goto(p, IF how = "listed" THEN "write"
                    ELSE IF how = "rejected" /\ source[p] = "store" THEN "compare"
                    ELSE "build")
    /\ UNCHANGED <<world, cmd, handler, identity, ran, filed, history>>

\* The tool cache that is written is that of the answer.
WriteCache(p) ==
    /\ pc[p] = "write"
    /\ cache' = [cache EXCEPT ![CacheProfile(p)] =
                    [by |-> effective[p], stale |-> FALSE,
                     via |-> IF handler[p] THEN "inspect" ELSE "start"]]
    /\ Goto(p, "build")
    /\ UNCHANGED <<current, store, revoked, issued, events, cmd, handler, identity,
                   found, ran, filed, history>>

\* ClearTokenIfCurrent: under the refresh lock of the profile, which refreshes
\* take and logins do not.
Locked(f) == \E p \in Procs : pc[p] = "clear" /\ effective[p] = f

\* Fault: the stored token is removed without a look at it.
CompareNothing(p) ==
    /\ pc[p] = "compare" /\ ~Locked(effective[p])
    /\ Goto(p, "clear")
    /\ UNCHANGED <<world, cmd, handler, identity, found, ran, filed, history>>

CompareToken(p) ==
    /\ pc[p] = "compare" /\ ~Locked(effective[p])
    /\ Goto(p, IF store[effective[p]] = token[p] THEN "clear" ELSE "build")
    /\ UNCHANGED <<world, cmd, handler, identity, found, ran, filed, history>>

ClearToken(p) ==
    /\ pc[p] = "clear"
    /\ store' = [store EXCEPT ![effective[p]] = 0]
    /\ lost' = lost \cup ({<<store[effective[p]], p>>} \ {<<0, p>>, <<token[p], p>>})
    /\ Goto(p, "build")
    /\ UNCHANGED <<current, cache, revoked, issued, events, cmd, handler, identity,
                   found, ran, filed, selected, overlapped>>

-----------------------------------------------------------------------------
(* The tree and the command. *)

\* Placeholders stand for the groups the CLI knows when the tools could not be
\* had; a rejected token or no client leave the local commands alone.
Built(p) ==
    IF bootError[p] THEN "broken"
    ELSE IF tools[p] # NoProfile THEN "tools"
    ELSE IF answer[p] = "missing" THEN "unavailable"
    ELSE "empty"

Build(p) ==
    /\ pc[p] = "build" /\ Goto(p, IF handler[p] THEN "over" ELSE "run")
    /\ UNCHANGED <<world, cmd, handler, identity, found, ran, filed, history>>

\* SessionStep: with the identity of the start; when there is none, resolved once
\* more, without the extension, for the profile that is the current one by now.
SessionProfile(p) == IF cmd[p].profile = NoProfile THEN current ELSE cmd[p].profile

\* Fault: the identity of the start is left aside.
RunsWithCurrent(p) == SessionProfile(p)

RunsWith(p) == IF bootError[p] THEN SessionProfile(p) ELSE effective[p]

Run(p) ==
    /\ pc[p] = "run"
    /\ \/ /\ cmd[p].root = "inspect"
          /\ handler' = Set(handler, p, TRUE) /\ Goto(p, "account")
          /\ UNCHANGED <<ran, filed>>
       \/ /\ cmd[p].root = "local" \/ (cmd[p].root = "tool" /\ Built(p) = "tools")
          /\ HasClient(p) \/ bootError[p]
          /\ ran' = Set(ran, p, RunsWith(p))
          /\ filed' = Set(filed, p, SessionProfile(p))
          /\ Goto(p, "over") /\ UNCHANGED handler
       \/ /\ cmd[p].root # "inspect"       \* refused, or the first run is set up instead
          /\ Goto(p, "over") /\ UNCHANGED <<handler, ran, filed>>
    /\ UNCHANGED <<world, cmd, identity, found, history>>

\* What the process has resolved goes with it.
Exit(p) ==
    /\ pc[p] = "over" /\ Goto(p, "done")
    /\ handler' = Set(handler, p, FALSE) /\ host' = Set(host, p, FALSE)
    /\ profile' = Set(profile, p, NoProfile) /\ effective' = Set(effective, p, NoProfile)
    /\ source' = Set(source, p, "unset") /\ token' = Set(token, p, 0)
    /\ bootError' = Set(bootError, p, FALSE)
    /\ tools' = Set(tools, p, NoProfile) /\ answer' = Set(answer, p, "none")
    /\ ran' = Set(ran, p, NoProfile) /\ filed' = Set(filed, p, NoProfile)
    /\ selected' = Set(selected, p, NoProfile)
    /\ UNCHANGED <<world, cmd, overlapped, lost>>

-----------------------------------------------------------------------------
(* The world. *)

Around(kept) ==
    /\ events < MaxEvents /\ events' = events + 1
    /\ UNCHANGED <<kept, cmd, pc, handler, identity, found, ran, filed,
                   selected, lost>>

NewToken(f) == issued < MaxToken /\ issued' = issued + 1 /\ store' = [store EXCEPT ![f] = issued + 1]

\* A login stores its token without the lock, and drops the tool cache.
LoginElsewhere(f) ==
    /\ NewToken(f) /\ cache' = [cache EXCEPT ![f] = NoCache]
    /\ overlapped' = overlapped \cup {p \in Procs : pc[p] = "clear" /\ effective[p] = f}
    /\ Around(<<current, revoked>>)

\* A refresh replaces a token that is there, under the lock.
RefreshElsewhere(f) ==
    /\ store[f] # 0 /\ ~Locked(f) /\ NewToken(f)
    /\ Around(<<current, cache, revoked, overlapped>>)

Revoke(t) == /\ t \in 1 .. issued \ revoked /\ revoked' = revoked \cup {t}
             /\ Around(<<current, store, cache, issued, overlapped>>)

SwitchProfile(f) == /\ f # current /\ current' = f
                    /\ Around(<<store, cache, revoked, issued, overlapped>>)

Age(f) == /\ cache[f].by # NoProfile /\ ~cache[f].stale
          /\ cache' = [cache EXCEPT ![f].stale = TRUE]
          /\ Around(<<current, store, revoked, issued, overlapped>>)

Step(p) ==
    \/ Launch(p) \/ ResolveAccount(p) \/ ResolveToken(p) \/ AttachStored(p)
    \/ Lookup(p) \/ Ask(p) \/ WriteCache(p) \/ CompareToken(p) \/ ClearToken(p)
    \/ Build(p) \/ Run(p) \/ Exit(p)

Next ==
    \/ \E p \in Procs : Step(p)
    \/ \E f \in Profiles : LoginElsewhere(f) \/ RefreshElsewhere(f) \/ SwitchProfile(f) \/ Age(f)
    \/ \E t \in Token : Revoke(t)
    \/ (\A p \in Procs : pc[p] = "done") /\ UNCHANGED vars

Spec == Init /\ [][Next]_vars

-----------------------------------------------------------------------------
(* Properties. *)

\* The tool cache of a profile holds what its own identity was listed, unless an
\* inspect has filed there what the profile of an account was listed.
ForeignToolsOnlyByInspect ==
    \A f \in Profiles : cache[f].by \notin {NoProfile, f} => cache[f].via = "inspect"

\* A command runs with the identity of the profile that an account selected, or
\* else that of the invocation, and files the remote configuration under it:
\* but for a local command whose configuration could not be resolved, and unless
\* an account, or a switch since the start, sets the two apart.
RunsAsSelected ==
    \A p \in Procs : ran[p] # NoProfile =>
        /\ \/ ran[p] = (IF selected[p] = NoProfile THEN profile[p] ELSE selected[p])
           \/ bootError[p] /\ cmd[p].root = "local"
        /\ filed[p] = ran[p] \/ selected[p] \notin {NoProfile, filed[p]}
             \/ (cmd[p].profile = NoProfile /\ profile[p] # filed[p])

\* A start whose token is rejected removes that token and no other: one stored
\* elsewhere goes with it only if a login stored it, without the lock, between
\* the comparison and the removal of ClearTokenIfCurrent.
LoginLostOnlyByOverlap == \A l \in lost : l[2] \in overlapped
=============================================================================
