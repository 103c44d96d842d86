----------------------------- MODULE ProfileConfig -----------------------------
(***************************************************************************)
(* The profiles in config.json and the commands that edit them: config     *)
(* init, config set, config profile use, create and delete, and the save   *)
(* of the host that auth login makes, beside those that show it.  Every    *)
(* edit reads the file, changes the value in memory and writes the file    *)
(* again by truncating it first; nothing locks it, and a reader takes a    *)
(* file it cannot parse for an empty one.                                  *)
(***************************************************************************)
EXTENDS Naturals, FiniteSets

CONSTANTS
    Procs,        \* processes of the CLI, each of which runs one command
    Names,        \* names of profiles
    Default,      \* the profile in use as long as none is named
    Values,       \* values of a key
    NonText,      \* those that are no JSON string, such as a token made of digits
    Unset,        \* the value of a key that is absent
    Commands,     \* the commands that may be given
    Files         \* contents of the file to begin with

\* extra is a key that the program does not know.
Keys == {"host", "headers", "token", "extra"}
Profile == [Keys -> Values \cup {Unset}]
Root == [current : Names \cup {Unset}, profiles : UNION {[S -> Profile] : S \in SUBSET Names}]
Command == [op : {"init", "set", "show", "use", "create", "delete", "login"}, name : Names \cup {Unset},
            key : Keys, value : Values]

ASSUME ProfileAssumption ==
    /\ Default \in Names /\ Unset \notin Names \cup Values
    /\ NonText \subseteq Values
    /\ Commands \subseteq Command /\ Files \subseteq Root
    /\ \A c \in Commands : c.name = Unset => c.op \in {"init", "set", "show", "login"}

VARIABLES
    text,        \* the text of config.json: whole, blank or garbled ...
    file,        \* ... and what a reader takes it for
    pc, cmd,     \* a process: where it is, and its command with the name resolved
    cfg,         \* ... the profile it has loaded
    buf,         \* ... the configuration it is about to write
    second,      \* ... create has saved the profile and switches to it
    outcome,
    asked,       \* history: the edits that were made, applied one after the other
    stale,       \* history: the processes whose view of the file is out of date
    harm,        \* history: what went wrong with writes of the file
    relied       \* history: a process has made sure of its profile, which may be gone since

vars == <<text, file, pc, cmd, cfg, buf, second, outcome, asked, stale, harm, relied>>
history == <<asked, stale, harm, relied>>

Empty == [current |-> Unset, profiles |-> [n \in {} |-> Unset]]
Nothing == [k \in Keys |-> Unset]

TypeOK ==
    /\ text \in {"whole", "blank", "garbled"} /\ file \in Root
    /\ pc \in [Procs -> {"start", "load", "show", "check", "prompt", "clear", "read", "open",
                         "write", "signin", "done", "dead"}]
    /\ cmd \in [Procs -> Command]
    /\ cfg \in [Procs -> Profile] /\ buf \in [Procs -> Root]
    /\ second \in [Procs -> BOOLEAN]
    /\ outcome \in [Procs -> {"none", "ok", "refused", "failed"}]
    /\ asked \in Root
    /\ stale \subseteq Procs
    /\ harm \subseteq {"stale", "broken", "crash", "garbled"}
    /\ relied \in [Procs -> {"no", "yes", "gone"}]

Init ==
    /\ text = "whole" /\ file \in Files /\ asked = file
    /\ pc = [p \in Procs |-> "start"]
    /\ cmd \in [Procs -> Commands]
    /\ cfg = [p \in Procs |-> Nothing] /\ buf = [p \in Procs |-> Empty]
    /\ second = [p \in Procs |-> FALSE]
    /\ outcome = [p \in Procs |-> "none"]
    /\ stale = {} /\ harm = {} /\ relied = [p \in Procs |-> "no"]

-----------------------------------------------------------------------------
(* Values of the configuration. *)

CurrentName(root) == IF root.current = Unset THEN Default ELSE root.current

ListProfiles(root) == [names |-> DOMAIN root.profiles, current |-> CurrentName(root)]

\* mapToProfile: what is no string is left out, and so are unknown keys.
Loaded(root, n) ==
    IF n \notin DOMAIN root.profiles THEN Nothing
    ELSE [k \in Keys |-> IF k = "extra" \/ root.profiles[n][k] \in NonText
                         THEN Unset ELSE root.profiles[n][k]]

Stored(root, n) == IF n \in DOMAIN root.profiles THEN root.profiles[n] ELSE Nothing

WithProfile(root, n, p) ==
    [current  |-> IF root.current = Unset THEN n ELSE root.current,
     profiles |-> [m \in DOMAIN root.profiles \cup {n} |->
                     IF m = n THEN p ELSE root.profiles[m]]]

\* Fault: the profile is replaced instead of merged.
SaveProfileReplaces(root, n, c) == WithProfile(root, n, c)

\* The given fields overwrite what is there; an empty host and empty headers are
\* cleared, an empty token keeps the stored one, and unknown keys stay.
SaveProfile(root, n, c) ==
    WithProfile(root, n, [k \in Keys |->
        IF c[k] # Unset \/ k \in {"host", "headers"} THEN c[k] ELSE Stored(root, n)[k]])

SetValue(root, n, k, v) == WithProfile(root, n, [Stored(root, n) EXCEPT ![k] = v])

SetCurrent(root, n) == [root EXCEPT !.current = n]

\* Fault: the current profile is left as it is.
DeleteDangling(root, n) ==
    [root EXCEPT !.profiles = [m \in DOMAIN root.profiles \ {n} |-> root.profiles[m]]]

\* The current profile, when it goes, is replaced by one that remains: the first
\* of them in the order of names, which here is any.
Delete(root, n) ==
    LET rest == DOMAIN root.profiles \ {n}
    IN  [current  |-> IF root.current # n THEN root.current
                      ELSE IF rest = {} THEN Default ELSE CHOOSE m \in rest : TRUE,
         profiles |-> [m \in rest |-> root.profiles[m]]]

\* What the user asks for with an edit, key by key: nothing else may change.
\* init and create start over with the host and the headers.
AskedOf(c, again, root) ==
    LET old == DOMAIN root.profiles
        switch == c.op = "use" \/ again
        new == IF switch THEN old
               ELSE IF c.op = "delete" THEN old \ {c.name} ELSE old \cup {c.name}
        given == IF c.op = "set" THEN {c.key} ELSE {"host"}
        dropped == IF c.op \in {"init", "create"} THEN {"headers"} ELSE {}
        value(n, k) == IF n = c.name /\ ~switch /\ k \in given THEN c.value
                       ELSE IF n \notin old \/ (n = c.name /\ ~switch /\ k \in dropped)
                       THEN Unset ELSE root.profiles[n][k]
    IN  [current |-> IF switch \/ (root.current = Unset /\ c.op # "delete") THEN c.name
                     ELSE IF c.op # "delete" \/ root.current # c.name THEN root.current
                     ELSE IF new = {} THEN Default ELSE CHOOSE n \in new : TRUE,
         profiles |-> [n \in new |-> [k \in Keys |-> value(n, k)]]]

Asked(p, root) == AskedOf(cmd[p], second[p], root)

\* What the write under way is for.
Edit(p, root) ==
    LET c == cmd[p]
    IN  CASE c.op = "use" \/ second[p]  -> SetCurrent(root, c.name)
          [] c.op = "set"    -> SetValue(root, c.name, c.key, c.value)
          [] c.op = "delete" -> Delete(root, c.name)
          [] OTHER           -> SaveProfile(root, c.name, [cfg[p] EXCEPT !["host"] = c.value])

-----------------------------------------------------------------------------
(* The commands. *)

Goto(p, label) == pc' = [pc EXCEPT ![p] = label]

End(p, how) == Goto(p, "done") /\ outcome' = [outcome EXCEPT ![p] = how]

\* A process that has looked at the file goes by what it saw from now on.
Looks(p) == stale' = stale \ {p}

\* Without --profile, the current one is meant.
Start(p) ==
    /\ pc[p] = "start"
    /\ cmd' = IF cmd[p].name = Unset
              THEN [cmd EXCEPT ![p].name = CurrentName(file)] ELSE cmd
    /\ Goto(p, CASE cmd[p].op = "login" -> "load"
                 [] cmd[p].op = "show" -> "show"
                 [] cmd[p].op \in {"use", "create", "delete"} -> "check"
                 [] OTHER -> "read")
    /\ Looks(p)
    /\ UNCHANGED <<text, file, cfg, buf, second, outcome, asked, harm, relied>>

\* auth login loads the profile; the host of the flag or of the prompt is then
\* saved together with the fields loaded here.
Load(p) ==
    /\ pc[p] = "load"
    /\ cfg' = [cfg EXCEPT ![p] = Loaded(file, cmd[p].name)]
    /\ Goto(p, "read") /\ Looks(p)
    /\ UNCHANGED <<text, file, cmd, buf, second, outcome, asked, harm, relied>>

\* config show and get, profile list and current: what the file holds, raw.
Show(p) ==
    /\ pc[p] = "show"
    /\ cfg' = [cfg EXCEPT ![p] = Stored(file, cmd[p].name)]
    /\ End(p, "ok") /\ Looks(p)
    /\ UNCHANGED <<text, file, cmd, buf, second, asked, harm, relied>>

\* The list of profiles decides whether the command is refused.
Check(p) ==
    /\ pc[p] = "check"
    /\ LET c == cmd[p]
           list == ListProfiles(file)
           here == c.name \in list.names
           refused == \/ c.op = "use" /\ ~here
                      \/ c.op = "create" /\ here
                      \/ c.op = "delete" /\ c.name = list.current
       IN  /\ IF refused THEN End(p, "refused")
              ELSE /\ Goto(p, CASE c.op = "use" -> "read"
                                [] c.op = "create" -> "prompt"
                                [] OTHER -> "clear")
                   /\ UNCHANGED outcome
           /\ relied' = [relied EXCEPT ![p] = IF c.op = "use" /\ here THEN "yes" ELSE "no"]
    /\ Looks(p)
    /\ UNCHANGED <<text, file, cmd, cfg, buf, second, asked, harm>>

\* create asks for the host, which the user may refuse to give.
Prompt(p) ==
    /\ pc[p] = "prompt"
    /\ \/ Goto(p, "read") /\ UNCHANGED outcome
       \/ End(p, "failed")
    /\ UNCHANGED <<text, file, cmd, cfg, buf, second, history>>

\* delete clears the credentials first, and goes on whatever comes of it.
Clear(p) ==
    /\ pc[p] = "clear"
    /\ Goto(p, "read")
    /\ UNCHANGED <<text, file, cmd, cfg, buf, second, outcome, history>>

\* The first half of an edit: the file is read and changed in memory.
Read(p) ==
    /\ pc[p] = "read"
    /\ buf' = [buf EXCEPT ![p] = Edit(p, file)]
    /\ harm' = IF text # "whole" THEN harm \cup {"broken"} ELSE harm
    /\ stale' = IF cmd[p].op = "login" THEN stale ELSE stale \ {p}
    /\ Goto(p, "open")
    /\ UNCHANGED <<text, file, cmd, cfg, second, outcome, asked, relied>>

\* os.WriteFile truncates the file, which readRootConfig takes for an empty
\* configuration ...
Open(p) ==
    /\ pc[p] = "open"
    /\ text' = "blank" /\ file' = Empty
    /\ Goto(p, "write")
    /\ UNCHANGED <<cmd, cfg, buf, second, outcome, history>>

\* ... and fills it.  When another process has filled it since, the longer of the
\* two texts may stick out.
Write(p) ==
    /\ pc[p] = "write"
    /\ text' \in IF text = "blank" THEN {"whole"} ELSE {"whole", "garbled"}
    /\ file' = IF text' = "whole" THEN buf[p] ELSE Empty
    /\ harm' = harm \cup {h \in {"garbled"} : text' = h} \cup {h \in {"stale"} : p \in stale}
    /\ asked' = Asked(p, asked)
    /\ stale' = stale \cup (Procs \ {p})
    /\ relied' = [q \in Procs |->
                    IF q = p /\ cmd[p].op = "create" /\ ~second[p] THEN "yes"
                    ELSE IF /\ cmd[p].op = "delete" /\ cmd[q].name = cmd[p].name
                            /\ relied[q] = "yes" /\ pc[q] # "done" THEN "gone"
                    ELSE relied[q]]
    /\ IF cmd[p].op = "create" /\ ~second[p]
       THEN Goto(p, "signin") /\ UNCHANGED outcome
       ELSE End(p, "ok")
    /\ UNCHANGED <<cmd, cfg, buf, second>>

\* create offers a login; a login that fails ends the command with the profile
\* saved and not switched to.
SignIn(p) ==
    /\ pc[p] = "signin"
    /\ \/ /\ second' = [second EXCEPT ![p] = TRUE]
          /\ Goto(p, "read") /\ UNCHANGED outcome
       \/ End(p, "failed") /\ UNCHANGED second
    /\ UNCHANGED <<text, file, cmd, cfg, buf, history>>

\* The process is killed; a write that is under way stays half done.
Crash(p) ==
    /\ pc[p] \notin {"done", "dead"}
    /\ Goto(p, "dead")
    /\ harm' = IF pc[p] = "write" THEN harm \cup {"crash"} ELSE harm
    /\ UNCHANGED <<text, file, cmd, cfg, buf, second, outcome, asked, stale, relied>>

Step(p) ==
    \/ Start(p) \/ Load(p) \/ Show(p) \/ Check(p) \/ Prompt(p) \/ Clear(p) \/ Read(p)
    \/ Open(p) \/ Write(p) \/ SignIn(p)

Terminating == (\A p \in Procs : pc[p] \in {"done", "dead"}) /\ UNCHANGED vars

Next == Terminating \/ \E p \in Procs : Step(p) \/ Crash(p)

Spec == Init /\ [][Next]_vars

-----------------------------------------------------------------------------
(* Properties. *)

Writing == {p \in Procs : pc[p] = "write"}

\* No profile, key or choice of the user gets lost as long as no command edits
\* the file from a view that another one has outdated, reads it while it is being
\* written, or dies writing it: the file is then what the edits, made one after
\* the other, ask for (the read-modify-write of SaveProfileConfig, SetProfileValue,
\* SetCurrentProfileName and DeleteProfile).
LostOnlyByOverlap == harm = {} /\ Writing = {} => file = asked

\* A profile that is current and not there is the mark of a race as well: without
\* lost edits, the profile was deleted after use or create had made sure of it
\* and before they made it current.
Dangling(root) == root.current # Unset /\ root.current \notin DOMAIN root.profiles

DanglesOnlyByRace ==
    (harm = {} /\ Writing = {} /\ Dangling(file)) =>
        \/ file.current = Default
        \/ \E p \in Procs : /\ cmd[p].op \in {"use", "create"} /\ cmd[p].name = file.current
                            /\ outcome[p] = "ok" /\ relied[p] = "gone"
=============================================================================
