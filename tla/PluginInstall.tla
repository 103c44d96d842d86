----------------------------- MODULE PluginInstall -----------------------------
(***************************************************************************)
(* The installation of the plugins at the start of a process (Install):    *)
(* each is asked for its capabilities, name and version, and fills a       *)
(* registrar of its own, in a goroutine that may outlive its time.  What   *)
(* the registrar has then is taken over as a whole or not at all.  One     *)
(* plugin that cannot be installed is left out, or ends the start.         *)
(***************************************************************************)
EXTENDS Naturals, Sequences, FiniteSets

CONSTANT Given     \* the plugins a build may have: sequences of Plugin

Plugin(name, open, restricts) == [name |-> name, open |-> open, restricts |-> restricts]

ASSUME PluginAssumption ==
    Given \subseteq Seq([name : STRING, open : BOOLEAN, restricts : BOOLEAN])

VARIABLES
    plugins,    \* those of this build
    turn, ipc,  \* the one whose turn it is, and how far it is
    seen,       \* the names that have been taken
    running,    \* the plugins whose Install has been called
    staged,     \* what the registrar of each has
    frozen,     \* the registrars that take nothing any more
    plugged,    \* what the process has of each plugin
    fate

pluginVars == <<plugins, turn, ipc, seen, running, staged, frozen, plugged, fate>>

\* A hook, a rule that restricts commands, or a call that is noted as an error.
Registrations == {"hook", "rule", "bad"}

PluginInit ==
    /\ plugins \in Given
    /\ turn = 1 /\ ipc = (IF plugins = <<>> THEN "installed" ELSE "capabilities")
    /\ seen = {} /\ running = {} /\ frozen = {}
    /\ staged = [i \in DOMAIN plugins |-> {}] /\ plugged = staged
    /\ fate = [i \in DOMAIN plugins |-> "none"]

NextPlugin(how) ==
    /\ fate' = [fate EXCEPT ![turn] = how]
    /\ turn' = turn + 1
    /\ ipc' = IF turn = Len(plugins) THEN "installed" ELSE "capabilities"

StartFails == ipc' = "failed" /\ UNCHANGED <<turn, fate>>

\* A fail-open plugin is skipped; any other ends the start.
GiveUp == IF plugins[turn].open THEN NextPlugin("skipped") ELSE StartFails

\* They come in time and make sense, or nothing is known of what a failure means.
Capabilities ==
    /\ ipc = "capabilities"
    /\ \/ StartFails
       \/ /\ ~(plugins[turn].restricts /\ plugins[turn].open)
          /\ ipc' = "metadata" /\ UNCHANGED <<turn, fate>>
    /\ UNCHANGED <<plugins, seen, running, staged, frozen, plugged>>

\* The name or the version does not come in time: the name is not taken then.
MetadataFails ==
    /\ ipc = "metadata"
    /\ GiveUp
    /\ UNCHANGED <<plugins, seen, running, staged, frozen, plugged>>

\* A name that is taken ends the start, whatever became of the one who has it.
Metadata ==
    /\ ipc = "metadata"
    /\ IF plugins[turn].name \in seen THEN StartFails
       ELSE ipc' = "check" /\ UNCHANGED <<turn, fate>>
    /\ seen' = seen \cup {plugins[turn].name}
    /\ UNCHANGED <<plugins, running, staged, frozen, plugged>>

\* The name or the version is malformed, or the plugin needs another CLI.
Unfit ==
    /\ ipc = "check"
    /\ GiveUp
    /\ UNCHANGED <<plugins, seen, running, staged, frozen, plugged>>

CallInstall ==
    /\ ipc = "check" /\ ipc' = "install"
    /\ running' = running \cup {turn}
    /\ UNCHANGED <<plugins, turn, seen, staged, frozen, plugged, fate>>

\* Install, or a goroutine that it has left behind, calls its registrar.
Register(i) ==
    /\ i \in running
    /\ \E r \in Registrations :
         staged' = IF i \in frozen THEN staged ELSE [staged EXCEPT ![i] = @ \cup {r}]
    /\ UNCHANGED <<plugins, turn, ipc, seen, running, frozen, plugged, fate>>

\* Install reports an error, panics, or has no time left.
InstallFails ==
    /\ ipc = "install"
    /\ frozen' = frozen \cup {turn}
    /\ GiveUp
    /\ UNCHANGED <<plugins, seen, running, staged, plugged>>

Restrictors == {i \in DOMAIN plugins : "rule" \in plugged[i]}

\* Nothing was wrong with it, and it restricts if and only if it said so, alone.
Sound(i) ==
    /\ "bad" \notin staged[i]
    /\ plugins[i].restricts <=> "rule" \in staged[i]
    /\ "rule" \in staged[i] => Restrictors = {}

TakeOver ==
    \/ /\ Sound(turn)
       /\ plugged' = [plugged EXCEPT ![turn] = staged[turn]]
       /\ NextPlugin("active")
    \/ ~Sound(turn) /\ GiveUp /\ UNCHANGED plugged

\* Fault: the registrar stays open for what comes late.
InstallReturnsOpen ==
    /\ ipc = "install" /\ TakeOver
    /\ UNCHANGED <<plugins, seen, running, staged, frozen>>

InstallReturns ==
    /\ ipc = "install"
    /\ frozen' = frozen \cup {turn}
    /\ TakeOver
    /\ UNCHANGED <<plugins, seen, running, staged>>

PluginStep ==
    \/ Capabilities \/ MetadataFails \/ Metadata \/ Unfit
    \/ CallInstall \/ InstallFails \/ InstallReturns

RegisterStep == \E i \in DOMAIN plugins : Register(i)

PluginSpec == PluginInit /\ [][PluginStep \/ RegisterStep]_pluginVars

-----------------------------------------------------------------------------
(* Properties. *)

Active == {i \in DOMAIN plugins : fate[i] = "active"}

\* A registration that the registrar took without complaint is in force, and one of
\* a plugin that was given up on is not, however late its goroutines go on registering.
TakenIsInForce ==
    \A i \in DOMAIN plugins : plugged[i] = IF i \in Active THEN staged[i] ELSE {}

\* A start that succeeds has every plugin but fail-open ones that failed: whoever
\* declared that it restricts commands does, nobody else does, and no name is there
\* twice.
StartIsComplete ==
    ipc = "installed" =>
        /\ \A i \in DOMAIN plugins \ Active : plugins[i].open
        /\ Restrictors = {i \in DOMAIN plugins : plugins[i].restricts}
        /\ Cardinality(Restrictors) <= 1
        /\ \A i, j \in Active : plugins[i].name = plugins[j].name => i = j

\* Plugins are installed as a whole or not at all, and none of the fail-closed is left
\* out, in spite of metadata and Install that fail, panic, hang or come late (Install).
InstalledWhole == TakenIsInForce /\ StartIsComplete
=============================================================================
