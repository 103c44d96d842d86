------------------------------ MODULE ExtensionRun ------------------------------
(***************************************************************************)
(* One CLI process with extensions (App.ExecuteWithIO): the startup hooks, *)
(* the observers, the policy and the wrapper chain around the command, and *)
(* the shutdown hooks.  Hooks are foreign code that may hang: the process  *)
(* stops waiting for one when its time is over and leaves it running.      *)
(***************************************************************************)
EXTENDS WrapperChain, Sequences, SequencesExt, FiniteSets

CONSTANTS StartHooks, StopHooks,  \* lifecycle hooks in order of registration
          Closed                  \* those whose plugin is fail-closed

ASSUME ExtensionRunAssumption ==
    /\ StartHooks \in Seq(Range(StartHooks)) /\ StopHooks \in Seq(Range(StopHooks))
    /\ IsInjective(StartHooks \o StopHooks)
    /\ Closed \subseteq Range(StartHooks \o StopHooks)

Hooks == Range(StartHooks \o StopHooks)

VARIABLES
    phase,      \* what the process does
    at,         \* the hook it is at, as a position of the emitted event's order
    hook,       \* hook -> what became of it; left: still running, not waited for
    cancelled,  \* the context of the command is done
    budgetOver, \* the time that the shutdown hooks share is over
    denied,     \* the policy forbids the command
    runErr,     \* what the command line came to ...
    told,       \* ... what the After observers were told of it ...
    stopErr,    \* ... whether a shutdown hook failed ...
    exit        \* ... and what the process reports

procVars == <<phase, at, hook, cancelled, budgetOver, denied, runErr, told, stopErr, exit>>
vars == <<chainVars, procVars>>

Verdicts == Results \cup {"none", "denied", "hook", "observer"}

TypeOK ==
    /\ ChainTypeOK
    /\ phase \in {"startup", "before", "command", "shutdown", "exited"}
    /\ at \in 1 .. Cardinality(Hooks) + 1
    /\ hook \in [Hooks -> {"waits", "runs", "ok", "failed", "left", "skipped"}]
    /\ cancelled \in BOOLEAN /\ budgetOver \in BOOLEAN /\ denied \in BOOLEAN /\ stopErr \in BOOLEAN
    /\ {runErr, told, exit} \subseteq Verdicts
    /\ phase = "exited" <=> exit # "none"

Init ==
    /\ ChainInit
    /\ phase = "startup" /\ at = 1
    /\ hook = [h \in Hooks |-> "waits"]
    /\ cancelled = FALSE /\ budgetOver = FALSE
    /\ denied \in BOOLEAN
    /\ runErr = "none" /\ told = "none" /\ stopErr = FALSE /\ exit = "none"

-----------------------------------------------------------------------------
\* Shutdown goes through the hooks in reverse.
Order == IF phase = "startup" THEN StartHooks ELSE Reverse(StopHooks)

Emitting == phase \in {"startup", "shutdown"} /\ at <= Len(Order)

\* Cancelling the command does not shorten the cleanup.
ContextDone == IF phase = "startup" THEN cancelled ELSE budgetOver

\* The hook gets a goroutine and a deadline of its own.
StartHook ==
    /\ Emitting
    /\ hook[Order[at]] = "waits"
    /\ ~ContextDone
    /\ hook' = [hook EXCEPT ![Order[at]] = "runs"]
    /\ UNCHANGED <<chainVars, phase, at, budgetOver, cancelled, denied, runErr,
                   told, stopErr, exit>>

\* The foreign code returns or panics; nobody waits any more for one that was left.
HookReturns(h) ==
    /\ hook[h] = "runs"
    /\ \E r \in {"ok", "failed"} : hook' = [hook EXCEPT ![h] = r]
    /\ UNCHANGED <<chainVars, phase, at, budgetOver, cancelled, denied, runErr,
                   told, stopErr, exit>>

\* Fault: startup hooks are waited for without a deadline.
HookTimesOutAtEnd ==
    /\ Emitting
    /\ hook[Order[at]] = "runs"
    /\ phase = "shutdown" /\ budgetOver
    /\ hook' = [hook EXCEPT ![Order[at]] = "left"]
    /\ UNCHANGED <<chainVars, phase, at, budgetOver, cancelled, denied, runErr,
                   told, stopErr, exit>>

\* Two seconds for each startup hook, and two for all shutdown hooks together.
HookTimesOut ==
    /\ Emitting
    /\ hook[Order[at]] = "runs"
    /\ phase = "shutdown" => budgetOver
    /\ hook' = [hook EXCEPT ![Order[at]] = "left"]
    /\ UNCHANGED <<chainVars, phase, at, budgetOver, cancelled, denied, runErr,
                   told, stopErr, exit>>

BudgetOver ==
    /\ phase = "shutdown"
    /\ ~budgetOver
    /\ budgetOver' = TRUE
    /\ UNCHANGED <<chainVars, phase, at, hook, cancelled, denied, runErr, told,
                   stopErr, exit>>

Cancel ==
    /\ phase # "exited"
    /\ ~cancelled
    /\ cancelled' = TRUE
    /\ UNCHANGED <<chainVars, phase, at, hook, budgetOver, denied, runErr,
                   told, stopErr, exit>>

\* No hook is started after that.
SkipHook ==
    /\ Emitting
    /\ hook[Order[at]] = "waits"
    /\ ContextDone
    /\ hook' = [hook EXCEPT ![Order[at]] = "skipped"]
    /\ UNCHANGED <<chainVars, phase, at, budgetOver, cancelled, denied, runErr,
                   told, stopErr, exit>>

Over(h) == hook[h] \in {"ok", "failed", "left", "skipped"}
Fails(h) == hook[h] \in {"failed", "left", "skipped"} /\ h \in Closed

GoShutdown == phase' = "shutdown" /\ at' = 1

\* A fail-closed hook that fails ends the startup; one that was skipped is
\* remembered while the others are skipped too.
AfterStartHook ==
    /\ phase = "startup" /\ Emitting
    /\ Over(Order[at])
    /\ runErr' = IF Fails(Order[at]) THEN "hook" ELSE runErr
    /\ \/ Fails(Order[at]) /\ hook[Order[at]] # "skipped" /\ GoShutdown
       \/ /\ Fails(Order[at]) => hook[Order[at]] = "skipped"
          /\ at' = at + 1
          /\ UNCHANGED phase
    /\ UNCHANGED <<chainVars, hook, budgetOver, cancelled, denied, told,
                   stopErr, exit>>

\* Fault: the first shutdown hook that fails ends the cleanup.
AfterStopHookFirst ==
    /\ phase = "shutdown" /\ Emitting
    /\ Over(Order[at])
    /\ stopErr' = (stopErr \/ Fails(Order[at]))
    /\ at' = IF Fails(Order[at]) THEN Len(Order) + 1 ELSE at + 1
    /\ UNCHANGED <<chainVars, phase, hook, budgetOver, cancelled, denied,
                   runErr, told, exit>>

\* At shutdown the others still have their turn.
AfterStopHook ==
    /\ phase = "shutdown" /\ Emitting
    /\ Over(Order[at])
    /\ stopErr' = (stopErr \/ Fails(Order[at]))
    /\ at' = at + 1
    /\ UNCHANGED <<chainVars, phase, hook, budgetOver, cancelled, denied,
                   runErr, told, exit>>

\* The command is run unless the startup failed.
StartupDone ==
    /\ phase = "startup"
    /\ at > Len(Order)
    /\ \/ runErr = "none" /\ phase' = "before" /\ UNCHANGED at
       \/ runErr # "none" /\ GoShutdown
    /\ UNCHANGED <<chainVars, hook, budgetOver, cancelled, denied, runErr,
                   told, stopErr, exit>>

\* A fail-closed Before observer or a selector fails, or the policy denies the
\* command: neither wrappers nor handler are entered, and After is told.
Rejected ==
    /\ phase = "before"
    /\ \E err \in {"observer"} \cup (IF denied THEN {"denied"} ELSE {}) :
         runErr' = err /\ told' = err
    /\ GoShutdown
    /\ UNCHANGED <<chainVars, hook, budgetOver, cancelled, denied, stopErr,
                   exit>>

\* Fault: the policy is only asked which commands to hide.
RunCommandUnasked ==
    /\ phase = "before"
    /\ EnterTop
    /\ phase' = "command"
    /\ UNCHANGED <<at, hook, budgetOver, cancelled, denied, runErr, told,
                   stopErr, exit>>

RunCommand ==
    /\ phase = "before"
    /\ ~denied
    /\ EnterTop
    /\ phase' = "command"
    /\ UNCHANGED <<at, hook, budgetOver, cancelled, denied, runErr, told,
                   stopErr, exit>>

\* After is told what the chain returned; a fail-closed After observer that fails
\* turns a success into an error.
CommandReturns ==
    /\ phase = "command"
    /\ stage[1] = "done"
    /\ told' = result[1]
    /\ runErr' \in {result[1]} \cup (IF result[1] = "ok" THEN {"observer"} ELSE {})
    /\ GoShutdown
    /\ UNCHANGED <<chainVars, hook, budgetOver, cancelled, denied, stopErr,
                   exit>>

\* Fault: the failure of a shutdown hook is only logged.
ExitQuietly ==
    /\ phase = "shutdown"
    /\ at > Len(Order)
    /\ exit' = runErr
    /\ phase' = "exited"
    /\ UNCHANGED <<chainVars, at, hook, budgetOver, cancelled, denied, runErr,
                   told, stopErr>>

\* The error of the command comes before that of the shutdown.
Exit ==
    /\ phase = "shutdown"
    /\ at > Len(Order)
    /\ exit' = IF runErr = "ok" /\ stopErr THEN "hook" ELSE runErr
    /\ phase' = "exited"
    /\ UNCHANGED <<chainVars, at, hook, budgetOver, cancelled, denied, runErr,
                   told, stopErr>>

\* What the process does without foreign code returning.
Process ==
    \/ StartHook \/ HookTimesOut \/ SkipHook \/ AfterStartHook \/ AfterStopHook
    \/ StartupDone \/ Rejected \/ RunCommand \/ CommandReturns \/ Exit

Next ==
    \/ Process \/ BudgetOver \/ Cancel
    \/ \E h \in Hooks : HookReturns(h)
    \/ ChainStep /\ UNCHANGED procVars

Spec == Init /\ [][Next]_vars

\* Time passes; hooks need not return, the command and its wrappers do.
FairSpec ==
    /\ Spec
    /\ WF_vars(Process) /\ WF_vars(BudgetOver)
    /\ WF_vars(HandlerReturns /\ UNCHANGED procVars)
    /\ \A i \in Wrappers : WF_vars(Proceed(i) /\ UNCHANGED procVars)

-----------------------------------------------------------------------------
(***************************************************************************)
(* Properties, besides those of the chain.                                 *)
(***************************************************************************)

(***************************************************************************)
(* A process that reports success passed every fail-closed hook, in time,  *)
(* at startup and at shutdown, was allowed to run the command, and its     *)
(* handler succeeded.                                                      *)
(***************************************************************************)
SuccessIsWhole ==
    exit = "ok" => /\ ~denied /\ result[Handler] = "ok"
                   /\ \A h \in Closed : hook[h] = "ok"

(***************************************************************************)
(* Observers are never told of a success that did not happen, and they     *)
(* hear of every command line that passed the startup, rejected or not.    *)
(***************************************************************************)
ObserversToldTruth ==
    /\ told = "ok" => result[Handler] = "ok"
    /\ phase = "exited" => told # "none" \/ \E h \in Range(StartHooks) : Fails(h)

(***************************************************************************)
(* Neither the exit code nor an observer reports a success that did not    *)
(* happen.                                                                 *)
(***************************************************************************)
NoFalseReport == SuccessIsWhole /\ ObserversToldTruth

(***************************************************************************)
(* The handler of a denied command never runs, and no handler runs after a *)
(* fail-closed startup hook failed or is still running.                    *)
(***************************************************************************)
HandlerIsGated ==
    runs > 0 => /\ ~denied
                /\ \A h \in Range(StartHooks) \cap Closed : hook[h] = "ok"

(***************************************************************************)
(* Every shutdown hook has its turn, whatever the command and the other    *)
(* hooks did, unless the shared time was over before it.                   *)
(***************************************************************************)
CleanupIsTried ==
    phase = "exited" => \A h \in Range(StopHooks) :
        hook[h] # "waits" /\ (hook[h] = "skipped" => budgetOver)

\* The process ends although any hook may hang for ever.
ExitsDespiteHangs == <>(phase = "exited")
=============================================================================
