----------------------------- MODULE WrapperChain -----------------------------
(***************************************************************************)
(* The wrappers that extensions put around one command (buildWrapper).     *)
(* Layers 1 .. N are wrappers, the outermost first, and layer N + 1 is the *)
(* handler of the command.  A wrapper is foreign code: it may call next    *)
(* itself or from a goroutine, more than once, late or never, drop what    *)
(* next returned and fail or panic anywhere.  A tracker per layer lets one *)
(* call through and makes the layer wait for it.                           *)
(***************************************************************************)
EXTENDS Integers

CONSTANT N  \* wrappers that match the command

ASSUME WrapperChainAssumption == N \in Nat

Wrappers == 1 .. N
Layers   == 1 .. N + 1
Handler  == N + 1
Results  == {"ok", "failed", "abort", "runtime"}

VARIABLES
    stage,      \* layer -> where its activation is
    result,     \* layer -> what it returned to its caller
    async,      \* wrapper -> a goroutine of it holds next
    callErr,    \* wrapper -> what its code returned
    called, closed, violation,  \* its tracker ...
    caller,     \* ... who is inside next: inFlight is 1 unless nobody
    below,      \* ... what next returned
    runs        \* times the command's handler was started

trackerVars == <<called, closed, violation, caller, below>>
chainVars == <<stage, result, async, callErr, trackerVars, runs>>

Active == {"factory", "wrapper", "next", "waiting", "handler"}

ChainTypeOK ==
    /\ stage \in [Layers -> Active \cup {"idle", "done"}]
    /\ result \in [Layers -> Results \cup {"none"}]
    /\ async \in [Wrappers -> BOOLEAN]
    /\ callErr \in [Wrappers -> Results \cup {"none"}]
    /\ called \in [Wrappers -> BOOLEAN]
    /\ closed \in [Wrappers -> BOOLEAN]
    /\ violation \in [Wrappers -> BOOLEAN]
    /\ caller \in [Wrappers -> {"nobody", "main", "async"}]
    /\ below \in [Wrappers -> Results \cup {"none"}]
    /\ runs \in Nat
    /\ \A i \in Layers : stage[i] = "done" => result[i] # "none"

ChainInit ==
    /\ stage = [i \in Layers |-> "idle"]
    /\ result = [i \in Layers |-> "none"]
    /\ async = [i \in Wrappers |-> FALSE]
    /\ callErr = [i \in Wrappers |-> "none"]
    /\ called = [i \in Wrappers |-> FALSE]
    /\ closed = [i \in Wrappers |-> FALSE]
    /\ violation = [i \in Wrappers |-> FALSE]
    /\ caller = [i \in Wrappers |-> "nobody"]
    /\ below = [i \in Wrappers |-> "none"]
    /\ runs = 0

-----------------------------------------------------------------------------
First(i)  == IF i = Handler THEN "handler" ELSE "factory"
Started(i) == runs' = IF i = Handler THEN runs + 1 ELSE runs

\* wrapRunE calls the outermost handler.
EnterTop ==
    /\ stage[1] = "idle"
    /\ stage' = [stage EXCEPT ![1] = First(1)]
    /\ Started(1)
    /\ UNCHANGED <<result, async, callErr, trackerVars>>

\* The factory panicked or returned nil: the layer fails at once.
FactoryFails(i) ==
    /\ stage[i] = "factory"
    /\ stage' = [stage EXCEPT ![i] = "done"]
    /\ result' = [result EXCEPT ![i] = "runtime"]
    /\ UNCHANGED <<async, callErr, trackerVars, runs>>

FactoryReturns(i) ==
    /\ stage[i] = "factory"
    /\ stage' = [stage EXCEPT ![i] = "wrapper"]
    /\ UNCHANGED <<result, async, callErr, trackerVars, runs>>

\* The wrapper's code, or the factory that makes it, hands next to a goroutine.
StartAsync(i) ==
    /\ stage[i] \in {"factory", "wrapper"}
    /\ ~async[i]
    /\ async' = [async EXCEPT ![i] = TRUE]
    /\ UNCHANGED <<stage, result, callErr, trackerVars, runs>>

CallsNext(i, who) == IF who = "main" THEN stage[i] = "wrapper" ELSE async[i]

\* The first call of next, while the tracker is open, goes to the layer below ...
NextEnters(i) == \E who \in {"main", "async"} :
    /\ CallsNext(i, who)
    /\ ~closed[i] /\ ~called[i]
    /\ called' = [called EXCEPT ![i] = TRUE]
    /\ caller' = [caller EXCEPT ![i] = who]
    /\ stage' = [stage EXCEPT ![i] = IF who = "main" THEN "next" ELSE @,
                              ![i + 1] = First(i + 1)]
    /\ Started(i + 1)
    /\ UNCHANGED <<result, async, callErr, closed, violation, below>>

\* ... and any other call fails and is remembered.
NextRejected(i) ==
    /\ \E who \in {"main", "async"} : CallsNext(i, who)
    /\ closed[i] \/ called[i]
    /\ violation' = [violation EXCEPT ![i] = TRUE]
    /\ UNCHANGED <<stage, result, async, callErr, called, closed, caller, below, runs>>

\* Fault: the error of next is kept only when the wrapper itself is told of it.
NextReturnsUnheard(i) ==
    /\ caller[i] # "nobody" /\ stage[i + 1] = "done"
    /\ below' = [below EXCEPT ![i] = IF caller[i] = "main" THEN result[i + 1] ELSE "ok"]
    /\ caller' = [caller EXCEPT ![i] = "nobody"]
    /\ stage' = [stage EXCEPT ![i] = IF caller[i] = "main" THEN "wrapper" ELSE @]
    /\ UNCHANGED <<result, async, callErr, called, closed, violation, runs>>

NextReturns(i) ==
    /\ caller[i] # "nobody" /\ stage[i + 1] = "done"
    /\ below' = [below EXCEPT ![i] = result[i + 1]]
    /\ caller' = [caller EXCEPT ![i] = "nobody"]
    /\ stage' = [stage EXCEPT ![i] = IF caller[i] = "main" THEN "wrapper" ELSE @]
    /\ UNCHANGED <<result, async, callErr, called, closed, violation, runs>>

\* The wrapper's code ends: with nil, with an error next gave it, with a rejection
\* of its own (AbortError), or with any other error or a panic.
WrapperReturns(i) ==
    /\ stage[i] = "wrapper"
    /\ \E err \in {"ok", "abort", "runtime"} \cup ({below[i]} \ {"none"}) :
         callErr' = [callErr EXCEPT ![i] = err]
    /\ closed' = [closed EXCEPT ![i] = TRUE]
    /\ stage' = [stage EXCEPT ![i] = "waiting"]
    /\ UNCHANGED <<result, async, called, violation, caller, below, runs>>

\* Its own error first, then a misuse of next, then what next returned.
Outcome(i) ==
    IF callErr[i] # "ok" THEN callErr[i]
    ELSE IF violation[i] \/ ~called[i] THEN "runtime" ELSE below[i]

\* Fault: a layer does not wait for a call that is under way.
SettleEarly(i) ==
    /\ stage[i] = "waiting"
    /\ stage' = [stage EXCEPT ![i] = "done"]
    /\ result' = [result EXCEPT ![i] =
                    IF caller[i] = "nobody" THEN Outcome(i) ELSE "ok"]
    /\ UNCHANGED <<async, callErr, trackerVars, runs>>

\* closeAndWait is over: no call is under way.
Settle(i) ==
    /\ stage[i] = "waiting"
    /\ caller[i] = "nobody"
    /\ stage' = [stage EXCEPT ![i] = "done"]
    /\ result' = [result EXCEPT ![i] = Outcome(i)]
    /\ UNCHANGED <<async, callErr, trackerVars, runs>>

\* The command's own RunE; a panic is an error.
HandlerReturns ==
    /\ stage[Handler] = "handler"
    /\ stage' = [stage EXCEPT ![Handler] = "done"]
    /\ \E r \in {"ok", "failed"} : result' = [result EXCEPT ![Handler] = r]
    /\ UNCHANGED <<async, callErr, trackerVars, runs>>

\* What a layer does of itself, as long as foreign code returns.
Proceed(i) ==
    \/ FactoryFails(i) \/ FactoryReturns(i) \/ NextReturns(i)
    \/ WrapperReturns(i) \/ Settle(i)

Calls(i) == StartAsync(i) \/ NextEnters(i) \/ NextRejected(i)

ChainStep == HandlerReturns \/ \E i \in Wrappers : Proceed(i) \/ Calls(i)

ChainNext == EnterTop \/ ChainStep

ChainSpec == ChainInit /\ [][ChainNext]_chainVars

-----------------------------------------------------------------------------
(***************************************************************************)
(* Properties.                                                             *)
(***************************************************************************)

(***************************************************************************)
(* The handler is never started twice, and a command that reports success  *)
(* ran it and the handler succeeded: whatever the wrappers drop, repeat or *)
(* delay.                                                                  *)
(***************************************************************************)
OneRealRun ==
    /\ runs <= 1
    /\ result[1] = "ok" => result[Handler] = "ok" /\ runs = 1

\* The factory of layer i failed after it had handed next to a goroutine.  The layer
\* returns at once: nobody closes its tracker or waits for it.
Escaped(i) == stage[i] = "done" /\ async[i] /\ ~closed[i]

(***************************************************************************)
(* Once the outermost layer has returned, nothing below it runs or can     *)
(* still be started: "the runtime waits until a next that was entered has  *)
(* finished" (CLI-EXTENSION-ARCHITECTURE.md:61).  The one way around it is *)
(* a factory above that failed with next in a goroutine of its own.        *)
(***************************************************************************)
QuietAfterReturn ==
    stage[1] = "done" =>
        \A j \in Layers : stage[j] \in Active =>
            \E i \in Wrappers : i < j /\ Escaped(i)
=============================================================================
