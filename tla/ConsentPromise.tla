---------------------------- MODULE ConsentPromise ----------------------------
(***************************************************************************)
(* What the diagnostics promise their user, without locks, processes or    *)
(* settings files: `telemetry disable` is one atomic step.  At that        *)
(* instant nothing is pending and nothing is being sent, and from then on  *)
(* no event of an earlier epoch is accepted.  TelemetryConsent implements  *)
(* this specification.                                                     *)
(***************************************************************************)
EXTENDS Integers

CONSTANT Commands

VARIABLES pending,   \* events kept on the machine
          outgoing,  \* events in a request that is about to leave
          epoch,     \* the consent an event's command started under
          cleared    \* the latest consent change that cleared the queue

promiseVars == <<pending, outgoing, epoch, cleared>>

Init ==
    /\ pending = {}
    /\ outgoing = {}
    /\ epoch = [c \in Commands |-> 0]
    /\ cleared = 0

\* A command starts: only an event nobody knows yet gets an epoch.
Tag(c) ==
    /\ c \notin pending \cup outgoing
    /\ epoch'[c] \in Nat
    /\ epoch' = [epoch EXCEPT ![c] = epoch'[c]]
    /\ UNCHANGED <<pending, outgoing, cleared>>

Accept(c) ==
    /\ epoch[c] >= cleared
    /\ pending' = pending \cup {c}
    /\ UNCHANGED <<outgoing, epoch, cleared>>

Drop(c) ==
    /\ pending' = pending \ {c}
    /\ UNCHANGED <<outgoing, epoch, cleared>>

\* A request is put together from pending events, or requests have left.
Send ==
    /\ outgoing' \subseteq outgoing \cup pending
    /\ UNCHANGED <<pending, epoch, cleared>>

Withdraw ==
    /\ pending = {}
    /\ outgoing = {}
    /\ cleared' \in Nat
    /\ cleared' > cleared
    /\ UNCHANGED <<pending, outgoing, epoch>>

Next ==
    \/ \E c \in Commands : Tag(c) \/ Accept(c) \/ Drop(c)
    \/ Send
    \/ Withdraw

Spec == Init /\ [][Next]_promiseVars
=============================================================================
