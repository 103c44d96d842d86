-------------------------------- MODULE Handoff --------------------------------
(***************************************************************************)
(* The commands of the CLI API: processes of one profile that read the     *)
(* server's CLI config through the snapshot they share on disk             *)
(* (ai-handoff availability), set the preference it depends on, or create  *)
(* a link.  A request may be carried out long after its client gave up on  *)
(* it and sent another one.                                                *)
(***************************************************************************)
EXTENDS Naturals, FiniteSets

CONSTANTS
    Procs,
    Commands,      \* the commands that may be given to the processes
    MaxRetries,    \* DefaultMaxRetries
    MaxVersion,    \* bound: changes of the config from elsewhere stop here
    None

Ops == {"availability", "link", "auto", "off"}

ASSUME HandoffAssumption ==
    /\ None \notin Procs
    /\ Commands \subseteq [Procs -> Ops]
    /\ MaxRetries \in Nat /\ MaxVersion \in Nat

VARIABLES
    op, pc,
    attempt,   \* process -> retries of its call so far
    retried,   \* process -> this attempt follows a 401 and a refresh
    got,       \* process -> the version of the config that its answer is based on
    result,    \* process -> what it reports
    net,       \* requests that the server has yet to see
    version,   \* the server's config ...
    open,      \* ... and whether it allows handoff
    links,     \* the idempotency keys under which the server created links
    cache,     \* the snapshot on disk
    known,     \* history: the newest change of which a finished command told ...
    racing,    \* ... the readers that held an answer while a snapshot was cleared ...
    unclear    \* ... and whether clearing it ever failed

serverVars == <<version, open, links>>
historyVars == <<known, racing, unclear>>
vars == <<op, pc, attempt, retried, got, result, net, serverVars, cache, historyVars>>

\* The current request of a process.
Request(p) == [by |-> p, attempt |-> attempt[p], retried |-> retried[p]]

Requests == [by : Procs, attempt : 0 .. MaxRetries, retried : BOOLEAN]

NoCache == [version |-> 0, fresh |-> FALSE, by |-> None]

CacheHit == cache # NoCache /\ cache.fresh

TypeOK ==
    /\ op \in [Procs -> Ops]
    /\ pc \in [Procs -> {"start", "send", "wait", "refresh", "backoff", "store", "clear", "done"}]
    /\ attempt \in [Procs -> 0 .. MaxRetries]
    /\ retried \in [Procs -> BOOLEAN]
    /\ got \in [Procs -> Nat]
    /\ result \in [Procs -> {"none", "local", "ok", "rejected", "error"}]
    /\ net \subseteq Requests
    /\ version \in Nat /\ open \in BOOLEAN
    /\ links \subseteq [by : Procs, key : Requests \cup {None}]
    /\ cache \in [version : Nat, fresh : BOOLEAN, by : Procs \cup {None}]
    /\ known \in Nat /\ racing \subseteq Procs /\ unclear \in BOOLEAN

Init ==
    /\ op \in Commands
    /\ pc = [p \in Procs |-> "start"]
    /\ attempt = [p \in Procs |-> 0] /\ retried = [p \in Procs |-> FALSE]
    /\ got = [p \in Procs |-> 0] /\ result = [p \in Procs |-> "none"]
    /\ net = {} /\ version = 1 /\ open = TRUE /\ links = {}
    /\ cache = NoCache
    /\ known = 0 /\ racing = {} /\ unclear = FALSE

End(p, r) == pc' = [pc EXCEPT ![p] = "done"] /\ result' = [result EXCEPT ![p] = r]

Goto(p, l) == pc' = [pc EXCEPT ![p] = l] /\ result' = result

-----------------------------------------------------------------------------
(* The beginning and the end of a command, and the snapshot. *)

\* Switched off by the environment, a dry run or invalid arguments.
StayLocal(p) ==
    /\ pc[p] = "start"
    /\ End(p, "local")
    /\ UNCHANGED <<op, attempt, retried, got, net, serverVars, cache, historyVars>>

\* Only availability looks at the snapshot; create-link always asks the server.
Start(p) ==
    /\ pc[p] = "start"
    /\ IF op[p] = "availability" /\ CacheHit
       THEN End(p, "ok") /\ got' = [got EXCEPT ![p] = cache.version]
       ELSE Goto(p, "send") /\ got' = got
    /\ UNCHANGED <<op, attempt, retried, net, serverVars, cache, historyVars>>

\* The file is replaced as a whole; a failure to write it is ignored.
Store(p) ==
    /\ pc[p] = "store"
    /\ cache' \in {cache, [version |-> got[p], fresh |-> TRUE, by |-> p]}
    /\ End(p, "ok")
    /\ UNCHANGED <<op, attempt, retried, got, net, serverVars, historyVars>>

Report(p) ==
    /\ End(p, IF op[p] = "link" THEN "rejected" ELSE "ok")
    /\ known' = IF got[p] > known THEN got[p] ELSE known
    /\ racing' = racing \cup {q \in Procs : pc[q] = "store"}

\* Fault: the command reports without removing the snapshot.
ClearNothing(p) ==
    /\ pc[p] = "clear"
    /\ Report(p)
    /\ UNCHANGED <<op, attempt, retried, got, net, serverVars, cache, unclear>>

\* After a change of the preference or a rejected link; a failure is ignored.
Clear(p) ==
    /\ pc[p] = "clear"
    /\ \/ cache' = NoCache /\ unclear' = unclear
       \/ cache' = cache /\ unclear' = TRUE
    /\ Report(p)
    /\ UNCHANGED <<op, attempt, retried, got, net, serverVars>>

\* The snapshot grows older than its hour.
Expire ==
    /\ CacheHit
    /\ cache' = [version |-> cache.version, fresh |-> FALSE, by |-> cache.by]
    /\ UNCHANGED <<op, pc, attempt, retried, got, result, net, serverVars, historyVars>>

-----------------------------------------------------------------------------
(* Client.call: the attempts, each of them repeated once after a 401. *)

Send(p) ==
    /\ pc[p] = "send"
    /\ net' = net \cup {Request(p)}
    /\ Goto(p, "wait")
    /\ UNCHANGED <<op, attempt, retried, got, serverVars, cache, historyVars>>

\* A timeout, a network error, a 5xx or a 429, whatever became of the request.
Fail(p) ==
    /\ pc[p] = "wait"
    /\ IF attempt[p] < MaxRetries THEN Goto(p, "backoff") ELSE End(p, "error")
    /\ UNCHANGED <<op, attempt, retried, got, net, serverVars, cache, historyVars>>

\* Fault: the attempts are not counted.
BackoffFree(p) ==
    /\ pc[p] = "backoff"
    /\ Goto(p, "send")
    /\ retried' = [retried EXCEPT ![p] = FALSE]
    /\ UNCHANGED <<op, attempt, got, net, serverVars, cache, historyVars>>

Backoff(p) ==
    /\ pc[p] = "backoff"
    /\ Goto(p, "send")
    /\ attempt' = [attempt EXCEPT ![p] = @ + 1]
    /\ retried' = [retried EXCEPT ![p] = FALSE]
    /\ UNCHANGED <<op, got, net, serverVars, cache, historyVars>>

\* Any other status, or an answer that cannot be decoded.
FailFast(p) ==
    /\ pc[p] = "wait"
    /\ End(p, "error")
    /\ UNCHANGED <<op, attempt, retried, got, net, serverVars, cache, historyVars>>

\* 401: the server did not carry the request out.
Unauthorized(p) ==
    /\ pc[p] = "wait" /\ Request(p) \in net
    /\ net' = net \ {Request(p)}
    /\ IF retried[p] THEN End(p, "error") ELSE Goto(p, "refresh")
    /\ UNCHANGED <<op, attempt, retried, got, serverVars, cache, historyVars>>

Refresh(p) ==
    /\ pc[p] = "refresh"
    /\ \/ Goto(p, "send") /\ retried' = [retried EXCEPT ![p] = TRUE]
       \/ End(p, "error") /\ retried' = retried
    /\ UNCHANGED <<op, attempt, got, net, serverVars, cache, historyVars>>

\* The context is cancelled or the process killed, at any point.
Interrupted(p) ==
    /\ pc[p] \notin {"start", "done"}
    /\ End(p, "error")
    /\ UNCHANGED <<op, attempt, retried, got, net, serverVars, cache, historyVars>>

-----------------------------------------------------------------------------
(* The server, which sees a request once, or never. *)

\* Fault: each request has a key of its own.
KeyPerRequest(r) == [by |-> r.by, key |-> r]

\* One key for all requests of a create-link call.
Key(r) == [by |-> r.by, key |-> None]

\* What carrying out a request does; under a key it has seen before, the server
\* creates no other link.
Effect(r) ==
    LET o == op[r.by]
    IN  /\ version' = IF o \in {"auto", "off"} THEN version + 1 ELSE version
        /\ open' = IF o \in {"auto", "off"} THEN o = "auto" ELSE open
        /\ links' = IF o = "link" /\ open THEN links \cup {Key(r)} ELSE links

\* Where the client goes on with the answer.
Continue(p) ==
    CASE op[p] = "availability"   -> Goto(p, "store")
      [] op[p] = "link" /\ open   -> End(p, "ok")
      [] OTHER                    -> Goto(p, "clear")

\* The answer reaches a client that still waits for it, or nobody.
Serve(r) ==
    /\ r \in net /\ net' = net \ {r}
    /\ Effect(r)
    /\ \/ /\ pc[r.by] = "wait" /\ Request(r.by) = r
          /\ Continue(r.by)
          /\ got' = [got EXCEPT ![r.by] = version']
       \/ UNCHANGED <<pc, result, got>>
    /\ UNCHANGED <<op, attempt, retried, cache, historyVars>>

Lose(r) ==
    /\ r \in net /\ net' = net \ {r}
    /\ UNCHANGED <<op, pc, attempt, retried, got, result, serverVars, cache, historyVars>>

\* The user changes something on another device, or an entitlement changes.
Elsewhere ==
    /\ version < MaxVersion
    /\ version' = version + 1 /\ open' \in BOOLEAN
    /\ UNCHANGED <<op, pc, attempt, retried, got, result, net, links, cache, historyVars>>

-----------------------------------------------------------------------------
\* What a running command does of its own; in the wait, its timeout.
Run(p) == Store(p) \/ Clear(p) \/ Send(p) \/ Fail(p) \/ Backoff(p) \/ Refresh(p)

Terminating ==
    /\ \A p \in Procs : pc[p] = "done"
    /\ UNCHANGED vars

Next ==
    \/ \E p \in Procs : \/ StayLocal(p)
                        \/ Start(p)
                        \/ Store(p)
                        \/ Clear(p)
                        \/ Send(p)
                        \/ Fail(p)
                        \/ Backoff(p)
                        \/ FailFast(p)
                        \/ Unauthorized(p)
                        \/ Refresh(p)
                        \/ Interrupted(p)
    \/ \E r \in net : Serve(r) \/ Lose(r)
    \/ Expire
    \/ Elsewhere
    \/ Terminating

Spec == Init /\ [][Next]_vars

FairSpec == Spec /\ \A p \in Procs : WF_vars(Run(p))

-----------------------------------------------------------------------------
(* Properties *)

\* However often a create-link is retried, after a timeout, a 5xx or a 401, and
\* whatever requests arrive late, the server creates at most one link for it:
\* all its requests carry one key (CreateLink; README.md:315).
LinkOnce ==
    \A p \in Procs : Cardinality({l \in links : l.by = p}) <= 1

\* The snapshot that is served never predates a change of which a finished
\* command told: a preference that was set, or a link that was rejected
\* (executePreference, executeHandoff).
ServedIsCurrent == (CacheHit /\ ~unclear) => cache.version >= known

\* There is one way for it to be older: a reader that had its answer before the
\* change and stored it after the snapshot had been cleared.
StaleOnlyByRace == ServedIsCurrent \/ cache.by \in racing

\* Every command ends, after a bounded number of requests (Client.call).
CommandsEnd == \A p \in Procs : pc[p] # "start" ~> pc[p] = "done"

=============================================================================
