----------------------------- MODULE HandoffProofs -----------------------------
(* One link for each command, and what the shared snapshot can hold, for any   *)
(* number of processes and retries.                                            *)
EXTENDS Handoff, FiniteSetTheorems, TLAPS

\* Every link was created under the one key of its command.
KeyInv == \A l \in links : l \in [by : Procs, key : {None}]

\* Nobody knows of a change that the server has not made, and a process that is
\* about to report or to store has its answer from the server.
AnswerInv ==
    /\ known <= version
    /\ \A p \in Procs : got[p] <= version
    /\ \A p \in Procs : pc[p] = "store" => got[p] >= known \/ p \in racing \/ unclear

\* A process that waits before a retry has one left.
CountInv == \A p \in Procs : pc[p] = "backoff" => attempt[p] < MaxRetries

CacheBehind == cache.version <= version

IInv == TypeOK /\ KeyInv /\ AnswerInv /\ CacheBehind /\ CountInv /\ StaleOnlyByRace

LEMMA UpdateType ==
    ASSUME NEW S, NEW T, NEW f \in [S -> T], NEW x \in S, NEW y \in T
    PROVE  [f EXCEPT ![x] = y] \in [S -> T]
  OBVIOUS

Snapshots == [version : Nat, fresh : BOOLEAN, by : Procs \cup {None}]

LEMMA SnapshotType ==
    ASSUME NEW v \in Nat, NEW f \in BOOLEAN, NEW x \in Procs \cup {None}
    PROVE  [version |-> v, fresh |-> f, by |-> x] \in Snapshots
  BY DEF Snapshots

LEMMA InitInv == Init => IInv
<1> SUFFICES ASSUME Init
             PROVE  IInv
  OBVIOUS
<1>1. op \in [Procs -> Ops] /\ links = {} /\ net = {} /\ racing = {}
  BY HandoffAssumption DEF Init
<1>2. /\ pc \in [Procs -> {"start", "send", "wait", "refresh", "backoff", "store", "clear", "done"}]
      /\ attempt \in [Procs -> 0 .. MaxRetries] /\ got \in [Procs -> Nat]
      /\ result \in [Procs -> {"none", "local", "ok", "rejected", "error"}]
  BY HandoffAssumption DEF Init
<1>3. retried \in [Procs -> BOOLEAN] /\ open \in BOOLEAN /\ unclear \in BOOLEAN
  BY DEF Init
<1>4. version \in Nat /\ known \in Nat /\ cache \in [version : Nat, fresh : BOOLEAN, by : Procs \cup {None}]
  BY DEF Init, NoCache
<1>5. TypeOK
  BY <1>1, <1>2, <1>3, <1>4 DEF TypeOK
<1>6. KeyInv /\ AnswerInv /\ CacheBehind /\ CountInv
  BY <1>1 DEF Init, KeyInv, AnswerInv, CacheBehind, CountInv, NoCache
<1>7. StaleOnlyByRace
  BY DEF Init, StaleOnlyByRace, ServedIsCurrent, CacheHit
<1> QED
  BY <1>5, <1>6, <1>7 DEF IInv

\* What a step of a process does to the parts that are typed alike.
Labels == {"start", "send", "wait", "refresh", "backoff", "store", "clear", "done"}
Outcomes == {"none", "local", "ok", "rejected", "error"}

LEMMA GotoType ==
    ASSUME TypeOK, NEW p \in Procs, NEW l \in Labels, Goto(p, l)
    PROVE  /\ pc' \in [Procs -> Labels] /\ result' \in [Procs -> Outcomes]
           /\ \A q \in Procs : pc'[q] = IF q = p THEN l ELSE pc[q]
  BY DEF TypeOK, Goto, Labels, Outcomes

LEMMA EndType ==
    ASSUME TypeOK, NEW p \in Procs, NEW r \in Outcomes, End(p, r)
    PROVE  /\ pc' \in [Procs -> Labels] /\ result' \in [Procs -> Outcomes]
           /\ \A q \in Procs : pc'[q] = IF q = p THEN "done" ELSE pc[q]
  BY DEF TypeOK, End, Labels, Outcomes

LEMMA RequestType ==
    ASSUME TypeOK, NEW p \in Procs
    PROVE  Request(p) \in Requests
  BY DEF TypeOK, Request, Requests

\* A step of the client alone that neither stores nor clears: it does not reach
\* "store", and leaves the server, the snapshot and the history as they are.
Private ==
    /\ pc' \in [Procs -> Labels] /\ result' \in [Procs -> Outcomes]
    /\ \A q \in Procs : pc'[q] = "store" => pc[q] = "store"
    /\ \A q \in Procs : pc'[q] = "backoff" => attempt'[q] < MaxRetries
    /\ attempt' \in [Procs -> 0 .. MaxRetries] /\ retried' \in [Procs -> BOOLEAN]
    /\ net' \subseteq Requests
    /\ UNCHANGED <<op, got, serverVars, cache, historyVars>>

LEMMA PrivateStep == IInv /\ Private => IInv'
<1> SUFFICES ASSUME IInv, Private
             PROVE  IInv'
  OBVIOUS
<1>1. TypeOK'
  BY DEF IInv, TypeOK, Private, Labels, Outcomes, serverVars, historyVars
<1>2. KeyInv'
  BY DEF IInv, KeyInv, Private, serverVars
<1>3. AnswerInv' /\ CacheBehind'
  BY DEF IInv, AnswerInv, CacheBehind, Private, serverVars, historyVars
<1>4. StaleOnlyByRace'
  BY DEF IInv, StaleOnlyByRace, ServedIsCurrent, CacheHit, NoCache, Private, historyVars
<1>5. CountInv'
  BY DEF CountInv, Private
<1> QED
  BY <1>1, <1>2, <1>3, <1>4, <1>5 DEF IInv

LEMMA PrivateSteps ==
    ASSUME IInv, NEW p \in Procs,
           \/ StayLocal(p) \/ Send(p) \/ Fail(p) \/ Backoff(p) \/ FailFast(p)
           \/ Unauthorized(p) \/ Refresh(p) \/ Interrupted(p)
    PROVE  IInv'
<1>00. TypeOK /\ \A q \in Procs : pc[q] = "backoff" => attempt[q] < MaxRetries
  BY DEF IInv, CountInv
<1>0. /\ pc \in [Procs -> Labels] /\ attempt \in [Procs -> 0 .. MaxRetries]
      /\ retried \in [Procs -> BOOLEAN] /\ net \subseteq Requests
      /\ MaxRetries \in Nat
  BY <1>00, HandoffAssumption DEF TypeOK, Labels
<1>1. CASE StayLocal(p)
  <2>1. End(p, "local") /\ "local" \in Outcomes
    BY <1>1 DEF StayLocal, Outcomes
  <2> QED
    BY <1>00, <1>0, <1>1, <2>1, EndType, PrivateStep DEF StayLocal, Private
<1>2. CASE Send(p)
  <2>1. Goto(p, "wait") /\ "wait" \in Labels
    BY <1>2 DEF Send, Labels
  <2> QED
    BY <1>00, <1>0, <1>2, <2>1, GotoType, RequestType, PrivateStep DEF Send, Private
<1>3. CASE Fail(p)
  <2>1. \/ Goto(p, "backoff") /\ "backoff" \in Labels /\ attempt[p] < MaxRetries
        \/ End(p, "error") /\ "error" \in Outcomes
    BY <1>3 DEF Fail, Labels, Outcomes
  <2>2. UNCHANGED <<op, attempt, retried, got, net, serverVars, cache, historyVars>>
    BY <1>3 DEF Fail
  <2>3. /\ pc' \in [Procs -> Labels] /\ result' \in [Procs -> Outcomes]
        /\ \A q \in Procs : pc'[q] = "store" => pc[q] = "store"
        /\ \A q \in Procs : pc'[q] = "backoff" => attempt[q] < MaxRetries
    <3>0. "backoff" \in Labels /\ "error" \in Outcomes
      BY DEF Labels, Outcomes
    <3>1. CASE Goto(p, "backoff") /\ attempt[p] < MaxRetries
      BY <1>00, <3>0, <3>1, GotoType
    <3>2. CASE End(p, "error")
      BY <1>00, <3>0, <3>2, EndType
    <3> QED
      BY <2>1, <3>1, <3>2
  <2> QED
    BY <1>0, <2>2, <2>3, PrivateStep DEF Private
<1>4. CASE Backoff(p)
  <2>1. /\ Goto(p, "send") /\ "send" \in Labels
        /\ retried' = [retried EXCEPT ![p] = FALSE]
        /\ attempt[p] \in 0 .. MaxRetries /\ attempt[p] < MaxRetries
    BY <1>00, <1>0, <1>4 DEF Backoff, Labels
  <2>2. retried' \in [Procs -> BOOLEAN]
    BY <1>0, <2>1, UpdateType, Zenon
  <2>3. /\ attempt' = [attempt EXCEPT ![p] = attempt[p] + 1]
        /\ attempt' \in [Procs -> 0 .. MaxRetries]
    BY <1>0, <1>4, <2>1 DEF Backoff
  <2> QED
    BY <1>00, <1>0, <1>4, <2>1, <2>2, <2>3, GotoType, PrivateStep DEF Backoff, Private
<1>5. CASE FailFast(p) \/ Interrupted(p)
  <2>1. End(p, "error") /\ "error" \in Outcomes
    BY <1>5 DEF FailFast, Interrupted, Outcomes
  <2> QED
    BY <1>00, <1>0, <1>5, <2>1, EndType, PrivateStep DEF FailFast, Interrupted, Private
<1>6. CASE Unauthorized(p)
  <2>1. \/ Goto(p, "refresh") /\ "refresh" \in Labels
        \/ End(p, "error") /\ "error" \in Outcomes
    BY <1>6 DEF Unauthorized, Labels, Outcomes
  <2>2. net' \subseteq Requests
    BY <1>00, <1>0, <1>6 DEF Unauthorized
  <2> QED
    BY <1>00, <1>0, <1>6, <2>1, <2>2, GotoType, EndType, PrivateStep DEF Unauthorized, Private
<1>7. CASE Refresh(p)
  <2>1. /\ \/ Goto(p, "send") /\ "send" \in Labels
           \/ End(p, "error") /\ "error" \in Outcomes
        /\ retried' = [retried EXCEPT ![p] = TRUE] \/ retried' = retried
    BY <1>7 DEF Refresh, Labels, Outcomes
  <2>2. retried' \in [Procs -> BOOLEAN]
    BY <1>0, <2>1, UpdateType, Zenon
  <2> QED
    BY <1>00, <1>0, <1>7, <2>1, <2>2, GotoType, EndType, PrivateStep DEF Refresh, Private
<1> QED
  BY <1>1, <1>2, <1>3, <1>4, <1>5, <1>6, <1>7

-----------------------------------------------------------------------------
(* The steps that touch the snapshot, the history or the server. *)

LEMMA StartStep == ASSUME IInv, NEW p \in Procs, Start(p) PROVE IInv'
<1>1. /\ UNCHANGED <<op, attempt, retried, net, version, open, links, cache, known, racing, unclear>>
      /\ TypeOK
  BY DEF Start, serverVars, historyVars, IInv
<1>2. /\ pc' \in [Procs -> Labels] /\ result' \in [Procs -> Outcomes]
      /\ \A q \in Procs : pc'[q] \in {"store", "backoff"} => pc'[q] = pc[q]
  <2>1. \/ End(p, "ok") /\ "ok" \in Outcomes
        \/ Goto(p, "send") /\ "send" \in Labels
    BY DEF Start, Labels, Outcomes
  <2> QED
    BY <1>1, <2>1, EndType, GotoType
<1>3. /\ got' \in [Procs -> Nat]
      /\ \A q \in Procs : got'[q] = got[q] \/ (q = p /\ got'[q] = cache.version)
      /\ pc'[p] # "store"
  <2>1. got \in [Procs -> Nat] /\ cache.version \in Nat /\ pc \in [Procs -> Labels]
    BY <1>1 DEF TypeOK, Labels
  <2>2. got' = [got EXCEPT ![p] = cache.version] \/ got' = got
    BY DEF Start
  <2>3. pc' = [pc EXCEPT ![p] = "done"] \/ pc' = [pc EXCEPT ![p] = "send"]
    BY DEF Start, End, Goto
  <2> QED
    BY <2>1, <2>2, <2>3
<1>4. TypeOK'
  BY <1>1, <1>2, <1>3 DEF TypeOK, Labels, Outcomes
<1>5. KeyInv' /\ CountInv'
  BY <1>1, <1>2 DEF IInv, KeyInv, CountInv
<1>6. cache.version <= version
  BY DEF IInv, CacheBehind
<1>7. AnswerInv' /\ CacheBehind'
  BY <1>1, <1>2, <1>3, <1>6 DEF IInv, AnswerInv, CacheBehind
<1>8. StaleOnlyByRace'
  BY <1>1 DEF IInv, StaleOnlyByRace, ServedIsCurrent, CacheHit, NoCache
<1> QED
  BY <1>4, <1>5, <1>7, <1>8 DEF IInv

LEMMA StoreStep == ASSUME IInv, NEW p \in Procs, Store(p) PROVE IInv'
<1>1. /\ UNCHANGED <<op, attempt, retried, got, net, version, open, links, known, racing, unclear>>
      /\ TypeOK /\ pc[p] = "store" /\ End(p, "ok")
  BY DEF Store, serverVars, historyVars, IInv
<1>2. /\ pc' \in [Procs -> Labels] /\ result' \in [Procs -> Outcomes]
      /\ \A q \in Procs : pc'[q] \in {"store", "backoff"} => pc'[q] = pc[q]
  BY <1>1, EndType DEF Outcomes
<1>3. cache' = cache \/ cache' = [version |-> got[p], fresh |-> TRUE, by |-> p]
  BY DEF Store
<1>4. got[p] \in Nat /\ got[p] <= version /\ (got[p] >= known \/ p \in racing \/ unclear)
  BY <1>1 DEF IInv, TypeOK, AnswerInv
<1>5. TypeOK'
  <2>1. [version |-> got[p], fresh |-> TRUE, by |-> p] \in Snapshots
    BY <1>4, SnapshotType
  <2>2. cache \in Snapshots
    BY <1>1 DEF TypeOK, Snapshots
  <2>3. cache' \in Snapshots
    BY <1>3, <2>1, <2>2, Zenon
  <2> QED
    BY <1>1, <1>2, <2>3 DEF TypeOK, Labels, Outcomes, Snapshots
<1>6. KeyInv' /\ CountInv'
  BY <1>1, <1>2 DEF IInv, KeyInv, CountInv
<1>7. AnswerInv' /\ CacheBehind'
  BY <1>1, <1>2, <1>3, <1>4 DEF IInv, AnswerInv, CacheBehind
<1>8. StaleOnlyByRace'
  <2>1. CASE cache' = cache
    BY <1>1, <2>1 DEF IInv, StaleOnlyByRace, ServedIsCurrent, CacheHit, NoCache
  <2>2. CASE cache' = [version |-> got[p], fresh |-> TRUE, by |-> p]
    BY <1>1, <1>4, <2>2 DEF StaleOnlyByRace, ServedIsCurrent
  <2> QED
    BY <1>3, <2>1, <2>2
<1> QED
  BY <1>5, <1>6, <1>7, <1>8 DEF IInv

LEMMA ClearStep == ASSUME IInv, NEW p \in Procs, Clear(p) PROVE IInv'
<1>1. /\ UNCHANGED <<op, attempt, retried, got, net, version, open, links>>
      /\ TypeOK /\ Report(p)
  BY DEF Clear, serverVars, IInv
<1>0. \/ cache' = NoCache /\ unclear' = unclear
      \/ cache' = cache /\ unclear' = TRUE
  BY DEF Clear
<1>2. /\ pc' \in [Procs -> Labels] /\ result' \in [Procs -> Outcomes]
      /\ \A q \in Procs : pc'[q] \in {"store", "backoff"} => pc'[q] = pc[q]
  <2>1. PICK r \in Outcomes : End(p, r)
    BY <1>1 DEF Report, Outcomes
  <2> QED
    BY <1>1, <2>1, EndType
<1>3. /\ known' \in Nat /\ known' <= version
      /\ racing' \subseteq Procs /\ racing \subseteq racing'
      /\ \A q \in Procs : pc[q] = "store" => q \in racing'
  BY <1>1 DEF Report, IInv, TypeOK, AnswerInv
<1>4. /\ cache' \in [version : Nat, fresh : BOOLEAN, by : Procs \cup {None}]
      /\ cache'.version <= version
  <2>1. NoCache \in [version : Nat, fresh : BOOLEAN, by : Procs \cup {None}] /\ NoCache.version = 0
    BY DEF NoCache
  <2>2. version \in Nat /\ cache.version <= version
        /\ cache \in [version : Nat, fresh : BOOLEAN, by : Procs \cup {None}]
    BY DEF IInv, TypeOK, CacheBehind
  <2>3. cache' = NoCache \/ cache' = cache
    BY <1>0
  <2>4. 0 <= version
    BY <2>2
  <2> HIDE DEF NoCache
  <2> QED
    BY <2>1, <2>2, <2>3, <2>4
<1>9. unclear' \in BOOLEAN
  BY <1>0, <1>1 DEF TypeOK
<1>5. TypeOK'
  BY <1>1, <1>2, <1>3, <1>4, <1>9 DEF TypeOK, Labels, Outcomes
<1>6. KeyInv' /\ CountInv'
  BY <1>1, <1>2 DEF IInv, KeyInv, CountInv
<1>7. AnswerInv' /\ CacheBehind'
  <2>1. \A q \in Procs : pc'[q] = "store" => q \in racing'
    BY <1>2, <1>3
  <2> QED
    BY <1>1, <1>3, <1>4, <2>1 DEF IInv, AnswerInv, CacheBehind
<1>8. StaleOnlyByRace'
  BY <1>0 DEF StaleOnlyByRace, ServedIsCurrent, CacheHit
<1> QED
  BY <1>5, <1>6, <1>7, <1>8 DEF IInv

LEMMA ServeStep == ASSUME IInv, NEW r \in net, Serve(r) PROVE IInv'
<1> DEFINE p == r.by
<1>1. /\ UNCHANGED <<op, attempt, retried, cache, known, racing, unclear>>
      /\ net' \subseteq net /\ TypeOK /\ Effect(r)
      /\ \/ Continue(p) /\ got' = [got EXCEPT ![p] = version']
         \/ UNCHANGED <<pc, result, got>>
  BY DEF Serve, historyVars, IInv
<1> HIDE DEF p
<1>2. p \in Procs /\ r \in Requests
  BY <1>1 DEF TypeOK, Requests, p
<1>3. version' \in Nat /\ version' >= version /\ version \in Nat
  BY <1>1 DEF Effect, TypeOK
<1>12. open' \in BOOLEAN
  <2>1. open' = (op[r.by] = "auto") \/ open' = open
    BY <1>1 DEF Effect
  <2> QED
    BY <1>1, <2>1, Zenon DEF TypeOK
<1>4. /\ \A l \in links' : l \in links \/ l = Key(r)
      /\ Key(r) \in [by : Procs, key : {None}]
  BY <1>1, <1>2 DEF Effect, Key, p
<1>5. /\ pc' \in [Procs -> Labels] /\ result' \in [Procs -> Outcomes]
      /\ \A q \in Procs : pc'[q] = "backoff" => pc[q] = "backoff"
      /\ \A q \in Procs : q # p => pc'[q] = pc[q]
  <2>1. CASE Continue(p)
    <3>1. \/ Goto(p, "store") /\ "store" \in Labels
          \/ Goto(p, "clear") /\ "clear" \in Labels
          \/ End(p, "ok") /\ "ok" \in Outcomes
      BY <2>1 DEF Continue, Labels, Outcomes
    <3> QED
      BY <1>1, <1>2, <3>1, GotoType, EndType
  <2>2. CASE UNCHANGED <<pc, result, got>>
    BY <1>1, <2>2 DEF TypeOK, Labels, Outcomes
  <2> QED
    BY <1>1, <2>1, <2>2
<1>6. /\ got' \in [Procs -> Nat]
      /\ \A q \in Procs : q # p => got'[q] = got[q]
      /\ got'[p] = version' \/ (got'[p] = got[p] /\ pc'[p] = pc[p])
  <2>1. got \in [Procs -> Nat]
    BY <1>1 DEF TypeOK
  <2>2. CASE got' = [got EXCEPT ![p] = version']
    BY <1>2, <1>3, <2>1, <2>2
  <2>3. CASE UNCHANGED <<pc, result, got>>
    BY <2>1, <2>3
  <2> QED
    BY <1>1, <2>2, <2>3
<1>7. TypeOK'
  <2>1. links' \subseteq [by : Procs, key : Requests \cup {None}]
    BY <1>1, <1>4 DEF TypeOK
  <2> QED
    BY <1>1, <1>3, <1>5, <1>6, <1>12, <2>1 DEF TypeOK, Labels, Outcomes
<1>8. KeyInv'
  BY <1>4 DEF IInv, KeyInv
<1>9. CountInv'
  BY <1>1, <1>5 DEF IInv, CountInv
<1>10. AnswerInv' /\ CacheBehind'
  <2>1. /\ known \in Nat /\ known <= version /\ cache.version \in Nat
        /\ cache.version <= version /\ got \in [Procs -> Nat]
    BY DEF IInv, TypeOK, AnswerInv, CacheBehind
  <2>2. \A q \in Procs : got[q] <= version
    BY DEF IInv, AnswerInv
  <2>3. \A q \in Procs : got'[q] <= version'
    BY <1>2, <1>3, <1>6, <2>1, <2>2
  <2>4. \A q \in Procs : pc'[q] = "store" => got'[q] >= known \/ q \in racing \/ unclear
    BY <1>2, <1>3, <1>5, <1>6, <2>1 DEF IInv, AnswerInv
  <2> QED
    BY <1>1, <1>3, <2>1, <2>3, <2>4 DEF AnswerInv, CacheBehind
<1>11. StaleOnlyByRace'
  BY <1>1 DEF IInv, StaleOnlyByRace, ServedIsCurrent, CacheHit, NoCache
<1> QED
  BY <1>7, <1>8, <1>9, <1>10, <1>11 DEF IInv

LEMMA ElsewhereStep == IInv /\ (Elsewhere \/ Expire \/ \E r \in net : Lose(r)) => IInv'
<1> SUFFICES ASSUME IInv, Elsewhere \/ Expire \/ \E r \in net : Lose(r)
             PROVE  IInv'
  OBVIOUS
<1>1. /\ UNCHANGED <<op, pc, attempt, retried, got, result, links, known, racing, unclear>>
      /\ net' \subseteq net /\ TypeOK
      /\ version' = version \/ version' = version + 1
      /\ \/ cache' = cache
         \/ cache' = [version |-> cache.version, fresh |-> FALSE, by |-> cache.by]
  BY DEF Elsewhere, Expire, Lose, serverVars, historyVars, IInv
<1>6. open' \in BOOLEAN
  <2>1. open' = open \/ open' \in BOOLEAN
    BY DEF Elsewhere, Expire, Lose, serverVars
  <2> QED
    BY <1>1, <2>1, Zenon DEF TypeOK
<1>7. cache' \in Snapshots
  <2>1. cache \in Snapshots /\ cache.version \in Nat /\ cache.by \in Procs \cup {None}
    BY <1>1 DEF TypeOK, Snapshots
  <2>2. [version |-> cache.version, fresh |-> FALSE, by |-> cache.by] \in Snapshots
    BY <2>1, SnapshotType
  <2> QED
    BY <1>1, <2>1, <2>2, Zenon
<1>2. TypeOK'
  <2>1. version' \in Nat /\ net' \subseteq Requests
    BY <1>1 DEF TypeOK
  <2> QED
    BY <1>1, <1>6, <1>7, <2>1 DEF TypeOK, Snapshots
<1>3. KeyInv' /\ CountInv'
  BY <1>1 DEF IInv, KeyInv, CountInv
<1>4. AnswerInv' /\ CacheBehind'
  BY <1>1 DEF IInv, AnswerInv, CacheBehind, TypeOK
<1>5. StaleOnlyByRace'
  <2>1. CASE cache' = cache
    BY <1>1, <2>1 DEF IInv, StaleOnlyByRace, ServedIsCurrent, CacheHit, NoCache
  <2>2. CASE cache' = [version |-> cache.version, fresh |-> FALSE, by |-> cache.by]
    BY <2>2 DEF StaleOnlyByRace, ServedIsCurrent, CacheHit
  <2> QED
    BY <1>1, <2>1, <2>2
<1> QED
  BY <1>2, <1>3, <1>4, <1>5 DEF IInv

LEMMA StutterStep == IInv /\ UNCHANGED vars => IInv'
<1> SUFFICES ASSUME IInv, UNCHANGED vars
             PROVE  IInv'
  OBVIOUS
<1>1. UNCHANGED <<op, pc, attempt, retried, got, result, net, version, open, links, cache,
                  known, racing, unclear>>
  BY DEF vars, serverVars, historyVars
<1>2. TypeOK' /\ KeyInv' /\ AnswerInv' /\ CacheBehind' /\ CountInv'
  BY <1>1 DEF IInv, TypeOK, KeyInv, AnswerInv, CacheBehind, CountInv
<1>3. StaleOnlyByRace'
  BY <1>1 DEF IInv, StaleOnlyByRace, ServedIsCurrent, CacheHit, NoCache
<1> QED
  BY <1>2, <1>3 DEF IInv

LEMMA NextStep == IInv /\ [Next]_vars => IInv'
<1> SUFFICES ASSUME IInv, [Next]_vars
             PROVE  IInv'
  OBVIOUS
<1>1. ASSUME NEW p \in Procs,
             \/ StayLocal(p) \/ Send(p) \/ Fail(p) \/ Backoff(p) \/ FailFast(p)
             \/ Unauthorized(p) \/ Refresh(p) \/ Interrupted(p)
      PROVE  IInv'
  BY <1>1, PrivateSteps
<1>2. ASSUME NEW p \in Procs, Start(p) \/ Store(p) \/ Clear(p)
      PROVE  IInv'
  BY <1>2, StartStep, StoreStep, ClearStep
<1>3. ASSUME NEW r \in net, Serve(r)
      PROVE  IInv'
  BY <1>3, ServeStep
<1>4. CASE Elsewhere \/ Expire \/ \E r \in net : Lose(r)
  BY <1>4, ElsewhereStep
<1>5. CASE UNCHANGED vars
  BY <1>5, StutterStep
<1> QED
  BY <1>1, <1>2, <1>3, <1>4, <1>5 DEF Next, Terminating

-----------------------------------------------------------------------------
\* The one key of each command, and what the snapshot can hold, are inductive.
THEOREM Inductive == Spec => []IInv
<1>1. Init => IInv
  BY InitInv
<1>2. IInv /\ [Next]_vars => IInv'
  BY NextStep
<1> QED
  BY <1>1, <1>2, PTL DEF Spec

\* Every variable keeps its type: in particular, no call exceeds its retries.
THEOREM Typed == Spec => []TypeOK
<1>1. IInv => TypeOK
  BY DEF IInv
<1> QED
  BY <1>1, Inductive, PTL

\* For any number of commands, retries and late requests, a create-link command
\* makes at most one link.
THEOREM OneLink == Spec => []LinkOnce
<1>1. IInv => LinkOnce
  <2> SUFFICES ASSUME KeyInv, NEW p \in Procs
               PROVE  Cardinality({l \in links : l.by = p}) <= 1
    BY DEF IInv, LinkOnce
  <2> DEFINE key == [by |-> p, key |-> None]
             mine == {l \in links : l.by = p}
  <2>1. \A l \in mine : l = key
    BY DEF KeyInv
  <2>2. mine \subseteq {key}
    BY <2>1
  <2>3. /\ IsFiniteSet({key}) /\ Cardinality({key}) = 1
    BY FS_Singleton
  <2>4. Cardinality(mine) <= Cardinality({key})
    BY <2>2, <2>3, FS_Subset
  <2> QED
    BY <2>3, <2>4
<1> QED
  BY <1>1, Inductive, PTL

\* For any processes, the snapshot predates a change that was reported only if a
\* reader stored an answer that it held while the snapshot was cleared.
THEOREM StaleByRace == Spec => []StaleOnlyByRace
<1>1. IInv => StaleOnlyByRace
  BY DEF IInv
<1> QED
  BY <1>1, Inductive, PTL
================================================================================
