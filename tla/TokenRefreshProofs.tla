-------------------------- MODULE TokenRefreshProofs --------------------------
(***************************************************************************)
(* Proofs about TokenRefresh, for any number of commands and shells.       *)
(*                                                                         *)
(* The refresh lock excludes as long as no two processes recover it at the *)
(* same time: that they may is the one way around it.  What is promised of *)
(* refresh tokens and of the store then follows from the exclusion, though *)
(* logins and logouts come in between without the lock.                    *)
(***************************************************************************)
EXTENDS TokenRefresh, TLAPS

\* No two processes are between the stat and the rename of a stale lock.
OneRecovers == \A p, q \in Procs : pc[p] = "steal" /\ pc[q] = "steal" => p = q

\* Whoever is in the section owns the lock, and who is about to recover it has
\* the lock of a process that died before it.
LockInv ==
    /\ \A p \in Procs : pc[p] \in Holding \cup {"unlock"} => lock = p
    /\ lock # NoOne => pc[lock] \in Holding \cup {"unlock", "dead"}
    /\ lockOld => lock # NoOne /\ pc[lock] = "dead"
    /\ \A p \in Procs : pc[p] = "steal" => lockOld

LEMMA InitLocked == Init => TypeOK /\ LockInv
<1> SUFFICES ASSUME Init PROVE TypeOK /\ LockInv
  OBVIOUS
<1>1. 1 \in Tokens /\ 0 \in Token0 /\ 1 \in Token0
  BY TokenAssumption DEF Tokens, Token0
<1>2. TypeOK
  BY <1>1 DEF Init, TypeOK, PCs
<1>3. LockInv
  BY DEF Init, LockInv, Holding
<1> QED
  BY <1>2, <1>3

\* Each step keeps the types.
LEMMA TypeStep == TypeOK /\ [Next]_vars => TypeOK'
<1> SUFFICES ASSUME TypeOK, [Next]_vars PROVE TypeOK'
  OBVIOUS
<1> USE DEF TypeOK, PCs
<1>0. 0 \in Token0 /\ Tokens \subseteq Token0
  BY TokenAssumption DEF Tokens, Token0
<1>1. CASE UNCHANGED vars
  BY <1>1 DEF vars, procVars, userVars
<1>2. ASSUME NEW p \in Procs, StartCommand(p) PROVE TypeOK'
  BY <1>0, <1>2 DEF StartCommand, Goto, userVars
<1>3. ASSUME NEW p \in Procs, LoadToken(p) PROVE TypeOK'
  BY <1>0, <1>3 DEF LoadToken, Goto, userVars
<1>14. ASSUME NEW p \in Procs, LoadSnapshot(p) PROVE TypeOK'
  BY <1>0, <1>14 DEF LoadSnapshot, Goto, userVars
<1>15. ASSUME NEW p \in Procs, TokenReturned(p) PROVE TypeOK'
  BY <1>0, <1>15 DEF TokenReturned, Goto, End, userVars
<1>16. ASSUME NEW p \in Procs, Request(p) PROVE TypeOK'
  BY <1>0, <1>16 DEF Request, Goto, End, userVars
<1>17. ASSUME NEW p \in Procs, Refused(p) PROVE TypeOK'
  BY <1>0, <1>17 DEF Refused, Goto, End, userVars
<1>4. ASSUME NEW p \in Procs, AcquireLock(p) \/ SeeStale(p) \/ Steal(p)
      PROVE  TypeOK'
  BY <1>0, <1>4 DEF AcquireLock, SeeStale, Steal, Goto, userVars
<1>5. ASSUME NEW p \in Procs, WaitFails(p) \/ Crash(p)
      PROVE  TypeOK'
  BY <1>0, <1>5 DEF WaitFails, Crash, Goto, End, userVars
<1>6. ASSUME NEW p \in Procs, Unlock(p)
      PROVE  TypeOK'
  BY <1>0, <1>6 DEF Unlock, Goto, End, userVars
<1>7. ASSUME NEW p \in Procs, Reload(p)
      PROVE  TypeOK'
  BY <1>0, <1>7 DEF Reload, Goto, Finish, userVars
<1>8. ASSUME NEW p \in Procs, Exchange(p)
      PROVE  TypeOK'
  <2>1. issued + 1 \in Tokens /\ issued + 1 # 0
    BY <1>8, TokenAssumption DEF Exchange, Issue, Tokens
  <2> QED
    BY <1>0, <1>8, <2>1 DEF Exchange, Issue, Goto, userVars
<1>9. ASSUME NEW p \in Procs, ExchangeFails(p) \/ NotRefreshable(p) \/ Remove(p)
      PROVE  TypeOK'
  BY <1>0, <1>9 DEF ExchangeFails, NotRefreshable, Remove, Goto, Finish, userVars
<1>10. ASSUME NEW p \in Procs, Save(p)
      PROVE  TypeOK'
  BY <1>0, <1>10 DEF Save, Goto, Finish, userVars
<1>11. CASE Age
  BY <1>11 DEF Age, procVars, userVars
<1>12. ASSUME NEW u \in Users, Login(u)
      PROVE  TypeOK'
  <2>1. issued + 1 \in Tokens
    BY <1>12, TokenAssumption DEF Login, Issue, Tokens
  <2> QED
    BY <1>0, <1>12, <2>1 DEF Login, Issue, procVars
<1>13. ASSUME NEW u \in Users, LoginSave(u) \/ Logout(u)
      PROVE  TypeOK'
  BY <1>0, <1>13 DEF LoginSave, Logout, procVars, userVars
<1> QED
  BY <1>1, <1>2, <1>3, <1>4, <1>5, <1>6, <1>7, <1>8, <1>9, <1>10, <1>11, <1>12, <1>13,
     <1>14, <1>15, <1>16, <1>17
     DEF Next, Command

\* Every variable keeps its type, and no command saves an empty token.
THEOREM TypeCorrect == Spec => []TypeOK
  BY InitLocked, TypeStep, PTL DEF Spec

-----------------------------------------------------------------------------
(***************************************************************************)
(* The lock.                                                               *)
(***************************************************************************)

\* The steps of a process that leave the lock file alone: it stays in the section
\* or out of it.
LEMMA LockKept ==
    ASSUME TypeOK, LockInv, NEW p \in Procs, UNCHANGED <<lock, lockOld>>,
           NEW l \in PCs, Goto(p, l),
           l \in Holding \cup {"unlock"} => pc[p] \in Holding \cup {"unlock"},
           l = "steal" => lockOld,
           pc[p] \in Holding \cup {"unlock"} => l \in Holding \cup {"unlock", "dead"},
           pc[p] # "dead"
    PROVE  LockInv'
  BY TokenAssumption DEF TypeOK, LockInv, Goto, Holding

LEMMA LockStep == TypeOK /\ LockInv /\ OneRecovers /\ [Next]_vars => LockInv'
<1> SUFFICES ASSUME TypeOK, LockInv, OneRecovers, [Next]_vars PROVE LockInv'
  OBVIOUS
<1>1. CASE UNCHANGED vars
  BY <1>1 DEF vars, procVars, LockInv
<1>2. ASSUME NEW p \in Procs, StartCommand(p) \/ LoadToken(p) \/ LoadSnapshot(p)
      PROVE  LockInv'
  BY <1>2, LockKept DEF StartCommand, LoadToken, LoadSnapshot, Holding, PCs
<1>3. ASSUME NEW p \in Procs, TokenReturned(p) \/ Request(p) \/ Refused(p)
      PROVE  LockInv'
  BY <1>3, LockKept DEF TokenReturned, Request, Refused, End, Holding, PCs
<1>4. ASSUME NEW p \in Procs, AcquireLock(p)
      PROVE  LockInv'
  BY <1>4, TokenAssumption DEF AcquireLock, Goto, LockInv, TypeOK, Holding
<1>5. ASSUME NEW p \in Procs, SeeStale(p)
      PROVE  LockInv'
  BY <1>5, LockKept DEF SeeStale, Holding, PCs
<1>6. ASSUME NEW p \in Procs, Steal(p)
      PROVE  LockInv'
  <2>1. \A q \in Procs : pc[q] \notin Holding \cup {"unlock"}
    BY <1>6, TokenAssumption DEF Steal, LockInv, Holding
  <2>2. \A q \in Procs : q # p => pc[q] # "steal"
    BY <1>6 DEF Steal, OneRecovers
  <2> QED
    BY <1>6, <2>1, <2>2 DEF Steal, Goto, LockInv, TypeOK, Holding
<1>7. ASSUME NEW p \in Procs, WaitFails(p) \/ Crash(p)
      PROVE  LockInv'
  BY <1>7, LockKept DEF WaitFails, Crash, End, Holding, PCs
<1>8. ASSUME NEW p \in Procs, Unlock(p)
      PROVE  LockInv'
  <2>1. lock = p
    BY <1>8 DEF Unlock, LockInv
  <2>2. lock' = NoOne /\ ~lockOld'
    BY <1>8, <2>1 DEF Unlock
  <2>3. pc' = [pc EXCEPT ![p] = ret[p]] /\ ret[p] \in {"get", "got", "refused", "done"}
    BY <1>8 DEF Unlock, End, Goto, TypeOK
  <2>4. \A q \in Procs : q # p => pc[q] \notin Holding \cup {"unlock", "steal"}
    BY <1>8, <2>1 DEF Unlock, LockInv, Holding
  <2> QED
    BY <2>2, <2>3, <2>4 DEF LockInv, TypeOK, Holding
<1>9. ASSUME NEW p \in Procs, Reload(p) \/ Exchange(p) \/ ExchangeFails(p)
      PROVE  LockInv'
  BY <1>9, LockKept DEF Reload, Exchange, ExchangeFails, Finish, Holding, PCs
<1>10. ASSUME NEW p \in Procs, NotRefreshable(p) \/ Save(p) \/ Remove(p)
      PROVE  LockInv'
  BY <1>10, LockKept DEF NotRefreshable, Save, Remove, Finish, Holding, PCs
<1>11. CASE Age
  BY <1>11 DEF Age, procVars, LockInv, TypeOK, Holding
<1>12. ASSUME NEW u \in Users, Login(u) \/ LoginSave(u) \/ Logout(u)
      PROVE  LockInv'
  BY <1>12 DEF Login, LoginSave, Logout, procVars, LockInv
<1> QED
  BY <1>1, <1>2, <1>3, <1>4, <1>5, <1>6, <1>7, <1>8, <1>9, <1>10, <1>11, <1>12
     DEF Next, Command

LEMMA Locked == Spec /\ []OneRecovers => [](TypeOK /\ LockInv)
<1>1. TypeOK /\ LockInv /\ OneRecovers /\ [Next]_vars => (TypeOK /\ LockInv)'
  BY TypeStep, LockStep
<1> QED
  BY <1>1, InitLocked, PTL DEF Spec

LEMMA LockExcludes == LockInv => RefreshExclusive
  BY DEF LockInv, RefreshExclusive

(***************************************************************************)
(* Refreshes are exclusive among any number of processes, with crashes and *)
(* expired waits, unless two recover a stale lock at once.                 *)
(***************************************************************************)
THEOREM ExclusiveButForRecovery == Spec /\ []OneRecovers => []RefreshExclusive
  BY Locked, LockExcludes, PTL

(***************************************************************************)
(* When only one recovers.  Without crashes no lock file outlives its      *)
(* process; and of two processes one has to be the dead one.               *)
(***************************************************************************)
OrderlyWorld ==
    ~MayCrash \/ \A p, q, r \in Procs : p = q \/ q = r \/ p = r

NoneDead == ~MayCrash => \A p \in Procs : pc[p] # "dead"

LEMMA DeadStep == TypeOK /\ NoneDead /\ [Next]_vars => NoneDead'
<1> SUFFICES ASSUME TypeOK, NoneDead, [Next]_vars, ~MayCrash, NEW q \in Procs
             PROVE  pc'[q] # "dead"
  BY DEF NoneDead
<1>0. pc[q] # "dead"
  BY DEF NoneDead
<1> USE <1>0
<1>1. CASE UNCHANGED vars
  BY <1>1 DEF vars, procVars
<1>2. ASSUME NEW p \in Procs, StartCommand(p) \/ LoadToken(p) \/ LoadSnapshot(p)
      PROVE  pc'[q] # "dead"
  BY <1>2 DEF StartCommand, LoadToken, LoadSnapshot, Goto, TypeOK
<1>3. ASSUME NEW p \in Procs, TokenReturned(p) \/ Request(p) \/ Refused(p)
      PROVE  pc'[q] # "dead"
  BY <1>3 DEF TokenReturned, Request, Refused, Goto, End, TypeOK
<1>4. ASSUME NEW p \in Procs, AcquireLock(p) \/ SeeStale(p) \/ Steal(p)
      PROVE  pc'[q] # "dead"
  BY <1>4 DEF AcquireLock, SeeStale, Steal, Goto, TypeOK
<1>5. ASSUME NEW p \in Procs, WaitFails(p) \/ Crash(p) \/ Unlock(p)
      PROVE  pc'[q] # "dead"
  <2>1. ret[p] # "dead"
    BY DEF TypeOK
  <2> QED
    BY <1>5, <2>1 DEF WaitFails, Crash, Unlock, Goto, End, TypeOK
<1>6. ASSUME NEW p \in Procs, Reload(p) \/ Exchange(p) \/ ExchangeFails(p)
      PROVE  pc'[q] # "dead"
  BY <1>6 DEF Reload, Exchange, ExchangeFails, Finish, Goto, TypeOK
<1>7. ASSUME NEW p \in Procs, NotRefreshable(p) \/ Save(p) \/ Remove(p)
      PROVE  pc'[q] # "dead"
  BY <1>7 DEF NotRefreshable, Save, Remove, Finish, Goto, TypeOK
<1>8. CASE Age
  BY <1>8 DEF Age, procVars
<1>9. ASSUME NEW u \in Users, Login(u) \/ LoginSave(u) \/ Logout(u)
      PROVE  pc'[q] # "dead"
  BY <1>9 DEF Login, LoginSave, Logout, procVars
<1> QED
  BY <1>1, <1>2, <1>3, <1>4, <1>5, <1>6, <1>7, <1>8, <1>9 DEF Next, Command

LEMMA OrderlyRecovery ==
    ASSUME OrderlyWorld, TypeOK, LockInv, NoneDead
    PROVE  OneRecovers
<1> SUFFICES ASSUME NEW p \in Procs, NEW q \in Procs, pc[p] = "steal", pc[q] = "steal"
             PROVE  p = q
  BY DEF OneRecovers
<1>1. lock \in Procs /\ pc[lock] = "dead"
  BY DEF LockInv, TypeOK
<1>2. MayCrash
  BY <1>1 DEF NoneDead
<1> QED
  BY <1>1, <1>2 DEF OrderlyWorld

THEOREM OneAtATime ==
    ASSUME OrderlyWorld
    PROVE  Spec => []OneRecovers
<1>1. Init => NoneDead
  BY DEF Init, NoneDead
<1>2. TypeOK /\ LockInv /\ NoneDead /\ [Next]_vars => (TypeOK /\ LockInv /\ NoneDead)'
  BY TypeStep, LockStep, DeadStep, OrderlyRecovery
<1>3. Spec => [](TypeOK /\ LockInv /\ NoneDead)
  BY <1>1, <1>2, InitLocked, PTL DEF Spec
<1>4. TypeOK /\ LockInv /\ NoneDead => OneRecovers
  BY OrderlyRecovery
<1> QED
  BY <1>3, <1>4, PTL

(***************************************************************************)
(* So refreshes are exclusive among any number of commands that do not     *)
(* crash, and between any two that may.                                    *)
(***************************************************************************)
THEOREM Exclusive ==
    ASSUME OrderlyWorld
    PROVE  Spec => []RefreshExclusive
  BY OneAtATime, ExclusiveButForRecovery, PTL

-----------------------------------------------------------------------------
(***************************************************************************)
(* The tokens.                                                             *)
(***************************************************************************)

\* Nobody holds a token the service has not issued, and it issues each token
\* after the one it was exchanged for.
IssueInv ==
    /\ stored <= issued
    /\ \A p \in Procs : seen[p] <= issued
    /\ \A u \in Users : mine[u] <= issued
    /\ \A t \in Tokens : t <= issued => from[t] < t
    /\ \A u \in Users : upc[u] = "save" => mine[u] # 0 /\ from[mine[u]] = 0

\* What a process in the section exchanges, saves or removes is still the token of
\* the store, unless a login or a logout came in between.
Replaced == stored = 0 \/ from[stored] = 0

FreshInv ==
    \A p \in Procs :
        /\ pc[p] = "exchange" => seen[p] # 0 /\ (Replaced \/ stored = seen[p])
        /\ pc[p] = "save" => Replaced \/ stored < seen[p]
        /\ SparesRefreshed(p)


\* The variables that hold tokens hold integers.
LEMMA Numbers ==
    ASSUME TypeOK
    PROVE  /\ stored \in Int /\ issued \in Int /\ issued >= 1 /\ issued <= MaxTokens
           /\ \A p \in Procs : seen[p] \in Int /\ active[p] \in Int
           /\ \A u \in Users : mine[u] \in Int
           /\ \A t \in Tokens : from[t] \in Int
           /\ stored # 0 => stored \in Tokens
           /\ \A u \in Users : mine[u] # 0 => mine[u] \in Tokens
           /\ MaxTokens \in Int
<1> USE TokenAssumption DEF Token0, Tokens
<1>1. Token0 \subseteq Int
  OBVIOUS
<1>2. \A p \in Procs : seen[p] \in Token0 /\ active[p] \in Token0
  BY DEF TypeOK
<1>3. \A u \in Users : mine[u] \in Token0
  BY DEF TypeOK
<1>4. \A t \in Tokens : from[t] \in Token0
  BY DEF TypeOK
<1>5. stored \in Token0 /\ issued \in Tokens
  BY DEF TypeOK
<1> QED
  BY <1>1, <1>2, <1>3, <1>4, <1>5

\* What the issue of a token leaves as it is.
LEMMA Issued ==
    ASSUME TypeOK, IssueInv, NEW source \in Token0, source <= issued, Issue(source)
    PROVE  /\ issued' = issued + 1 /\ issued' \in Tokens
           /\ from'[issued'] = source
           /\ \A t \in Tokens : t <= issued => from'[t] = from[t]
           /\ \A t \in Tokens : t <= issued' => from'[t] < t
<1>1. issued \in Int /\ issued >= 1 /\ MaxTokens \in Int /\ source \in Int
  BY Numbers, TokenAssumption DEF Token0
<1>2. issued' = issued + 1 /\ issued' \in Tokens
  BY <1>1 DEF Issue, Tokens
<1>3. from'[issued'] = source
  BY <1>2 DEF Issue, TypeOK
<1>4. \A t \in Tokens : t # issued' => from'[t] = from[t]
  BY <1>2 DEF Issue, TypeOK
<1>5. \A t \in Tokens : t \in Int
  BY DEF Tokens
<1>6. \A t \in Tokens : t <= issued => from'[t] = from[t]
  BY <1>1, <1>2, <1>4, <1>5
<1>7. ASSUME NEW t \in Tokens, t <= issued' PROVE from'[t] < t
  <2>1. CASE t = issued'
    BY <1>1, <1>2, <1>3, <2>1
  <2>2. CASE t # issued'
    BY <1>1, <1>2, <1>4, <1>5, <1>7, <2>2 DEF IssueInv
  <2> QED
    BY <2>1, <2>2
<1> QED
  BY <1>2, <1>3, <1>6, <1>7

LEMMA IssueStep == TypeOK /\ IssueInv /\ [Next]_vars => IssueInv'
<1> SUFFICES ASSUME TypeOK, IssueInv, [Next]_vars PROVE IssueInv'
  OBVIOUS
<1>0. /\ 0 <= issued /\ stored \in Int /\ issued \in Int
      /\ \A p \in Procs : seen[p] \in Int
      /\ \A u \in Users : mine[u] \in Int
      /\ \A u \in Users : mine[u] # 0 => mine[u] \in Tokens
  BY Numbers
\* Steps that neither issue nor store.
<1>kept. ASSUME UNCHANGED <<stored, issued, from, userVars>>,
                \A p \in Procs : seen'[p] \in {0, stored, seen[p]}
         PROVE  IssueInv'
  BY <1>0, <1>kept DEF IssueInv, userVars
<1>1. CASE UNCHANGED vars
  BY <1>1, <1>kept DEF vars, procVars
<1>2. ASSUME NEW p \in Procs, StartCommand(p) \/ LoadToken(p) \/ LoadSnapshot(p)
      PROVE  IssueInv'
  BY <1>2, <1>kept DEF StartCommand, LoadToken, LoadSnapshot, TypeOK
<1>3. ASSUME NEW p \in Procs, TokenReturned(p) \/ Request(p) \/ Refused(p)
      PROVE  IssueInv'
  BY <1>3, <1>kept DEF TokenReturned, Request, Refused, End, TypeOK
<1>4. ASSUME NEW p \in Procs, AcquireLock(p) \/ SeeStale(p) \/ Steal(p)
      PROVE  IssueInv'
  BY <1>4, <1>kept DEF AcquireLock, SeeStale, Steal
<1>5. ASSUME NEW p \in Procs, WaitFails(p) \/ Crash(p) \/ Unlock(p)
      PROVE  IssueInv'
  BY <1>5, <1>kept DEF WaitFails, Crash, Unlock, End, TypeOK
<1>6. ASSUME NEW p \in Procs, Reload(p) \/ ExchangeFails(p) \/ NotRefreshable(p)
      PROVE  IssueInv'
  BY <1>6, <1>kept DEF Reload, ExchangeFails, NotRefreshable, TypeOK
<1>7. ASSUME NEW p \in Procs, Exchange(p)
      PROVE  IssueInv'
  <2>1. seen[p] \in Token0 /\ seen[p] <= issued
    BY DEF TypeOK, IssueInv
  <2>2. /\ issued' = issued + 1
        /\ \A t \in Tokens : t <= issued => from'[t] = from[t]
        /\ \A t \in Tokens : t <= issued' => from'[t] < t
    BY <1>7, <2>1, Issued DEF Exchange
  <2>3. \A q \in Procs : seen'[q] \in {seen[q], issued + 1}
    BY <1>7 DEF Exchange, TypeOK
  <2>4. UNCHANGED <<stored, upc, mine>>
    BY <1>7 DEF Exchange, userVars
  <2> QED
    BY <1>0, <2>2, <2>3, <2>4 DEF IssueInv
<1>8. ASSUME NEW p \in Procs, Save(p) \/ Remove(p)
      PROVE  IssueInv'
  <2>1. stored' \in {0, stored, seen[p]} /\ UNCHANGED <<issued, from, seen, upc, mine>>
    BY <1>8 DEF Save, Remove, userVars
  <2> QED
    BY <1>0, <2>1 DEF IssueInv
<1>9. CASE Age
  BY <1>9, <1>kept DEF Age, procVars
<1>10. ASSUME NEW u \in Users, Login(u)
       PROVE  IssueInv'
  <2>1. 0 \in Token0 /\ 0 <= issued
    BY <1>0, TokenAssumption DEF Token0
  <2>2. /\ issued' = issued + 1 /\ issued' \in Tokens
        /\ from'[issued'] = 0
        /\ \A t \in Tokens : t <= issued => from'[t] = from[t]
        /\ \A t \in Tokens : t <= issued' => from'[t] < t
    BY <1>10, <2>1, Issued DEF Login
  <2>3. UNCHANGED <<stored, seen>>
    BY <1>10 DEF Login, procVars
  <2>4. mine' = [mine EXCEPT ![u] = issued'] /\ upc' = [upc EXCEPT ![u] = "save"]
    BY <1>10, <2>2 DEF Login
  <2>5. ASSUME NEW v \in Users
        PROVE  mine'[v] <= issued' /\ (upc'[v] = "save" => mine'[v] # 0 /\ from'[mine'[v]] = 0)
    <3>1. CASE v = u
      BY <1>0, <2>2, <2>4, <3>1 DEF TypeOK
    <3>2. CASE v # u
      <4>1. mine'[v] = mine[v] /\ upc'[v] = upc[v]
        BY <2>4, <3>2 DEF TypeOK
      <4> QED
        BY <1>0, <2>2, <4>1 DEF IssueInv
    <3> QED
      BY <3>1, <3>2
  <2> QED
    BY <1>0, <2>2, <2>3, <2>5 DEF IssueInv
<1>11. ASSUME NEW u \in Users, LoginSave(u) \/ Logout(u)
       PROVE  IssueInv'
  <2>1. stored' \in {0, mine[u]} /\ UNCHANGED <<issued, from, seen>>
    BY <1>11 DEF LoginSave, Logout, procVars
  <2>2. \A v \in Users : \/ mine'[v] = mine[v] /\ upc'[v] = upc[v]
                         \/ mine'[v] = 0 /\ upc'[v] = "idle"
    BY <1>11 DEF LoginSave, Logout, userVars, TypeOK
  <2> QED
    BY <1>0, <2>1, <2>2 DEF IssueInv
<1> QED
  BY <1>1, <1>2, <1>3, <1>4, <1>5, <1>6, <1>7, <1>8, <1>9, <1>10, <1>11
     DEF Next, Command

\* TryRefresh compares with a token, never with none.
SnapshotInv == \A p \in Procs : op[p] = "try" => seen[p] # 0

LEMMA SnapshotStep == TypeOK /\ SnapshotInv /\ [Next]_vars => SnapshotInv'
<1> SUFFICES ASSUME TypeOK, SnapshotInv, [Next]_vars, NEW q \in Procs
             PROVE  op'[q] = "try" => seen'[q] # 0
  BY DEF SnapshotInv
<1>0. op[q] = "try" => seen[q] # 0
  BY DEF SnapshotInv
<1> USE <1>0
<1>1. CASE UNCHANGED vars
  BY <1>1 DEF vars, procVars
<1>2. ASSUME NEW p \in Procs, StartCommand(p) \/ LoadToken(p) \/ LoadSnapshot(p)
      PROVE  op'[q] = "try" => seen'[q] # 0
  BY <1>2 DEF StartCommand, LoadToken, LoadSnapshot, TypeOK
<1>3. ASSUME NEW p \in Procs, TokenReturned(p) \/ Request(p) \/ Refused(p)
      PROVE  op'[q] = "try" => seen'[q] # 0
  BY <1>3 DEF TokenReturned, Request, Refused, End, TypeOK
<1>4. ASSUME NEW p \in Procs, AcquireLock(p) \/ SeeStale(p) \/ Steal(p)
      PROVE  op'[q] = "try" => seen'[q] # 0
  BY <1>4 DEF AcquireLock, SeeStale, Steal
<1>5. ASSUME NEW p \in Procs, WaitFails(p) \/ Crash(p) \/ Unlock(p)
      PROVE  op'[q] = "try" => seen'[q] # 0
  BY <1>5 DEF WaitFails, Crash, Unlock, End, TypeOK
<1>6. ASSUME NEW p \in Procs, Reload(p)
      PROVE  op'[q] = "try" => seen'[q] # 0
  BY <1>6 DEF Reload, TypeOK
<1>7. ASSUME NEW p \in Procs, Exchange(p)
      PROVE  op'[q] = "try" => seen'[q] # 0
  <2>1. issued + 1 # 0
    BY Numbers
  <2> QED
    BY <1>7, <2>1 DEF Exchange, TypeOK
<1>8. ASSUME NEW p \in Procs,
             ExchangeFails(p) \/ NotRefreshable(p) \/ Save(p) \/ Remove(p)
      PROVE  op'[q] = "try" => seen'[q] # 0
  BY <1>8 DEF ExchangeFails, NotRefreshable, Save, Remove
<1>9. CASE Age
  BY <1>9 DEF Age, procVars
<1>10. ASSUME NEW u \in Users, Login(u) \/ LoginSave(u) \/ Logout(u)
       PROVE  op'[q] = "try" => seen'[q] # 0
  BY <1>10 DEF Login, LoginSave, Logout, procVars
<1> QED
  BY <1>1, <1>2, <1>3, <1>4, <1>5, <1>6, <1>7, <1>8, <1>9, <1>10 DEF Next, Command

\* The steps of a process that is not about to write, or no more.
LEMMA FreshKept ==
    ASSUME TypeOK, FreshInv, NEW p \in Procs, UNCHANGED <<stored, from>>,
           pc'[p] \notin {"exchange", "save", "remove"},
           \A q \in Procs : q # p => /\ pc'[q] = pc[q] /\ seen'[q] = seen[q]
                                     /\ active'[q] = active[q]
    PROVE  FreshInv'
<1> SUFFICES ASSUME NEW q \in Procs
             PROVE  /\ pc'[q] = "exchange" => seen'[q] # 0 /\ (Replaced' \/ stored' = seen'[q])
                    /\ pc'[q] = "save" => Replaced' \/ stored' < seen'[q]
                    /\ pc'[q] = "remove" => stored' \in {0, active'[q]} \/ from'[stored'] = 0
  BY DEF FreshInv, SparesRefreshed
<1>1. CASE q = p
  BY <1>1
<1>2. CASE q # p
  BY <1>2 DEF FreshInv, SparesRefreshed, Replaced
<1> QED
  BY <1>1, <1>2

\* The only process in the section is about to write.
LEMMA FreshAlone ==
    ASSUME TypeOK, LockInv, NEW p \in Procs, pc[p] \in Holding,
           \A q \in Procs : q # p => pc'[q] = pc[q],
           pc'[p] = "exchange" => seen'[p] # 0 /\ (Replaced' \/ stored' = seen'[p]),
           pc'[p] = "save" => Replaced' \/ stored' < seen'[p],
           pc'[p] = "remove" => stored' \in {0, active'[p]} \/ from'[stored'] = 0
    PROVE  FreshInv'
<1>1. \A q \in Procs : q # p => pc'[q] \notin Holding
  BY LockExcludes DEF RefreshExclusive
<1> QED
  BY <1>1 DEF FreshInv, SparesRefreshed, Holding

LEMMA FreshStep ==
    TypeOK /\ LockInv /\ IssueInv /\ SnapshotInv /\ FreshInv /\ [Next]_vars => FreshInv'
<1> SUFFICES ASSUME TypeOK, LockInv, IssueInv, SnapshotInv, FreshInv, [Next]_vars
             PROVE  FreshInv'
  OBVIOUS
<1>1. CASE UNCHANGED vars
  BY <1>1 DEF vars, procVars, FreshInv, SparesRefreshed, Replaced
<1>2. ASSUME NEW p \in Procs, StartCommand(p) \/ LoadToken(p) \/ LoadSnapshot(p)
      PROVE  FreshInv'
  BY <1>2, FreshKept DEF StartCommand, LoadToken, LoadSnapshot, Goto, TypeOK
<1>3. ASSUME NEW p \in Procs, TokenReturned(p) \/ Request(p) \/ Refused(p)
      PROVE  FreshInv'
  <2>1. /\ UNCHANGED <<stored, from>> /\ pc'[p] \notin {"exchange", "save", "remove"}
        /\ \A q \in Procs : q # p => /\ pc'[q] = pc[q] /\ seen'[q] = seen[q]
                                      /\ active'[q] = active[q]
    BY <1>3 DEF TokenReturned, Request, Refused, Goto, End, TypeOK
  <2> QED
    BY <2>1, FreshKept
<1>4. ASSUME NEW p \in Procs, AcquireLock(p) \/ SeeStale(p) \/ Steal(p)
      PROVE  FreshInv'
  BY <1>4, FreshKept DEF AcquireLock, SeeStale, Steal, Goto, TypeOK
<1>5. ASSUME NEW p \in Procs, WaitFails(p) \/ Crash(p) \/ Unlock(p)
      PROVE  FreshInv'
  <2>1. ret[p] \notin {"exchange", "save", "remove"}
    BY DEF TypeOK
  <2>2. /\ UNCHANGED <<stored, from>> /\ pc'[p] \notin {"exchange", "save", "remove"}
        /\ \A q \in Procs : q # p => /\ pc'[q] = pc[q] /\ seen'[q] = seen[q]
                                      /\ active'[q] = active[q]
    BY <1>5, <2>1 DEF WaitFails, Crash, Unlock, Goto, End, TypeOK
  <2> QED
    BY <2>2, FreshKept
<1>6. ASSUME NEW p \in Procs, Reload(p)
      PROVE  FreshInv'
  <2>1. /\ pc[p] \in Holding /\ UNCHANGED <<stored, from, active>>
        /\ \A q \in Procs : q # p => pc'[q] = pc[q]
    BY <1>6 DEF Reload, Finish, Goto, TypeOK, Holding
  <2>2. pc'[p] \in {"unlock", "exchange", "remove"}
    BY <1>6 DEF Reload, Finish, Goto, TypeOK
  <2>3. pc'[p] = "exchange" => seen'[p] # 0 /\ stored' = seen'[p]
    <3>1. op[p] = "try" => seen[p] # 0
      BY DEF SnapshotInv
    <3> QED
      BY <1>6, <3>1 DEF Reload, Finish, Goto, TypeOK
  <2>4. pc'[p] = "remove" => stored' = active'[p]
    BY <1>6 DEF Reload, Finish, Goto, TypeOK
  <2> QED
    BY <2>1, <2>2, <2>3, <2>4, FreshAlone
<1>7. ASSUME NEW p \in Procs, Exchange(p)
      PROVE  FreshInv'
  <2>1. seen[p] \in Token0 /\ seen[p] <= issued
    BY DEF TypeOK, IssueInv
  <2>2. issued' = issued + 1 /\ \A t \in Tokens : t <= issued => from'[t] = from[t]
    BY <1>7, <2>1, Issued DEF Exchange
  <2>3. stored' = stored /\ stored <= issued /\ issued \in Int /\ stored \in Int
    BY <1>7, Numbers DEF Exchange, IssueInv
  <2>4. pc'[p] = "save" /\ seen'[p] = issued + 1
    BY <1>7 DEF Exchange, Goto, TypeOK
  <2>5. \A q \in Procs : q # p => pc'[q] = pc[q]
    BY <1>7 DEF Exchange, Goto, TypeOK
  <2> QED
    BY <1>7, <2>3, <2>4, <2>5, FreshAlone DEF Exchange, Holding
<1>8. ASSUME NEW p \in Procs,
             ExchangeFails(p) \/ NotRefreshable(p) \/ Save(p) \/ Remove(p)
      PROVE  FreshInv'
  <2>1. pc[p] \in Holding /\ pc'[p] = "unlock"
    BY <1>8 DEF ExchangeFails, NotRefreshable, Save, Remove, Finish, Goto, TypeOK, Holding
  <2>2. \A q \in Procs : q # p => pc'[q] = pc[q]
    BY <1>8 DEF ExchangeFails, NotRefreshable, Save, Remove, Finish, Goto, TypeOK
  <2> QED
    BY <2>1, <2>2, FreshAlone
<1>9. CASE Age
  BY <1>9 DEF Age, procVars, FreshInv, SparesRefreshed, Replaced
<1>10. ASSUME NEW u \in Users, Login(u)
       PROVE  FreshInv'
  <2>1. 0 \in Token0 /\ 0 <= issued /\ (stored # 0 => stored \in Tokens /\ stored <= issued)
    BY Numbers, TokenAssumption DEF Token0, IssueInv
  <2>2. stored # 0 => from'[stored] = from[stored]
    BY <1>10, <2>1, Issued DEF Login
  <2>3. UNCHANGED <<stored, pc, seen, active>>
    BY <1>10 DEF Login, procVars
  <2> QED
    BY <2>2, <2>3 DEF FreshInv, SparesRefreshed, Replaced
<1>11. ASSUME NEW u \in Users, LoginSave(u) \/ Logout(u)
       PROVE  FreshInv'
  <2>1. Replaced'
    BY <1>11 DEF LoginSave, Logout, Replaced, IssueInv
  <2>2. UNCHANGED <<pc, seen, active>>
    BY <1>11 DEF LoginSave, Logout, procVars
  <2> QED
    BY <2>1, <2>2 DEF FreshInv, SparesRefreshed, Replaced
<1> QED
  BY <1>1, <1>2, <1>3, <1>4, <1>5, <1>6, <1>7, <1>8, <1>9, <1>10, <1>11
     DEF Next, Command

TokenInv == TypeOK /\ LockInv /\ IssueInv /\ SnapshotInv /\ FreshInv

LEMMA InitTokens == Init => IssueInv /\ SnapshotInv /\ FreshInv
  BY TokenAssumption
     DEF Init, IssueInv, SnapshotInv, FreshInv, SparesRefreshed, Tokens

LEMMA Inductive == Spec /\ []OneRecovers => []TokenInv
<1>1. TokenInv /\ OneRecovers /\ [Next]_vars => TokenInv'
  BY TypeStep, LockStep, IssueStep, SnapshotStep, FreshStep DEF TokenInv
<1>2. Init => TokenInv
  BY InitLocked, InitTokens DEF TokenInv
<1> QED
  BY <1>1, <1>2, PTL DEF Spec

LEMMA FreshIsUnspent == TokenInv => NoSpentRefresh
<1> SUFFICES ASSUME TokenInv, NEW p \in Procs, pc[p] = "exchange", stored # 0
             PROVE  from[stored] # seen[p]
  BY DEF NoSpentRefresh
<1>1. seen[p] # 0 /\ (from[stored] = 0 \/ stored = seen[p])
  BY DEF TokenInv, FreshInv, Replaced
<1>2. /\ stored \in Tokens /\ stored \in Int /\ from[stored] \in Int
      /\ from[stored] < stored
  BY Numbers DEF TokenInv, IssueInv
<1> QED
  BY <1>1, <1>2

\* A step that stores an older token, if it is a refresh, writes over a login.
LEMMA StoreStep == TokenInv /\ [Next]_vars => NotOlder \/ stored' = stored
<1> SUFFICES ASSUME TokenInv, [Next]_vars, stored' # stored PROVE NotOlder
  OBVIOUS
<1>1. ASSUME NEW p \in Procs, Save(p) PROVE NotOlder
  <2>1. stored' = seen[p] /\ pc[p] = "save"
    BY <1>1 DEF Save
  <2>2. stored = 0 \/ from[stored] = 0 \/ stored < seen[p]
    BY <2>1 DEF TokenInv, FreshInv, Replaced
  <2>3. stored \in Int /\ seen[p] \in Int /\ (stored' < stored => stored # 0)
    <3>1. stored \in Int /\ seen[p] \in Int /\ seen[p] \in Token0
      BY Numbers DEF TokenInv, TypeOK
    <3>2. seen[p] >= 0
      BY <3>1 DEF Token0
    <3> QED
      BY <2>1, <3>1, <3>2
  <2> QED
    BY <2>1, <2>2, <2>3 DEF NotOlder
<1>2. ASSUME NEW p \in Procs, Remove(p) PROVE NotOlder
  BY <1>2 DEF Remove, NotOlder
<1>3. ASSUME NEW u \in Users, LoginSave(u) PROVE NotOlder
  <2>1. from[stored'] = 0
    BY <1>3 DEF LoginSave, TokenInv, IssueInv
  <2> QED
    BY <2>1 DEF NotOlder
<1>4. ASSUME NEW u \in Users, Logout(u) PROVE NotOlder
  BY <1>4 DEF Logout, NotOlder
<1>5. \/ \E p \in Procs : Save(p) \/ Remove(p)
      \/ \E u \in Users : LoginSave(u) \/ Logout(u)
  <2>1. ASSUME UNCHANGED vars PROVE FALSE
    BY <2>1 DEF vars
  <2>2. ASSUME Age PROVE FALSE
    BY <2>2 DEF Age
  <2>3. ASSUME NEW u \in Users, Login(u) PROVE FALSE
    BY <2>3 DEF Login
  <2>4. ASSUME NEW p \in Procs,
               \/ StartCommand(p) \/ LoadToken(p) \/ TokenReturned(p) \/ Request(p)
               \/ LoadSnapshot(p) \/ Refused(p) \/ WaitFails(p) \/ Crash(p)
        PROVE  FALSE
    BY <2>4 DEF StartCommand, LoadToken, TokenReturned, Request, LoadSnapshot, Refused,
                WaitFails, Crash
  <2>5. ASSUME NEW p \in Procs,
               \/ AcquireLock(p) \/ SeeStale(p) \/ Steal(p) \/ Unlock(p) \/ Reload(p)
               \/ Exchange(p) \/ ExchangeFails(p) \/ NotRefreshable(p)
        PROVE  FALSE
    BY <2>5 DEF AcquireLock, SeeStale, Steal, Unlock, Reload, Exchange, ExchangeFails,
                NotRefreshable
  <2> QED
    BY <2>1, <2>2, <2>3, <2>4, <2>5 DEF Next, Command
<1> QED
  BY <1>1, <1>2, <1>3, <1>4, <1>5

(***************************************************************************)
(* While refreshes are exclusive, nobody presents a refresh token whose    *)
(* successor is in the store ...                                           *)
(***************************************************************************)
THEOREM NothingSpent == Spec /\ []OneRecovers => []NoSpentRefresh
  BY Inductive, FreshIsUnspent, PTL

(***************************************************************************)
(* ... a command removes only the token that was rejected or one a login   *)
(* has stored since, and no refresh is written over a later one.           *)
(***************************************************************************)
THEOREM GoesForward == Spec /\ []OneRecovers => TokenNeverGoesBack
<1>1. TokenInv => \A p \in Procs : SparesRefreshed(p)
  BY DEF TokenInv, FreshInv
<1>2. TokenInv /\ [Next]_vars => [NotOlder]_stored
  BY StoreStep
<1> QED
  BY <1>1, <1>2, Inductive, PTL DEF Spec, TokenNeverGoesBack, NeverGoesBack

(***************************************************************************)
(* Both promises hold of any number of commands that do not crash, and of  *)
(* two that may.                                                           *)
(***************************************************************************)
THEOREM TokensAreKept ==
    ASSUME OrderlyWorld
    PROVE  Spec => []NoSpentRefresh /\ TokenNeverGoesBack
  BY OneAtATime, NothingSpent, GoesForward, PTL
=============================================================================
