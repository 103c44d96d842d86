----------------------------- MODULE TokenRefresh -----------------------------
(***************************************************************************)
(* The stored OAuth token of a profile, shared by independent CLI          *)
(* processes (auth.TokenManager).  A command loads the token, refreshes it *)
(* when it is expired (GetToken), and when the server answers 401 it       *)
(* refreshes once and retries (mcpclient.Client.Call, cliapiclient         *)
(* callWithRefresh); discovery clears a token that stays rejected          *)
(* (DynamicRegistrySetup.resolveToolsState).  Refresh and clear run under  *)
(* a lock file created with O_EXCL; one older than ten minutes counts as   *)
(* left by a crash and is renamed away.  Login and logout do not take it.  *)
(*                                                                         *)
(* A token stands for the whole TokenData and is the number the service    *)
(* issued it under; 0 is "no token".  Whether a token is past its          *)
(* ExpiresAt and whether the server accepts it are up to the clock and the *)
(* server: both outcomes are possible whenever the code looks.  The store  *)
(* is one atomic cell here; Login looks inside it.                         *)
(***************************************************************************)
EXTENDS Integers

CONSTANTS Procs,      \* commands, each a process of its own
          Users,      \* shells that log in and out
          MaxTokens,  \* bound: tokens the service issues
          MayFail,    \* TRUE: lock waits time out, exchanges and saves fail
          MayCrash,   \* TRUE: a command dies anywhere, without releasing its lock
          NoOne       \* the owner of an absent lock file

ASSUME TokenAssumption ==
    /\ MaxTokens \in Nat \ {0}
    /\ MayFail \in BOOLEAN /\ MayCrash \in BOOLEAN
    /\ NoOne \notin Procs

VARIABLES
    stored,     \* the token in the credential store
    lock,       \* the owner written in the refresh lock file
    lockOld,    \* that file is older than refreshLockStaleAfter
    pc,         \* where each command is
    ret,        \* where it goes once it has released the lock
    op,         \* what it wants the lock for
    stage,      \* which of its GetToken calls this is
    token,      \* what GetToken returned
    active,     \* the token it bootstrapped with
    seen,       \* TryRefresh's snapshot, then the token being exchanged or saved
    upc, mine,  \* a user: where the login is, and the token it obtained
    issued,     \* the last token of the authorization service
    from        \* history: the token each one was exchanged for (0: a login)

procVars == <<pc, ret, op, stage, token, active, seen>>
userVars == <<upc, mine>>
vars == <<stored, lock, lockOld, procVars, userVars, issued, from>>

Tokens  == 1 .. MaxTokens
Token0  == 0 .. MaxTokens
PCs     == {"idle", "get", "got", "request", "try", "lock", "steal", "held",
            "exchange", "save", "remove", "unlock", "refused", "done", "dead"}
Holding == {"held", "exchange", "save", "remove"}

TypeOK ==
    /\ stored \in Token0
    /\ lock \in Procs \cup {NoOne} /\ lockOld \in BOOLEAN
    /\ pc \in [Procs -> PCs]
    /\ ret \in [Procs -> {"get", "got", "refused", "done"}]
    /\ op \in [Procs -> {"get", "try", "clear"}]
    /\ stage \in [Procs -> {"boot", "send", "resend"}]
    /\ token \in [Procs -> Token0]
    /\ active \in [Procs -> Token0]
    /\ seen \in [Procs -> Token0]
    /\ upc \in [Users -> {"idle", "save"}] /\ mine \in [Users -> Token0]
    /\ issued \in Tokens
    /\ from \in [Tokens -> Token0]
    /\ \A p \in Procs : pc[p] = "save" => seen[p] # 0   \* never an empty token

\* A profile that is logged in.
Init ==
    /\ stored = 1
    /\ lock = NoOne /\ lockOld = FALSE
    /\ pc = [p \in Procs |-> "idle"] /\ ret = [p \in Procs |-> "done"]
    /\ op = [p \in Procs |-> "get"] /\ stage = [p \in Procs |-> "boot"]
    /\ token = [p \in Procs |-> 0] /\ active = [p \in Procs |-> 0]
    /\ seen = [p \in Procs |-> 0]
    /\ upc = [u \in Users |-> "idle"] /\ mine = [u \in Users |-> 0]
    /\ issued = 1
    /\ from = [t \in Tokens |-> 0]

Goto(p, l) == pc' = [pc EXCEPT ![p] = l]

\* The process ends and its memory is gone.
End(p, l) ==
    /\ Goto(p, l)
    /\ ret' = [ret EXCEPT ![p] = "done"] /\ op' = [op EXCEPT ![p] = "get"]
    /\ stage' = [stage EXCEPT ![p] = "boot"]
    /\ token' = [token EXCEPT ![p] = 0] /\ active' = [active EXCEPT ![p] = 0]
    /\ seen' = [seen EXCEPT ![p] = 0]

\* The locked section returns: the deferred release, then the caller goes on at l.
Finish(p, l) == Goto(p, "unlock") /\ ret' = [ret EXCEPT ![p] = l]

-----------------------------------------------------------------------------
(***************************************************************************)
(* GetToken and the request it is for.                                     *)
(***************************************************************************)

StartCommand(p) ==
    /\ pc[p] = "idle"
    /\ Goto(p, "get")
    /\ UNCHANGED <<stored, lock, lockOld, ret, op, stage, token, active, seen,
                   userVars, issued, from>>

\* An expired token is refreshed under the lock.
LoadToken(p) ==
    /\ pc[p] = "get"
    /\ \/ /\ stored # 0
          /\ op' = [op EXCEPT ![p] = "get"]
          /\ token' = [token EXCEPT ![p] = 0]
          /\ Goto(p, "lock")
       \/ /\ token' = [token EXCEPT ![p] = stored]
          /\ Goto(p, "got")
          /\ UNCHANGED op
    /\ UNCHANGED <<stored, lock, lockOld, ret, stage, active, seen, userVars, issued, from>>

\* attachStoredToken at bootstrap: without a token there is no client.  Later
\* calls come from the client, once for the request and once for its retry.
TokenReturned(p) ==
    /\ pc[p] = "got"
    /\ \/ stage[p] = "boot" /\ token[p] = 0 /\ End(p, "done")
       \/ /\ stage[p] = "boot" /\ token[p] # 0
          /\ active' = [active EXCEPT ![p] = token[p]]
          /\ stage' = [stage EXCEPT ![p] = "send"]
          /\ Goto(p, "get")
          /\ UNCHANGED <<ret, op, token, seen>>
       \/ /\ stage[p] # "boot"
          /\ Goto(p, "request")
          /\ UNCHANGED <<ret, op, stage, token, active, seen>>
    /\ UNCHANGED <<stored, lock, lockOld, userVars, issued, from>>

\* A 401 is answered with one refresh and one retry.
Request(p) ==
    /\ pc[p] = "request"
    /\ \/ token[p] # 0 /\ End(p, "done")
       \/ /\ Goto(p, IF stage[p] = "send" THEN "try" ELSE "refused")
          /\ token' = [token EXCEPT ![p] = 0]
          /\ UNCHANGED <<ret, op, stage, active, seen>>
    /\ UNCHANGED <<stored, lock, lockOld, userVars, issued, from>>

\* TryRefresh: what it loads before it waits for the lock is what it compares with.
LoadSnapshot(p) ==
    /\ pc[p] = "try"
    /\ \/ /\ stored = 0
          /\ Goto(p, "refused")
          /\ UNCHANGED <<op, seen>>
       \/ /\ stored # 0
          /\ seen' = [seen EXCEPT ![p] = stored]
          /\ op' = [op EXCEPT ![p] = "try"]
          /\ Goto(p, "lock")
    /\ UNCHANGED <<stored, lock, lockOld, ret, stage, token, active, userVars, issued, from>>

\* A terminal 401: discovery drops the token it started with, other calls report it.
Refused(p) ==
    /\ pc[p] = "refused"
    /\ \/ /\ Goto(p, "lock")
          /\ op' = [op EXCEPT ![p] = "clear"]
          /\ UNCHANGED <<ret, stage, token, active, seen>>
       \/ End(p, "done")
    /\ UNCHANGED <<stored, lock, lockOld, userVars, issued, from>>

-----------------------------------------------------------------------------
(***************************************************************************)
(* The refresh lock.                                                       *)
(***************************************************************************)

\* Fault: a lock file that exists does not stop its creation (no O_EXCL).
AcquireLockShared(p) ==
    /\ pc[p] = "lock"
    /\ lock' = p /\ lockOld' = FALSE
    /\ Goto(p, "held")
    /\ UNCHANGED <<stored, ret, op, stage, token, active, seen, userVars, issued, from>>

AcquireLock(p) ==
    /\ pc[p] = "lock"
    /\ lock = NoOne
    /\ lock' = p /\ lockOld' = FALSE
    /\ Goto(p, "held")
    /\ UNCHANGED <<stored, ret, op, stage, token, active, seen, userVars, issued, from>>

\* Fault: a lock file that is there is never old enough.
SeeStaleNever(p) ==
    /\ pc[p] = "lock"
    /\ lock = NoOne /\ lockOld
    /\ Goto(p, "steal")
    /\ UNCHANGED <<stored, lock, lockOld, ret, op, stage, token, active, seen,
                   userVars, issued, from>>

\* stat says the file is old ...
SeeStale(p) ==
    /\ pc[p] = "lock"
    /\ lock # NoOne /\ lockOld
    /\ Goto(p, "steal")
    /\ UNCHANGED <<stored, lock, lockOld, ret, op, stage, token, active, seen,
                   userVars, issued, from>>

\* ... and rename takes away whatever file has its name by then.
Steal(p) ==
    /\ pc[p] = "steal"
    /\ lock' = NoOne /\ lockOld' = FALSE
    /\ Goto(p, "lock")
    /\ UNCHANGED <<stored, ret, op, stage, token, active, seen, userVars, issued, from>>

\* The lock wait is over its deadline: the error reaches the caller.
WaitFails(p) ==
    /\ MayFail
    /\ pc[p] = "lock"
    /\ \/ /\ op[p] = "try"
          /\ Goto(p, "refused")
          /\ UNCHANGED <<ret, op, stage, token, active, seen>>
       \/ op[p] # "try" /\ End(p, "done")
    /\ UNCHANGED <<stored, lock, lockOld, userVars, issued, from>>

\* Only the lock file it wrote itself is removed.  TryRefresh came back without an
\* error when the caller goes on to "get": that is the retry.
Unlock(p) ==
    /\ pc[p] = "unlock"
    /\ lock' = IF lock = p THEN NoOne ELSE lock
    /\ lockOld' = (lockOld /\ lock # p)
    /\ \/ ret[p] = "done" /\ End(p, "done")
       \/ /\ ret[p] # "done"
          /\ Goto(p, ret[p])
          /\ stage' = [stage EXCEPT ![p] = IF ret[p] = "get" THEN "resend" ELSE @]
          /\ ret' = [ret EXCEPT ![p] = "done"] /\ op' = [op EXCEPT ![p] = "get"]
          /\ UNCHANGED <<token, active, seen>>
    /\ UNCHANGED <<stored, userVars, issued, from>>

-----------------------------------------------------------------------------
(***************************************************************************)
(* Under the lock.                                                         *)
(***************************************************************************)

\* Fault: TryRefresh does not load the token again under the lock.
ReloadNot(p) ==
    /\ pc[p] = "held"
    /\ op[p] = "try"
    /\ Goto(p, "exchange")
    /\ UNCHANGED <<stored, lock, lockOld, ret, op, stage, token, active, seen,
                   userVars, issued, from>>

\* Fault: ClearTokenIfCurrent clears without comparing.
ReloadBlind(p) ==
    /\ pc[p] = "held"
    /\ \/ /\ op[p] = "clear"
          /\ Goto(p, "remove")
          /\ UNCHANGED seen
       \/ /\ op[p] # "clear" /\ stored # 0
          /\ seen' = [seen EXCEPT ![p] = stored]
          /\ Goto(p, "exchange")
    /\ UNCHANGED <<stored, lock, lockOld, ret, op, stage, token, active, userVars,
                   issued, from>>

\* The store is read again; another process may have changed it meanwhile.
Reload(p) ==
    /\ pc[p] = "held"
    /\ \/ /\ op[p] = "get"
          /\ token' = [token EXCEPT ![p] = stored]
          /\ Finish(p, "got")
          /\ UNCHANGED seen
       \/ /\ op[p] = "try" /\ stored = 0
          /\ Finish(p, "refused")
          /\ UNCHANGED <<token, seen>>
       \/ /\ op[p] = "try" /\ stored \notin {0, seen[p]}
          /\ Finish(p, "get")
          /\ UNCHANGED <<token, seen>>
       \/ /\ \/ op[p] = "get" /\ stored # 0
             \/ op[p] = "try" /\ stored = seen[p]
          /\ seen' = [seen EXCEPT ![p] = stored]
          /\ Goto(p, "exchange")
          /\ UNCHANGED <<token, ret>>
       \/ /\ op[p] = "clear" /\ stored # active[p]
          /\ Finish(p, "done")
          /\ UNCHANGED <<token, seen>>
       \/ /\ op[p] = "clear" /\ stored = active[p]
          /\ Goto(p, "remove")
          /\ UNCHANGED <<token, seen, ret>>
    /\ UNCHANGED <<stored, lock, lockOld, op, stage, active, userVars, issued, from>>

\* The service issues the next token, in exchange for source.
Issue(source) ==
    /\ issued < MaxTokens
    /\ issued' = issued + 1
    /\ from' = [from EXCEPT ![issued + 1] = source]

Exchange(p) ==
    /\ pc[p] = "exchange"
    /\ Issue(seen[p])
    /\ seen' = [seen EXCEPT ![p] = issued + 1]
    /\ Goto(p, "save")
    /\ UNCHANGED <<stored, lock, lockOld, ret, op, stage, token, active, userVars>>

\* The service refuses the refresh token or its answer is lost.
ExchangeFails(p) ==
    /\ pc[p] = "exchange"
    /\ MayFail \/ issued = MaxTokens
    /\ Finish(p, IF op[p] = "try" THEN "refused" ELSE "done")
    /\ UNCHANGED <<stored, lock, lockOld, op, stage, token, active, seen, userVars, issued, from>>

\* The token has no refresh token: not an error for GetToken, which returns "".
NotRefreshable(p) ==
    /\ MayFail
    /\ pc[p] = "exchange"
    /\ Finish(p, IF op[p] = "try" THEN "refused" ELSE "got")
    /\ token' = [token EXCEPT ![p] = IF op[p] = "get" THEN 0 ELSE @]
    /\ UNCHANGED <<stored, lock, lockOld, op, stage, active, seen, userVars, issued, from>>

\* The new token is persisted on a best-effort basis.  GetToken returns it;
\* TryRefresh only says that it succeeded.
Save(p) ==
    /\ pc[p] = "save"
    /\ stored' = seen[p] \/ (MayFail /\ stored' = stored)
    /\ Finish(p, IF op[p] = "get" THEN "got" ELSE "get")
    /\ token' = [token EXCEPT ![p] = IF op[p] = "get" THEN seen[p] ELSE @]
    /\ UNCHANGED <<lock, lockOld, op, stage, active, seen, userVars, issued, from>>

Remove(p) ==
    /\ pc[p] = "remove"
    /\ stored' = 0
    /\ Finish(p, "done")
    /\ UNCHANGED <<lock, lockOld, op, stage, token, active, seen, userVars, issued, from>>

-----------------------------------------------------------------------------
(***************************************************************************)
(* Crashes, time, login and logout.                                        *)
(***************************************************************************)

Crash(p) ==
    /\ MayCrash
    /\ pc[p] \notin {"idle", "done", "dead"}
    /\ End(p, "dead")
    /\ UNCHANGED <<stored, lock, lockOld, userVars, issued, from>>

\* Ten minutes pass.  A holder that is alive is assumed to release its lock before.
Age ==
    /\ lock # NoOne /\ ~lockOld
    /\ pc[lock] \in {"dead", "done"}
    /\ lockOld' = TRUE
    /\ UNCHANGED <<stored, lock, procVars, userVars, issued, from>>

\* The flow of a login ends with a token ...
Login(u) ==
    /\ upc[u] = "idle"
    /\ Issue(0)
    /\ mine' = [mine EXCEPT ![u] = issued + 1]
    /\ upc' = [upc EXCEPT ![u] = "save"]
    /\ UNCHANGED <<stored, lock, lockOld, procVars>>

\* ... that SaveToken writes without the refresh lock.
LoginSave(u) ==
    /\ upc[u] = "save"
    /\ stored' = mine[u]
    /\ mine' = [mine EXCEPT ![u] = 0]
    /\ upc' = [upc EXCEPT ![u] = "idle"]
    /\ UNCHANGED <<lock, lockOld, procVars, issued, from>>

Logout(u) ==
    /\ upc[u] = "idle"
    /\ stored' = 0
    /\ UNCHANGED <<lock, lockOld, procVars, userVars, issued, from>>

Command(p) ==
    \/ LoadToken(p) \/ TokenReturned(p) \/ Request(p) \/ LoadSnapshot(p) \/ Refused(p)
    \/ AcquireLock(p) \/ SeeStale(p) \/ Steal(p) \/ Unlock(p) \/ Reload(p)
    \/ Exchange(p) \/ ExchangeFails(p) \/ NotRefreshable(p) \/ Save(p) \/ Remove(p)

Next ==
    \/ \E p \in Procs : StartCommand(p) \/ Command(p) \/ WaitFails(p) \/ Crash(p)
    \/ Age
    \/ \E u \in Users : Login(u) \/ LoginSave(u) \/ Logout(u)

Spec == Init /\ [][Next]_vars

\* A running command keeps running and time passes; the deadline of the lock wait
\* is not counted on.
FairSpec ==
    /\ Spec
    /\ \A p \in Procs : WF_vars(Command(p))
    /\ WF_vars(Age)

-----------------------------------------------------------------------------
(***************************************************************************)
(* Properties.                                                             *)
(***************************************************************************)

(***************************************************************************)
(* At most one process is in the section that loads, exchanges and saves:  *)
(* WithRefreshLock "uses an exclusive lock file so independent CLI         *)
(* processes ... cannot refresh and overwrite credentials at once".        *)
(***************************************************************************)
RefreshExclusive ==
    \A p, q \in Procs : pc[p] \in Holding /\ pc[q] \in Holding => p = q

(***************************************************************************)
(* Nobody presents a refresh token whose successor is already in the       *)
(* store, however many processes see the same expiry or the same 401: a    *)
(* service that rotates refresh tokens would end the session.              *)
(***************************************************************************)
NoSpentRefresh ==
    \A p \in Procs : pc[p] = "exchange" => stored = 0 \/ from[stored] # seen[p]

(***************************************************************************)
(* A late 401 does not delete credentials another process has refreshed:   *)
(* what a process removes is the token that was rejected, or one a login   *)
(* stored in between.                                                      *)
(***************************************************************************)
SparesRefreshed(p) ==
    pc[p] = "remove" => stored \in {0, active[p]} \/ from[stored] = 0

(***************************************************************************)
(* No refresh is overwritten by an earlier refresh, whatever the timing of *)
(* the exchanges.  Logins and logouts, which do not take the lock, may     *)
(* come between a refresh's load and its save.                             *)
(***************************************************************************)
NotOlder == stored' < stored => stored' = 0 \/ from[stored'] = 0 \/ from[stored] = 0

NeverGoesBack == [][NotOlder]_stored

(***************************************************************************)
(* So no command, late or slow, takes the store back to an older token, or *)
(* to none.                                                                *)
(***************************************************************************)
TokenNeverGoesBack == [](\A p \in Procs : SparesRefreshed(p)) /\ NeverGoesBack

(***************************************************************************)
(* Every command ends, even when another process died with the lock file   *)
(* in place: a stale lock is recovered, and no wait depends on its timeout.*)
(***************************************************************************)
EveryCommandEnds ==
    \A p \in Procs : (pc[p] = "get") ~> (pc[p] \in {"done", "dead"})
=============================================================================
