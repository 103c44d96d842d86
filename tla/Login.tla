--------------------------------- MODULE Login ---------------------------------
(***************************************************************************)
(* auth login, logout and status beside a command that uses the token they *)
(* leave: the browser and the device code flow, the token store made of a  *)
(* keychain and an encrypted file to fall back to, and the tool catalog    *)
(* that a login invalidates.  One profile and its host are meant           *)
(* throughout; the keychain may be locked and unlocked at any time.        *)
(***************************************************************************)
EXTENDS Naturals, FiniteSets

CONSTANTS
    Procs,        \* processes of the CLI, each of which runs one command
    Commands,     \* the commands each may run
    MaxToken,     \* bound: tokens that the server issues
    MaxKeys,      \* bound: machine keys that are created
    MaxOutages,   \* bound: times the keychain is locked or unlocked
    Interval,     \* the poll interval of the device code, in steps of 5 seconds
    ExpiresIn     \* the life time of the device code, in the same steps

Logins == {"browser", "device", "init", "poll", "once"}
Command == [op : Logins \cup {"logout", "status", "use"}, terminal : BOOLEAN, valid : BOOLEAN]

ASSUME LoginAssumption ==
    /\ Commands \in [Procs -> SUBSET Command]
    /\ MaxToken \in Nat \ {0} /\ MaxKeys \in Nat \ {0} /\ MaxOutages \in Nat
    /\ Interval \in Nat /\ ExpiresIn \in Nat \ {0}

\* Tokens count in the order in which they are issued; 0 is none.
Token == 0 .. MaxToken
NoFile == [token |-> 0, key |-> 0]      \* no file, or one that is half written

VARIABLES
    keychain, up,       \* the item of the keychain, and whether it can be reached
    file, machineKey,   \* the encrypted file, and the key it is to be read with
    catalog,            \* the token for which the cached tool catalog was fetched
    approved,           \* the user has approved the device code
    issued, keys, outages,
    cmd, pc, got, key,  \* a process: its command, the token and the key it has in hand
    primaryFailed,      \* ... the keychain has failed it once
    interval, waited,   \* ... the device flow: the interval, and the time it has waited
    outcome,
    settled,            \* history: the tokens that may be the one stored now
    may,                \* history: tokens that overlapping commands store or remove
    kept,               \* history: tokens the keychain kept because it failed
    excused,            \* history: loads that met a failure or a token on the move
    early,              \* history: commands under way while a catalog was invalidated
    skew                \* history: the catalog was filled by one of these, or not invalidated

stores == <<keychain, up, file, machineKey, keys, outages>>
process == <<got, key, primaryFailed, interval, waited>>
history == <<settled, may, kept, excused, early, skew>>
vars == <<stores, catalog, approved, issued, cmd, pc, process, outcome, history>>

Saving == {"save", "clearfile", "savekey", "newkey", "openfile", "writefile"}
Removing == {"logout", "logoutfile"}
Loading == {"load", "loadfile", "loadkey"}

TypeOK ==
    /\ keychain \in Token /\ up \in BOOLEAN
    /\ file \in [token : Token, key : 0 .. MaxKeys] /\ machineKey \in 0 .. MaxKeys
    /\ catalog \in Token /\ approved \in BOOLEAN
    /\ issued \in Token /\ keys \in 0 .. MaxKeys /\ outages \in 0 .. MaxOutages
    /\ \A p \in Procs : cmd[p] \in Commands[p]
    /\ pc \in [Procs -> Saving \cup Removing \cup Loading \cup
                 {"begin", "discover", "register", "code", "callback", "exchange", "sleep", "poll",
                  "invalidate", "verify", "lookup", "fetch", "fill", "done", "dead"}]
    /\ got \in [Procs -> Token] /\ key \in [Procs -> 0 .. MaxKeys]
    /\ primaryFailed \in [Procs -> BOOLEAN]
    /\ interval \in [Procs -> 1 .. Interval + ExpiresIn + 1]
    /\ waited \in [Procs -> 0 .. Interval + 2 * ExpiresIn + 1]
    /\ outcome \in [Procs -> {"none", "ok", "pending", "refused", "failed", "expired",
                              "anonymous", "rejected", "unreachable"}]
    /\ settled \subseteq Token /\ may \in [Procs -> SUBSET Token]
    /\ kept \subseteq Token /\ excused \subseteq Procs /\ early \subseteq Procs /\ skew \in BOOLEAN

\* Nobody has logged in yet, or a login has left its token on either side.
Init ==
    /\ \E side \in {"none", "keychain", "file"} :
         /\ keychain = (IF side = "keychain" THEN 1 ELSE 0)
         /\ file = IF side = "file" THEN [token |-> 1, key |-> 1] ELSE NoFile
         /\ issued = (IF side = "none" THEN 0 ELSE 1)
         /\ keys = (IF side = "file" THEN 1 ELSE 0)
    /\ machineKey = keys /\ up \in BOOLEAN /\ outages = 0
    /\ catalog \in {0, issued} /\ approved = FALSE
    /\ cmd \in {c \in [Procs -> Command] : \A p \in Procs : c[p] \in Commands[p]}
    /\ pc = [p \in Procs |-> "begin"]
    /\ got = [p \in Procs |-> 0] /\ key = [p \in Procs |-> 0]
    /\ primaryFailed = [p \in Procs |-> FALSE]
    /\ interval = [p \in Procs |-> IF Interval < 1 THEN 1 ELSE Interval]
    /\ waited = [p \in Procs |-> 0]
    /\ outcome = [p \in Procs |-> "none"]
    /\ settled = {issued} /\ may = [p \in Procs |-> {}] /\ kept = {}
    /\ excused = {} /\ early = {} /\ skew = FALSE

-----------------------------------------------------------------------------
(* What overlaps with what: the history of the token store. *)

Goto(p, label) == pc' = [pc EXCEPT ![p] = label]
End(p, how) == Goto(p, "done") /\ outcome' = [outcome EXCEPT ![p] = how]

Writers == {p \in Procs : pc[p] \in Saving \cup Removing}
Effect(p) == IF pc[p] \in Removing THEN 0 ELSE got[p]

\* p begins to store or remove (t), or to load the token.
WriteBegins(p, t) ==
    may' = [q \in Procs |-> IF q = p THEN {t} \cup {Effect(r) : r \in Writers}
                            ELSE IF q \in Writers \/ pc[q] \in Loading THEN may[q] \cup {t}
                            ELSE may[q]]
LoadBegins(p) == may' = [may EXCEPT ![p] = settled \cup {Effect(r) : r \in Writers}]
WriteEnds(p) == settled' = may[p]

-----------------------------------------------------------------------------
(* The flows that obtain a token. *)

\* What is refused before anything is sent: options that do not go together, no
\* host to prompt for, a browser flow without a terminal.
Refused(c) == ~c.valid \/ (c.op = "browser" /\ ~c.terminal)

Begin(p) ==
    /\ pc[p] = "begin"
    /\ UNCHANGED <<stores, catalog, approved, issued, cmd, process, settled, kept, excused,
                   early, skew>>
    /\ LET c == cmd[p] IN
       \/ /\ c.op \in Logins
          /\ IF Refused(c) THEN End(p, "refused")
             ELSE Goto(p, "discover") /\ UNCHANGED outcome
          /\ UNCHANGED may
       \/ /\ c.op = "logout" /\ WriteBegins(p, 0)
          /\ Goto(p, "logout") /\ UNCHANGED outcome
       \/ /\ c.op \in {"use", "status"} /\ LoadBegins(p)
          /\ Goto(p, "load") /\ UNCHANGED outcome

\* FetchOAuthMetadata: the poll fetches it with every request instead.
Discover(p) ==
    /\ pc[p] = "discover"
    /\ \/ End(p, "failed")
       \/ /\ Goto(p, IF cmd[p].op \in {"poll", "once"} THEN "sleep" ELSE "register")
          /\ UNCHANGED outcome
    /\ UNCHANGED <<stores, catalog, approved, issued, cmd, process, history>>

\* RegisterClient: a client of its own for every login.
Register(p) ==
    /\ pc[p] = "register"
    /\ \/ End(p, "failed")
       \/ Goto(p, IF cmd[p].op = "browser" THEN "callback" ELSE "code") /\ UNCHANGED outcome
    /\ UNCHANGED <<stores, catalog, approved, issued, cmd, process, history>>

\* The device code, with which --phase init ends.
DeviceCode(p) ==
    /\ pc[p] = "code"
    /\ \/ End(p, "failed")
       \/ cmd[p].op = "init" /\ End(p, "ok")
       \/ cmd[p].op = "device" /\ Goto(p, "sleep") /\ UNCHANGED outcome
    /\ UNCHANGED <<stores, catalog, approved, issued, cmd, process, history>>

\* The first request to the callback decides: with the code, with a state or
\* without a code that it should not have; or none comes in time.
Callback(p) ==
    /\ pc[p] = "callback"
    /\ \/ Goto(p, "exchange") /\ UNCHANGED outcome
       \/ \E how \in {"failed", "expired"} : End(p, how)
    /\ UNCHANGED <<stores, catalog, approved, issued, cmd, process, history>>

\* The server issues a token, which is saved next.
Issue(p) ==
    /\ issued < MaxToken
    /\ issued' = issued + 1
    /\ got' = [got EXCEPT ![p] = issued']
    /\ WriteBegins(p, issued')
    /\ Goto(p, "save")
    /\ UNCHANGED <<outcome, settled, kept, excused, early, skew>>

ExchangeToken(p) ==
    /\ pc[p] = "exchange"
    /\ Issue(p) \/ (End(p, "failed") /\ UNCHANGED <<issued, got, history>>)
    /\ UNCHANGED <<stores, catalog, approved, cmd, key, primaryFailed, interval, waited>>

UserApproves ==
    /\ ~approved /\ \E p \in Procs : cmd[p].op \in {"device", "poll", "once"}
    /\ approved' = TRUE
    /\ UNCHANGED <<stores, catalog, issued, cmd, pc, process, outcome, history>>

\* The deadline is looked at before the interval, so the last poll may come late.
Sleep(p) ==
    /\ pc[p] = "sleep"
    /\ IF cmd[p].op = "once" THEN Goto(p, "poll") /\ UNCHANGED <<waited, outcome>>
       ELSE IF waited[p] < ExpiresIn
       THEN /\ waited' = [waited EXCEPT ![p] = @ + interval[p]]
            /\ Goto(p, "poll") /\ UNCHANGED outcome
       ELSE End(p, "expired") /\ UNCHANGED waited
    /\ UNCHANGED <<stores, catalog, approved, issued, cmd, got, key, primaryFailed, interval,
                   history>>

\* Only pending and slow_down keep the loop going: any other answer, or a request
\* that fails, ends the login.
PollOnce(p) ==
    /\ pc[p] = "poll"
    /\ \/ /\ approved /\ Issue(p) /\ UNCHANGED interval
       \/ /\ ~approved
          /\ IF cmd[p].op = "once" THEN End(p, "pending") /\ UNCHANGED interval
             ELSE /\ Goto(p, "sleep") /\ UNCHANGED outcome
                  /\ interval' \in {interval, [interval EXCEPT ![p] = @ + 1]}
          /\ UNCHANGED <<issued, got, history>>
       \/ /\ \E how \in {"failed", "expired"} : End(p, how)
          /\ UNCHANGED <<issued, got, interval, history>>
    /\ UNCHANGED <<stores, catalog, approved, cmd, key, primaryFailed, waited>>

-----------------------------------------------------------------------------
(* FallbackStore.Save and Clear. *)

\* Fault: a keychain that is locked is waited for.
SavePrimaryWaits(p) ==
    /\ pc[p] = "save" /\ up
    /\ keychain' = got[p] /\ kept' = {}
    /\ Goto(p, "clearfile")
    /\ UNCHANGED <<up, file, machineKey, keys, outages, catalog, approved, issued, cmd, process,
                   outcome, settled, may, excused, early, skew>>

\* The keychain is tried until it fails this process once; it replaces its item
\* atomically.
SavePrimary(p) ==
    /\ pc[p] = "save"
    /\ IF up /\ ~primaryFailed[p]
       THEN /\ keychain' = got[p] /\ kept' = {}
            /\ Goto(p, "clearfile") /\ UNCHANGED primaryFailed
       ELSE /\ primaryFailed' = [primaryFailed EXCEPT ![p] = TRUE]
            /\ Goto(p, "savekey") /\ UNCHANGED <<keychain, kept>>
    /\ UNCHANGED <<up, file, machineKey, keys, outages, catalog, approved, issued, cmd, got,
                   key, interval, waited, outcome, settled, may, excused, early, skew>>

\* The file goes whoever has written it, so a load that has found, or will find, nothing
\* in the keychain may miss the token of another login.
ClearFallback(p) ==
    /\ pc[p] = "clearfile"
    /\ file' = NoFile
    /\ excused' = excused \cup {q \in Procs : pc[q] = "loadfile" \/ (pc[q] = "load" /\ keychain = 0)}
    /\ WriteEnds(p) /\ Goto(p, "invalidate")
    /\ UNCHANGED <<keychain, up, machineKey, keys, outages, catalog, approved, issued, cmd,
                   process, outcome, may, kept, early, skew>>

\* getOrCreateMachineKey: a key that is missing is created, by as many processes
\* as miss it.
ReadKey(p) ==
    /\ pc[p] = "savekey"
    /\ key' = [key EXCEPT ![p] = machineKey]
    /\ Goto(p, IF machineKey = 0 THEN "newkey" ELSE "openfile")
    /\ UNCHANGED <<stores, catalog, approved, issued, cmd, got, primaryFailed, interval,
                   waited, outcome, history>>

NewKey(p) ==
    /\ pc[p] = "newkey"
    /\ keys < MaxKeys
    /\ keys' = keys + 1 /\ machineKey' = keys'
    /\ key' = [key EXCEPT ![p] = keys']
    /\ Goto(p, "openfile")
    /\ UNCHANGED <<keychain, up, file, outages, catalog, approved, issued, cmd, got,
                   primaryFailed, interval, waited, outcome, history>>

\* The file is truncated and written; the keychain is left as it is.
OpenFile(p) ==
    /\ pc[p] = "openfile"
    /\ file' = NoFile
    /\ Goto(p, "writefile")
    /\ UNCHANGED <<keychain, up, machineKey, keys, outages, catalog, approved, issued, cmd,
                   process, outcome, history>>

WriteFile(p) ==
    /\ pc[p] = "writefile"
    /\ file' = [token |-> got[p], key |-> key[p]]
    /\ kept' = kept \cup ({keychain} \ {0})
    /\ WriteEnds(p) /\ Goto(p, "invalidate")
    /\ UNCHANGED <<keychain, up, machineKey, keys, outages, catalog, approved, issued, cmd,
                   process, outcome, may, excused, early, skew>>

\* Both sides are cleared, whatever the keychain says to it.
ClearPrimary(p) ==
    /\ pc[p] = "logout"
    /\ IF up THEN keychain' = 0 /\ kept' = {}
       ELSE kept' = kept \cup ({keychain} \ {0}) /\ UNCHANGED keychain
    /\ Goto(p, "logoutfile")
    /\ UNCHANGED <<up, file, machineKey, keys, outages, catalog, approved, issued, cmd, process,
                   outcome, settled, may, excused, early, skew>>

ClearFile(p) ==
    /\ pc[p] = "logoutfile"
    /\ file' = NoFile
    /\ WriteEnds(p) /\ End(p, "ok")
    /\ UNCHANGED <<keychain, up, machineKey, keys, outages, catalog, approved, issued, cmd,
                   process, may, kept, excused, early, skew>>

UnderWay == {q \in Procs : cmd[q].op = "use" /\ pc[q] \notin {"begin", "done", "dead"}}

\* Fault: the catalog of the former token stays.
InvalidateNothing(p) ==
    /\ pc[p] = "invalidate"
    /\ End(p, "ok")
    /\ UNCHANGED <<stores, catalog, approved, issued, cmd, process, history>>

\* The last step of a login: the catalog of the former token is dropped.
Invalidate(p) ==
    /\ pc[p] = "invalidate"
    /\ catalog' = 0
    /\ early' = UnderWay
    /\ skew' = FALSE
    /\ End(p, "ok")
    /\ UNCHANGED <<stores, approved, issued, cmd, process, settled, may, kept, excused>>

-----------------------------------------------------------------------------
(* FallbackStore.LoadContext, and the commands that load. *)

\* What becomes of a load.
Loaded(p, t) ==
    /\ got' = [got EXCEPT ![p] = t]
    /\ IF t = 0 THEN End(p, "anonymous")
       ELSE Goto(p, IF cmd[p].op = "status" THEN "verify" ELSE "lookup") /\ UNCHANGED outcome

\* Fault: the fallback is not asked when the keychain holds nothing.
LoadPrimaryOnly(p) ==
    /\ pc[p] = "load"
    /\ Loaded(p, IF up THEN keychain ELSE 0)
    /\ UNCHANGED <<stores, catalog, approved, issued, cmd, key, primaryFailed, interval, waited,
                   history>>

\* An item that is missing is no failure of the keychain ...
Found == up /\ keychain # 0

\* ... and one that a failing keychain has kept is found like any other.
LoadPrimary(p) ==
    /\ pc[p] = "load"
    /\ IF Found THEN Loaded(p, keychain) /\ UNCHANGED primaryFailed
       ELSE /\ primaryFailed' = [primaryFailed EXCEPT ![p] = ~up]
            /\ Goto(p, "loadfile") /\ UNCHANGED <<got, outcome>>
    /\ excused' = IF up /\ keychain \notin kept THEN excused ELSE excused \cup {p}
    /\ UNCHANGED <<stores, catalog, approved, issued, cmd, key, interval, waited, settled, may,
                   kept, early, skew>>

\* Any failure to read the file is taken for no token ...
LoadFile(p) ==
    /\ pc[p] = "loadfile"
    /\ IF file = NoFile THEN Loaded(p, 0) /\ UNCHANGED key
       ELSE /\ got' = [got EXCEPT ![p] = file.token] /\ key' = [key EXCEPT ![p] = file.key]
            /\ Goto(p, "loadkey") /\ UNCHANGED outcome
    /\ excused' = IF \E q \in Procs : pc[q] = "writefile" THEN excused \cup {p} ELSE excused
    /\ UNCHANGED <<stores, catalog, approved, issued, cmd, primaryFailed, interval, waited,
                   settled, may, kept, early, skew>>

\* ... as is a text that the machine key does not open.
LoadKey(p) ==
    /\ pc[p] = "loadkey"
    /\ Loaded(p, IF key[p] = machineKey THEN got[p] ELSE 0)
    /\ excused' = IF key[p] = machineKey THEN excused ELSE excused \cup {p}
    /\ UNCHANGED <<stores, catalog, approved, issued, cmd, key, primaryFailed, interval, waited,
                   settled, may, kept, early, skew>>

\* verifyMCPClient: a rejection after a refresh differs from any other failure.
Verdicts == {"ok", "rejected", "unreachable"}

\* auth status asks the server about the token it holds.
Verify(p) ==
    /\ pc[p] = "verify"
    /\ \E how \in Verdicts : End(p, how)
    /\ UNCHANGED <<stores, catalog, approved, issued, cmd, process, history>>

\* A command goes by a catalog that is cached and has not expired; otherwise it
\* fetches one with its token and leaves it for those that follow.
Lookup(p) ==
    /\ pc[p] = "lookup"
    /\ \/ catalog # 0 /\ End(p, "ok")
       \/ Goto(p, "fetch") /\ UNCHANGED outcome
    /\ UNCHANGED <<stores, catalog, approved, issued, cmd, process, history>>

Fetch(p) ==
    /\ pc[p] = "fetch"
    /\ End(p, "failed") \/ (Goto(p, "fill") /\ UNCHANGED outcome)
    /\ UNCHANGED <<stores, catalog, approved, issued, cmd, process, history>>

Fill(p) ==
    /\ pc[p] = "fill"
    /\ catalog' = got[p]
    /\ skew' = (p \in early \cup excused)
    /\ End(p, "ok")
    /\ UNCHANGED <<stores, approved, issued, cmd, process, settled, may, kept, excused, early>>

-----------------------------------------------------------------------------
\* The keychain gets locked or unlocked.
Outage ==
    /\ outages < MaxOutages
    /\ outages' = outages + 1
    /\ up' = ~up
    /\ UNCHANGED <<keychain, file, machineKey, keys, catalog, approved, issued, cmd, pc, process,
                   outcome, history>>

\* Interrupt or kill: what a write was to bring about may have happened or not,
\* and a login leaves the catalog.
Crash(p) ==
    /\ pc[p] \notin {"done", "dead"}
    /\ Goto(p, "dead")
    /\ settled' = IF p \notin Writers THEN settled
                  ELSE settled \cup may[p] \cup {t \in {0} : pc[p] = "writefile"}
    /\ IF pc[p] \in Saving \cup {"invalidate"}
       THEN skew' = TRUE /\ early' = UnderWay
       ELSE UNCHANGED <<skew, early>>
    /\ excused' = excused \cup {q \in Procs : pc[p] = "writefile" /\ pc[q] \in Loading}
    /\ UNCHANGED <<stores, catalog, approved, issued, cmd, process, outcome, may, kept>>

Step(p) ==
    \/ Begin(p) \/ Discover(p) \/ Register(p) \/ DeviceCode(p) \/ Callback(p)
    \/ ExchangeToken(p) \/ Sleep(p) \/ PollOnce(p)
    \/ SavePrimary(p) \/ ClearFallback(p) \/ ReadKey(p) \/ NewKey(p) \/ OpenFile(p) \/ WriteFile(p)
    \/ ClearPrimary(p) \/ ClearFile(p) \/ Invalidate(p)
    \/ LoadPrimary(p) \/ LoadFile(p) \/ LoadKey(p) \/ Verify(p) \/ Lookup(p) \/ Fetch(p) \/ Fill(p)

Terminating == (\A p \in Procs : pc[p] \in {"done", "dead"}) /\ UNCHANGED vars

Next == UserApproves \/ Outage \/ Terminating \/ \E p \in Procs : Step(p) \/ Crash(p)

Spec == Init /\ [][Next]_vars

\* The process keeps running.  Prompts, callbacks and device codes have time limits; a
\* request is taken to be answered or to fail in the end.
FairSpec == Spec /\ \A p \in Procs : WF_vars(Step(p))

-----------------------------------------------------------------------------
(* Properties. *)

Observers == {p \in Procs : /\ cmd[p].op \in {"status", "use"}
                            /\ pc[p] \notin Loading \cup {"begin", "dead"}}

\* A command finds the token that the last login or logout left, or the one of a
\* login or logout that overlaps with it, although the token moves between two
\* stores and a key.  Anything else takes a keychain that fails it or has kept an
\* item it should have replaced, a file that is half written or moved at that
\* moment, or two processes that made the machine key at a time (FallbackStore).
LoadIsExplained == \A p \in Observers : got[p] \in may[p] \/ p \in excused

\* Once a login is through, the tool catalog in the cache is not one that was
\* fetched with a former token; the exceptions are a command that was under way
\* while the login invalidated it, one that found another token for the reasons
\* above, and a login that was killed (invalidateProfileCaches).
CatalogFollowsLogin ==
    ~skew /\ 0 \notin settled /\ (\A p \in Procs : pc[p] \notin Saving \cup {"invalidate"})
        => catalog \in settled \cup {0}

\* Every command ends, also one that waits for the user to approve a device code.
EveryLoginEnds == \A p \in Procs : <>(pc[p] \in {"done", "dead"})
=============================================================================
