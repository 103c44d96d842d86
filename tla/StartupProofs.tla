------------------------------ MODULE StartupProofs ------------------------------
(***************************************************************************)
(* Proofs about Startup, for any number of processes and profiles, any     *)
(* commands and any number of tokens and steps of the world.               *)
(*                                                                         *)
(* What a process has resolved is tied to its place: its profile from the  *)
(* launch on, the profile of its identity from the account on, and the     *)
(* token it is about to remove between the comparison and the removal.     *)
(* The last is the one that other processes and the world may disturb.     *)
(***************************************************************************)
EXTENDS Startup, TLAPS

Places == {"launch", "account", "token", "stored", "lookup", "ask", "compare", "clear",
           "write", "build", "run", "over", "done"}
MaybeProfile == Profiles \cup {NoProfile}
CacheEntry == [by : MaybeProfile, stale : BOOLEAN, via : {"start", "inspect"}]

LEMMA Consts ==
    /\ NoProfile \notin Profiles /\ First \in Profiles /\ Selectable \subseteq Profiles
    /\ MaxToken \in Nat \ {0} /\ MaxEvents \in Nat
    /\ \A p \in Procs : Commands[p] \subseteq Command
  BY StartupAssumption

LEMMA CommandFacts ==
    ASSUME NEW c \in Command
    PROVE  c.root \in {"tool", "local", "offline", "inspect"} /\ c.profile \in MaybeProfile
  BY DEF Command, MaybeProfile

WorldType ==
    /\ current \in Profiles /\ store \in [Profiles -> Token]
    /\ cache \in [Profiles -> CacheEntry]
    /\ revoked \subseteq Token /\ issued \in Token /\ events \in 0 .. MaxEvents

\* What a process is, and what it has resolved.
ProcessType ==
    /\ \A p \in Procs : cmd[p] \in Commands[p]
    /\ pc \in [Procs -> Places] /\ handler \in [Procs -> BOOLEAN]
    /\ profile \in [Procs -> MaybeProfile] /\ effective \in [Procs -> MaybeProfile]
    /\ host \in [Procs -> BOOLEAN] /\ source \in [Procs -> {"unset", "given", "store"}]
    /\ token \in [Procs -> Token] /\ bootError \in [Procs -> BOOLEAN]

ResultType ==
    /\ tools \in [Procs -> MaybeProfile]
    /\ ran \in [Procs -> MaybeProfile] /\ filed \in [Procs -> MaybeProfile]
    /\ answer \in [Procs -> {"none", "listed", "missing", "rejected"}]
    /\ selected \in [Procs -> MaybeProfile]
    /\ overlapped \subseteq Procs /\ lost \subseteq Token \X Procs

\* Where a process has a profile, and where it has an identity that it goes on with.
Resolved == {"token", "stored", "lookup", "ask", "compare", "clear", "write", "build", "run"}
Identity == Resolved \cup {"account"}

\* From the launch on, the profile is the one that was given, if any.
Invoked(p) ==
    pc[p] \in Identity => profile[p] \in Profiles
                          /\ (cmd[p].profile # NoProfile => profile[p] = cmd[p].profile)

\* From the account on, the identity is that of the selected profile, if any.
HasIdentity(p) ==
    pc[p] \in Resolved =>
        /\ effective[p] \in Profiles
        /\ bootError[p] \/ effective[p] = (IF selected[p] = NoProfile THEN profile[p] ELSE selected[p])

Fresh(p) == pc[p] = "launch" => selected[p] = NoProfile
RanOver(p) == ran[p] # NoProfile => pc[p] = "over"

\* What is about to be removed is the token that was rejected, if any, unless a login
\* has come between.
Clears(p) == pc[p] = "clear" => store[effective[p]] \in {0, token[p]} \/ p \in overlapped

RunsRight(p) ==
    ran[p] # NoProfile =>
        /\ \/ ran[p] = (IF selected[p] = NoProfile THEN profile[p] ELSE selected[p])
           \/ bootError[p] /\ cmd[p].root = "local"
        /\ filed[p] = ran[p] \/ selected[p] \notin {NoProfile, filed[p]}
             \/ (cmd[p].profile = NoProfile /\ profile[p] # filed[p])

ProcInv(p) == Invoked(p) /\ HasIdentity(p) /\ Fresh(p) /\ RanOver(p) /\ RunsRight(p) /\ Clears(p)

StartTypes == WorldType /\ ProcessType /\ ResultType

StartInv ==
    /\ StartTypes /\ \A p \in Procs : ProcInv(p)
    /\ ForeignToolsOnlyByInspect /\ LoginLostOnlyByOverlap

-----------------------------------------------------------------------------
(* Types. *)

LEMMA TokenFacts ==
    /\ 0 \in Token /\ 1 \in Token /\ \A t \in Token : t \in Nat
    /\ \A t \in Token : t < MaxToken => t + 1 \in Token
  BY Consts DEF Token

LEMMA InitTypes == Init => StartTypes
<1> SUFFICES ASSUME Init PROVE StartTypes
  OBVIOUS
<1>1. WorldType
  <2>1. PICK in \in SUBSET Profiles :
          /\ store = [f \in Profiles |-> IF f \in in THEN 1 ELSE 0]
          /\ cache = [f \in Profiles |-> IF f \in in THEN [NoCache EXCEPT !.by = f] ELSE NoCache]
    BY DEF Init
  <2>2. store \in [Profiles -> Token]
    BY <2>1, TokenFacts
  <2>3. ASSUME NEW f \in Profiles PROVE cache[f] \in CacheEntry
    BY <2>1 DEF NoCache, CacheEntry, MaybeProfile
  <2>4. cache \in [Profiles -> CacheEntry]
    BY <2>1, <2>3
  <2>5. current \in Profiles /\ revoked \subseteq Token /\ issued \in Token /\ events \in 0 .. MaxEvents
    BY Consts, TokenFacts DEF Init
  <2> QED
    BY <2>2, <2>4, <2>5 DEF WorldType
<1>2. ProcessType
  BY TokenFacts DEF Init, ProcessType, Places, MaybeProfile
<1>3. ResultType
  BY DEF Init, ResultType, MaybeProfile
<1> QED
  BY <1>1, <1>2, <1>3 DEF StartTypes

\* A process changes the world only where it writes a cache or removes a token.
LEMMA QuietTypes ==
  ASSUME StartTypes, UNCHANGED world, ProcessType', ResultType'
  PROVE  StartTypes'
  BY DEF StartTypes, WorldType, world

LEMMA IdentityTypes ==
  ASSUME StartTypes, NEW p \in Procs, HasIdentity(p),
         Launch(p) \/ ResolveAccount(p) \/ ResolveToken(p) \/ AttachStored(p)
  PROVE  StartTypes'
<1> USE DEF Goto, Set, ExtensionFails, identity, found, history, Places
<1>t. WorldType /\ ProcessType /\ ResultType
  BY DEF StartTypes
<1>0. UNCHANGED world
  BY DEF Launch, ResolveAccount, ResolveToken, AttachStored
<1>1. CASE ExtensionFails(p)
  <2>1. ProcessType'
    BY <1>t, <1>1 DEF ProcessType
  <2>2. ResultType'
    BY <1>t, <1>1 DEF ResultType
  <2> QED
    BY <1>0, <2>1, <2>2, QuietTypes
<1>2. CASE Launch(p) /\ ~ExtensionFails(p)
  <2>1. (IF cmd[p].profile = NoProfile THEN current ELSE cmd[p].profile) \in Profiles
    <3>1. cmd[p] \in Command
      BY <1>t, Consts DEF ProcessType
    <3> QED
      BY <1>t, <3>1, CommandFacts DEF WorldType, MaybeProfile
  <2>2. ProcessType'
    BY <1>t, <1>2, <2>1 DEF Launch, ProcessType, MaybeProfile
  <2>3. ResultType'
    BY <1>t, <1>2 DEF Launch, ResultType
  <2> QED
    BY <1>0, <2>2, <2>3, QuietTypes
<1>3. CASE ResolveAccount(p) /\ ~ExtensionFails(p)
  <2>1. PICK f \in Selectable \cup {NoProfile}, h \in BOOLEAN :
          /\ effective' = Set(effective, p, IF f = NoProfile THEN profile[p] ELSE f)
          /\ selected' = Set(selected, p, f)
          /\ host' = Set(host, p, h)
          /\ Goto(p, "token")
          /\ UNCHANGED <<world, cmd, handler, profile, source, token, bootError, found,
                         ran, filed, overlapped, lost>>
    BY <1>3 DEF ResolveAccount
  <2>2. f \in MaybeProfile /\ (IF f = NoProfile THEN profile[p] ELSE f) \in MaybeProfile
    BY <1>t, Consts DEF ProcessType, MaybeProfile
  <2>3. ProcessType'
    BY <1>t, <2>1, <2>2 DEF ProcessType
  <2>4. ResultType'
    BY <1>t, <2>1, <2>2 DEF ResultType
  <2> QED
    BY <1>0, <2>3, <2>4, QuietTypes
<1>4. CASE ResolveToken(p) /\ ~ExtensionFails(p)
  <2>1. UNCHANGED <<cmd, handler, profile, token, found, ran, filed, history>>
    BY <1>4 DEF ResolveToken
  <2>2. PICK builtIn \in {"broken", "bare", "host", "token"}, known \in BOOLEAN :
          \/ ConfigFails(p)
          \/ Identified(p, known, "given") /\ Goto(p, "lookup")
          \/ Identified(p, known, "unset") /\ Goto(p, "stored")
    <3>1. ASSUME NEW b \in {"broken", "bare", "host", "token"}
          PROVE  (host[p] \/ b \in {"host", "token"}) \in BOOLEAN
      OBVIOUS
    <3> QED
      BY <1>4, <3>1 DEF ResolveToken
  <2>3. ProcessType'
    <3>1. CASE ConfigFails(p)
      BY <1>t, <2>1, <3>1 DEF ProcessType, ConfigFails
    <3>2. CASE \/ Identified(p, known, "given") /\ Goto(p, "lookup")
               \/ Identified(p, known, "unset") /\ Goto(p, "stored")
      BY <1>t, <2>1, <3>2 DEF ProcessType, Identified
    <3> QED
      BY <2>2, <3>1, <3>2
  <2>4. ResultType'
    BY <1>t, <2>1 DEF ResultType
  <2> QED
    BY <1>0, <2>3, <2>4, QuietTypes
<1>5. CASE AttachStored(p) /\ ~ExtensionFails(p)
  <2>1. store[effective[p]] \in Token
    BY <1>t, <1>5 DEF AttachStored, HasIdentity, Resolved, WorldType
  <2>2. ProcessType'
    BY <1>t, <1>5, <2>1 DEF AttachStored, ProcessType
  <2>3. ResultType'
    BY <1>t, <1>5 DEF AttachStored, ResultType
  <2> QED
    BY <1>0, <2>2, <2>3, QuietTypes
<1> QED
  BY <1>1, <1>2, <1>3, <1>4, <1>5

LEMMA CacheProfileType ==
  ASSUME StartTypes, NEW p \in Procs, Invoked(p), HasIdentity(p), pc[p] \in Resolved
  PROVE  CacheProfile(p) \in Profiles /\ effective[p] \in Profiles
  BY DEF CacheProfile, Invoked, HasIdentity, Identity

LEMMA ToolsTypes ==
  ASSUME StartTypes, NEW p \in Procs, Invoked(p), HasIdentity(p),
         Lookup(p) \/ Ask(p) \/ WriteCache(p) \/ CompareToken(p) \/ ClearToken(p)
  PROVE  StartTypes'
<1> USE DEF Goto, Set, identity, found, history, Places
<1>t. WorldType /\ ProcessType /\ ResultType
  BY DEF StartTypes
<1>p. CacheProfile(p) \in Profiles /\ effective[p] \in Profiles
  <2>1. pc[p] \in Resolved
    BY DEF Lookup, Ask, WriteCache, CompareToken, ClearToken, Resolved
  <2> QED
    BY <2>1, CacheProfileType
<1>1. CASE Lookup(p)
  <2>1. cache[CacheProfile(p)].by \in MaybeProfile
    BY <1>t, <1>p DEF WorldType, CacheEntry
  <2>2. UNCHANGED world /\ tools' = Set(tools, p, cache[CacheProfile(p)].by)
    BY <1>1 DEF Lookup
  <2>3. ProcessType'
    BY <1>t, <1>1 DEF Lookup, ProcessType
  <2>4. ResultType'
    BY <1>t, <1>1, <2>1, <2>2 DEF Lookup, ResultType
  <2> QED
    BY <2>2, <2>3, <2>4, QuietTypes
<1>2. CASE Ask(p)
  <2>1. PICK how \in {"listed", "missing", "rejected"} :
          /\ answer' = Set(answer, p, how)
          /\ tools' = Set(tools, p, CASE how = "listed" -> effective[p]
                                      [] how = "missing" -> tools[p]
                                      [] how = "rejected" -> NoProfile)
          /\ Goto(p, IF how = "listed" THEN "write"
                     ELSE IF how = "rejected" /\ source[p] = "store" THEN "compare"
                     ELSE "build")
    BY <1>2 DEF Ask
  <2>2. UNCHANGED <<world, cmd, handler, identity, ran, filed, history>>
    BY <1>2 DEF Ask
  <2>3. (CASE how = "listed" -> effective[p] [] how = "missing" -> tools[p]
           [] how = "rejected" -> NoProfile) \in MaybeProfile
    BY <1>t, <1>p DEF ResultType, MaybeProfile
  <2>4. ProcessType'
    BY <1>t, <2>1, <2>2 DEF ProcessType
  <2>5. ResultType'
    BY <1>t, <2>1, <2>2, <2>3 DEF ResultType
  <2> QED
    BY <2>2, <2>4, <2>5, QuietTypes
<1>3. CASE WriteCache(p)
  <2>1. [by |-> effective[p], stale |-> FALSE,
         via |-> IF handler[p] THEN "inspect" ELSE "start"] \in CacheEntry
    BY <1>p DEF CacheEntry, MaybeProfile
  <2>2. WorldType'
    BY <1>t, <1>3, <2>1 DEF WriteCache, WorldType
  <2>3. ProcessType'
    BY <1>t, <1>3 DEF WriteCache, ProcessType
  <2>4. ResultType'
    BY <1>t, <1>3 DEF WriteCache, ResultType
  <2> QED
    BY <2>2, <2>3, <2>4 DEF StartTypes
<1>4. CASE CompareToken(p)
  <2>1. ProcessType'
    BY <1>t, <1>4 DEF CompareToken, ProcessType
  <2>2. ResultType'
    BY <1>t, <1>4 DEF CompareToken, ResultType
  <2> QED
    BY <1>4, <2>1, <2>2, QuietTypes DEF CompareToken
<1>5. CASE ClearToken(p)
  <2>1. store[effective[p]] \in Token
    BY <1>t, <1>p DEF WorldType
  <2>2. WorldType'
    BY <1>t, <1>5, TokenFacts DEF ClearToken, WorldType
  <2>3. ProcessType'
    BY <1>t, <1>5 DEF ClearToken, ProcessType
  <2>4. lost' \subseteq Token \X Procs
    BY <1>t, <1>5, <2>1 DEF ClearToken, ResultType
  <2>5. ResultType'
    BY <1>t, <1>5, <2>4 DEF ClearToken, ResultType
  <2> QED
    BY <2>2, <2>3, <2>5 DEF StartTypes
<1> QED
  BY <1>1, <1>2, <1>3, <1>4, <1>5

LEMMA RunTypes ==
  ASSUME StartTypes, NEW p \in Procs, Invoked(p), HasIdentity(p), Build(p) \/ Run(p) \/ Exit(p)
  PROVE  StartTypes'
<1> USE DEF Goto, Set, identity, found, history, Places
<1>t. WorldType /\ ProcessType /\ ResultType
  BY DEF StartTypes
<1>0. UNCHANGED world
  BY DEF Build, Run, Exit
<1>1. CASE Build(p)
  <2>1. ProcessType'
    BY <1>t, <1>1 DEF Build, ProcessType
  <2>2. ResultType'
    BY <1>t, <1>1 DEF Build, ResultType
  <2> QED
    BY <1>0, <2>1, <2>2, QuietTypes
<1>2. CASE Run(p)
  <2>1. SessionProfile(p) \in MaybeProfile
    <3>1. cmd[p] \in Command
      BY <1>t, Consts DEF ProcessType
    <3> QED
      BY <1>t, <3>1, CommandFacts DEF SessionProfile, WorldType, MaybeProfile
  <2>2. RunsWith(p) \in MaybeProfile
    BY <1>t, <2>1 DEF RunsWith, ProcessType
  <2>3. ProcessType'
    BY <1>t, <1>2 DEF Run, ProcessType
  <2>4. ran' \in [Procs -> MaybeProfile] /\ filed' \in [Procs -> MaybeProfile]
    BY <1>t, <1>2, <2>1, <2>2 DEF Run, ResultType
  <2>5. ResultType'
    BY <1>t, <1>2, <2>4 DEF Run, ResultType
  <2> QED
    BY <1>0, <2>3, <2>5, QuietTypes
<1>3. CASE Exit(p)
  <2>1. ProcessType'
    BY <1>t, <1>3, TokenFacts DEF Exit, ProcessType, MaybeProfile
  <2>2. ResultType'
    BY <1>t, <1>3 DEF Exit, ResultType, MaybeProfile
  <2> QED
    BY <1>0, <2>1, <2>2, QuietTypes
<1> QED
  BY <1>1, <1>2, <1>3

LEMMA WorldTypes ==
  ASSUME StartTypes,
         \/ \E f \in Profiles : LoginElsewhere(f) \/ RefreshElsewhere(f) \/ SwitchProfile(f) \/ Age(f)
         \/ \E t \in Token : Revoke(t)
  PROVE  StartTypes'
<1>t. WorldType /\ ProcessType /\ ResultType
  BY DEF StartTypes
<1>0. UNCHANGED <<cmd, pc, handler, identity, found, ran, filed, selected, lost>>
      /\ events' = events + 1 /\ events < MaxEvents
  BY DEF LoginElsewhere, RefreshElsewhere, SwitchProfile, Age, Revoke, Around
<1>1. overlapped' \subseteq Procs
  BY <1>t DEF LoginElsewhere, RefreshElsewhere, SwitchProfile, Age, Revoke, Around, ResultType
<1>2. ProcessType'
  BY <1>t, <1>0 DEF ProcessType, identity
<1>3. ResultType'
  BY <1>t, <1>0, <1>1 DEF ResultType, found
<1>4. events' \in 0 .. MaxEvents
  <2>1. events \in 0 .. MaxEvents /\ MaxEvents \in Nat
    BY <1>t, Consts DEF WorldType
  <2> QED
    BY <1>0, <2>1
<1>n. ASSUME NEW f \in Profiles, NewToken(f)
      PROVE  store' \in [Profiles -> Token] /\ issued' \in Token
  <2>1. issued + 1 \in Token
    BY <1>t, <1>n, TokenFacts DEF WorldType, NewToken
  <2> QED
    BY <1>t, <1>n, <2>1 DEF NewToken, WorldType
<1>5. WorldType'
  <2>1. ASSUME NEW f \in Profiles, LoginElsewhere(f) PROVE WorldType'
    <3>1. NoCache \in CacheEntry
      BY DEF NoCache, CacheEntry, MaybeProfile
    <3>2. store' \in [Profiles -> Token] /\ issued' \in Token
      BY <1>n, <2>1 DEF LoginElsewhere
    <3> QED
      BY <1>t, <1>4, <2>1, <3>1, <3>2 DEF LoginElsewhere, Around, WorldType
  <2>2. ASSUME NEW f \in Profiles, RefreshElsewhere(f) PROVE WorldType'
    <3>2. store' \in [Profiles -> Token] /\ issued' \in Token
      BY <1>n, <2>2 DEF RefreshElsewhere
    <3> QED
      BY <1>t, <1>4, <2>2, <3>2 DEF RefreshElsewhere, Around, WorldType
  <2>3. ASSUME NEW f \in Profiles, SwitchProfile(f) PROVE WorldType'
    BY <1>t, <1>4, <2>3 DEF SwitchProfile, Around, WorldType
  <2>4. ASSUME NEW f \in Profiles, Age(f) PROVE WorldType'
    <3>1. [cache[f] EXCEPT !.stale = TRUE] \in CacheEntry
      BY <1>t DEF WorldType, CacheEntry
    <3>2. cache' = [cache EXCEPT ![f] = [cache[f] EXCEPT !.stale = TRUE]]
      BY <1>t, <2>4 DEF Age, WorldType
    <3>3. cache' \in [Profiles -> CacheEntry]
      BY <1>t, <3>1, <3>2 DEF WorldType
    <3> QED
      BY <1>t, <1>4, <2>4, <3>3 DEF Age, Around, WorldType
  <2>5. ASSUME NEW t \in Token, Revoke(t) PROVE WorldType'
    BY <1>t, <1>4, <2>5 DEF Revoke, Around, WorldType
  <2> QED
    BY <2>1, <2>2, <2>3, <2>4, <2>5
<1> QED
  BY <1>2, <1>3, <1>5 DEF StartTypes

-----------------------------------------------------------------------------
(* What a process has resolved. *)

\* A process that does not move itself: what it has resolved stays, and the token it is
\* about to remove may be removed by another process, or replaced by a login.
Stays(q) ==
    /\ cmd' = cmd /\ pc'[q] = pc[q] /\ profile'[q] = profile[q] /\ effective'[q] = effective[q]
    /\ selected'[q] = selected[q] /\ bootError'[q] = bootError[q] /\ token'[q] = token[q]
    /\ ran'[q] = ran[q] /\ filed'[q] = filed[q]
    /\ overlapped \subseteq overlapped'
    /\ pc[q] = "clear" => store'[effective[q]] \in {store[effective[q]], 0} \/ q \in overlapped'

LEMMA StaysRight ==
  ASSUME NEW q \in Procs, ProcInv(q), Stays(q)
  PROVE  ProcInv(q)'
<1>1. Invoked(q)' /\ HasIdentity(q)' /\ Fresh(q)' /\ RanOver(q)'
  BY DEF ProcInv, Stays, Invoked, HasIdentity, Fresh, RanOver
<1>2. RunsRight(q)'
  BY DEF ProcInv, Stays, RunsRight
<1>3. Clears(q)'
  BY DEF ProcInv, Stays, Clears
<1> QED
  BY <1>1, <1>2, <1>3 DEF ProcInv

LEMMA OthersStay ==
  ASSUME StartTypes, NEW p \in Procs, Step(p), NEW q \in Procs, q # p, HasIdentity(q)
  PROVE  Stays(q)
<1> USE DEF Goto, Set, identity, found, history, Stays
<1>t. /\ pc \in [Procs -> Places] /\ profile \in [Procs -> MaybeProfile]
      /\ effective \in [Procs -> MaybeProfile] /\ selected \in [Procs -> MaybeProfile]
      /\ bootError \in [Procs -> BOOLEAN] /\ token \in [Procs -> Token]
      /\ ran \in [Procs -> MaybeProfile] /\ filed \in [Procs -> MaybeProfile]
      /\ store \in [Profiles -> Token]
  BY DEF StartTypes, WorldType, ProcessType, ResultType
<1>1. CASE Launch(p)
  BY <1>t, <1>1 DEF Launch, ExtensionFails, world
<1>2. CASE ResolveAccount(p)
  BY <1>t, <1>2 DEF ResolveAccount, ExtensionFails, world
<1>3. CASE ResolveToken(p)
  BY <1>t, <1>3 DEF ResolveToken, ExtensionFails, ConfigFails, Identified, world
<1>4. CASE AttachStored(p)
  BY <1>t, <1>4 DEF AttachStored, world
<1>5. CASE Lookup(p)
  BY <1>t, <1>5 DEF Lookup, world
<1>6. CASE Ask(p)
  BY <1>t, <1>6 DEF Ask, world
<1>7. CASE WriteCache(p)
  BY <1>t, <1>7 DEF WriteCache
<1>8. CASE CompareToken(p)
  BY <1>t, <1>8 DEF CompareToken, world
<1>9. CASE ClearToken(p)
  <2>1. store' = [store EXCEPT ![effective[p]] = 0]
    BY <1>9 DEF ClearToken
  <2>2. pc[q] = "clear" => store'[effective[q]] \in {store[effective[q]], 0}
    <3>1. pc[q] = "clear" => effective[q] \in Profiles
      BY DEF HasIdentity, Resolved
    <3> QED
      BY <1>t, <2>1, <3>1
  <2> QED
    BY <1>t, <1>9, <2>2 DEF ClearToken
<1>10. CASE Build(p)
  BY <1>t, <1>10 DEF Build, world
<1>11. CASE Run(p)
  BY <1>t, <1>11 DEF Run, world
<1>12. CASE Exit(p)
  BY <1>t, <1>12 DEF Exit, world
<1> QED
  BY <1>1, <1>2, <1>3, <1>4, <1>5, <1>6, <1>7, <1>8, <1>9, <1>10, <1>11, <1>12 DEF Step

LEMMA WorldStays ==
  ASSUME StartTypes, NEW q \in Procs, HasIdentity(q),
         \/ \E f \in Profiles : LoginElsewhere(f) \/ RefreshElsewhere(f) \/ SwitchProfile(f) \/ Age(f)
         \/ \E t \in Token : Revoke(t)
  PROVE  Stays(q)
<1>t. store \in [Profiles -> Token]
  BY DEF StartTypes, WorldType
<1>0. UNCHANGED <<cmd, pc, identity, ran, filed, selected>>
  BY DEF LoginElsewhere, RefreshElsewhere, SwitchProfile, Age, Revoke, Around
<1>1. overlapped \subseteq overlapped'
  BY DEF LoginElsewhere, RefreshElsewhere, SwitchProfile, Age, Revoke, Around
<1>2. ASSUME pc[q] = "clear"
      PROVE  store'[effective[q]] \in {store[effective[q]], 0} \/ q \in overlapped'
  <2>0. effective[q] \in Profiles
    BY <1>2 DEF HasIdentity, Resolved
  <2>1. ASSUME NEW f \in Profiles, LoginElsewhere(f)
        PROVE  store'[effective[q]] = store[effective[q]] \/ q \in overlapped'
    BY <1>t, <1>2, <2>0, <2>1 DEF LoginElsewhere, NewToken
  <2>2. ASSUME NEW f \in Profiles, RefreshElsewhere(f)
        PROVE  store'[effective[q]] = store[effective[q]]
    BY <1>t, <1>2, <2>0, <2>2 DEF RefreshElsewhere, NewToken, Locked
  <2>3. ASSUME NEW f \in Profiles, SwitchProfile(f) \/ Age(f)
        PROVE  store' = store
    BY <2>3 DEF SwitchProfile, Age, Around
  <2>4. ASSUME NEW t \in Token, Revoke(t)
        PROVE  store' = store
    BY <2>4 DEF Revoke, Around
  <2> QED
    BY <2>1, <2>2, <2>3, <2>4
<1> QED
  BY <1>0, <1>1, <1>2 DEF Stays, identity

\* The process that moves.  Where it stays on the way of its identity, all that matters
\* is whether it is about to remove a token.
LEMMA MovesOn ==
  ASSUME NEW p \in Procs, ProcInv(p), pc[p] \in Resolved, pc'[p] \in Resolved \cup {"over"},
         cmd' = cmd, profile'[p] = profile[p], effective'[p] = effective[p],
         selected'[p] = selected[p], bootError'[p] = bootError[p],
         ran'[p] = ran[p], Clears(p)'
  PROVE  ProcInv(p)'
<1>1. ran[p] = NoProfile
  BY DEF ProcInv, RanOver, Resolved
<1>2. Invoked(p)' /\ HasIdentity(p)' /\ Fresh(p)' /\ RanOver(p)'
  BY <1>1 DEF ProcInv, Invoked, HasIdentity, Fresh, RanOver, Resolved, Identity
<1>3. RunsRight(p)'
  BY <1>1 DEF RunsRight
<1> QED
  BY <1>2, <1>3 DEF ProcInv

LEMMA IdentityRight ==
  ASSUME StartTypes, NEW p \in Procs, ProcInv(p),
         Launch(p) \/ ResolveAccount(p) \/ ResolveToken(p) \/ AttachStored(p)
  PROVE  ProcInv(p)'
<1> USE DEF Goto, Set, identity, found, history
<1>t. /\ pc \in [Procs -> Places] /\ profile \in [Procs -> MaybeProfile]
      /\ effective \in [Procs -> MaybeProfile] /\ selected \in [Procs -> MaybeProfile]
      /\ bootError \in [Procs -> BOOLEAN] /\ token \in [Procs -> Token]
      /\ current \in Profiles /\ cmd[p] \in Command
  BY Consts DEF StartTypes, WorldType, ProcessType, ResultType
<1>r. ran[p] = NoProfile /\ ran' = ran
  BY DEF ProcInv, RanOver, Launch, ResolveAccount, ResolveToken, AttachStored, ExtensionFails
<1>s. RunsRight(p)' /\ RanOver(p)'
  BY <1>r DEF RunsRight, RanOver
<1>1. CASE ExtensionFails(p)
  <2>1. pc'[p] = "over"
    BY <1>t, <1>1 DEF ExtensionFails
  <2> QED
    BY <1>s, <2>1
       DEF ProcInv, Invoked, HasIdentity, Fresh, Clears, Resolved, Identity
<1>2. CASE Launch(p) /\ ~ExtensionFails(p)
  <2>1. PICK named \in Profiles :
          /\ named = IF cmd[p].profile = NoProfile THEN current ELSE cmd[p].profile
          /\ profile' = Set(profile, p, named) /\ effective' = Set(effective, p, named)
          /\ pc' = Set(pc, p, IF cmd[p].root \in {"tool", "local"} THEN "account" ELSE "lookup")
          /\ UNCHANGED <<world, cmd, bootError, selected>>
    <3>1. (IF cmd[p].profile = NoProfile THEN current ELSE cmd[p].profile) \in Profiles
      BY <1>t, CommandFacts DEF MaybeProfile
    <3> QED
      BY <1>2, <3>1 DEF Launch
  <2>2. pc'[p] \in {"account", "lookup"} /\ profile'[p] = named /\ effective'[p] = named
    BY <1>t, <2>1
  <2>3. selected'[p] = NoProfile
    BY <1>2, <2>1 DEF ProcInv, Fresh, Launch
  <2> QED
    BY <1>s, <2>1, <2>2, <2>3
       DEF ProcInv, Invoked, HasIdentity, Fresh, Clears, Resolved, Identity
<1>3. CASE ResolveAccount(p) /\ ~ExtensionFails(p)
  <2>1. PICK f \in Selectable \cup {NoProfile} :
          /\ effective' = Set(effective, p, IF f = NoProfile THEN profile[p] ELSE f)
          /\ selected' = Set(selected, p, f)
          /\ Goto(p, "token")
          /\ UNCHANGED <<cmd, profile>>
    BY <1>3 DEF ResolveAccount
  <2>2. pc[p] = "account" /\ pc'[p] = "token" /\ selected'[p] = f
        /\ effective'[p] = IF f = NoProfile THEN profile[p] ELSE f
    <3>1. pc[p] = "account"
      BY <1>3 DEF ResolveAccount
    <3> QED
      BY <1>t, <2>1, <3>1
  <2>3. effective'[p] \in Profiles
    BY <2>2, Consts DEF ProcInv, Invoked, Identity
  <2> QED
    BY <1>s, <2>1, <2>2, <2>3
       DEF ProcInv, Invoked, HasIdentity, Fresh, Clears, Resolved, Identity
<1>4. CASE ResolveToken(p) /\ ~ExtensionFails(p)
  <2>0. pc[p] = "token"
    BY <1>4 DEF ResolveToken
  <2>1. UNCHANGED <<world, cmd, handler, profile, found, ran, filed, history>>
    BY <1>4 DEF ResolveToken
  <2>2. \/ ConfigFails(p)
        \/ /\ UNCHANGED <<effective, bootError>>
           /\ Goto(p, "lookup") \/ Goto(p, "stored")
    BY <1>4 DEF ResolveToken, Identified
  <2>3. CASE ConfigFails(p)
    <3>1. pc'[p] \in {"over", "build"} /\ bootError'[p] = TRUE /\ effective'[p] = profile[p]
      BY <1>t, <2>3 DEF ConfigFails
    <3>2. profile[p] \in Profiles /\ (cmd[p].profile # NoProfile => profile[p] = cmd[p].profile)
      BY <2>0 DEF ProcInv, Invoked, Identity, Resolved
    <3> QED
      BY <1>s, <2>1, <3>1, <3>2
         DEF ProcInv, Invoked, HasIdentity, Fresh, Clears, Resolved, Identity
  <2>4. CASE /\ UNCHANGED <<effective, bootError>>
             /\ Goto(p, "lookup") \/ Goto(p, "stored")
    <3>1. pc'[p] \in {"lookup", "stored"}
      BY <1>t, <2>4
    <3>2. Clears(p)'
      BY <3>1 DEF Clears
    <3> QED
      BY <1>r, <2>0, <2>1, <2>4, <3>1, <3>2, MovesOn DEF Resolved
  <2> QED
    BY <2>2, <2>3, <2>4
<1>5. CASE AttachStored(p) /\ ~ExtensionFails(p)
  <2>1. pc[p] = "stored" /\ pc'[p] = "lookup"
    BY <1>t, <1>5 DEF AttachStored
  <2>2. Clears(p)'
    BY <2>1 DEF Clears
  <2> QED
    BY <1>5, <2>1, <2>2, MovesOn DEF AttachStored, Resolved
<1> QED
  BY <1>1, <1>2, <1>3, <1>4, <1>5

LEMMA ToolsRight ==
  ASSUME StartTypes, NEW p \in Procs, ProcInv(p),
         Lookup(p) \/ Ask(p) \/ WriteCache(p) \/ CompareToken(p) \/ ClearToken(p) \/ Build(p)
  PROVE  ProcInv(p)'
<1> USE DEF Goto, Set, identity, found, history
<1>t. /\ pc \in [Procs -> Places]
      /\ store \in [Profiles -> Token] /\ effective \in [Procs -> MaybeProfile]
  BY DEF StartTypes, WorldType, ProcessType
<1>1. pc[p] \in Resolved
  BY DEF Lookup, Ask, WriteCache, CompareToken, ClearToken, Build, Resolved
<1>2. UNCHANGED <<cmd, identity, ran, selected>>
  BY DEF Lookup, Ask, WriteCache, CompareToken, ClearToken, Build
<1>3. CASE Lookup(p) \/ Ask(p)
  <2>1. pc'[p] \in {"ask", "write", "compare", "build"}
    BY <1>t, <1>3 DEF Lookup, Ask
  <2> QED
    BY <1>1, <1>2, <2>1, MovesOn DEF Resolved, Clears
<1>4. CASE WriteCache(p) \/ ClearToken(p) \/ Build(p)
  <2>1. pc'[p] \in {"build", "over", "run"}
    BY <1>t, <1>4 DEF WriteCache, ClearToken, Build
  <2> QED
    BY <1>1, <1>2, <2>1, MovesOn DEF Resolved, Clears
<1>5. CASE CompareToken(p)
  <2>1. \/ pc'[p] = "build"
        \/ pc'[p] = "clear" /\ store[effective[p]] = token[p]
    BY <1>t, <1>5 DEF CompareToken
  <2>2. UNCHANGED <<store, effective, token>>
    BY <1>5 DEF CompareToken, world
  <2>3. Clears(p)'
    BY <2>1, <2>2 DEF Clears
  <2> QED
    BY <1>1, <1>2, <2>1, <2>3, MovesOn DEF Resolved
<1> QED
  BY <1>3, <1>4, <1>5

LEMMA RunRight ==
  ASSUME StartTypes, NEW p \in Procs, ProcInv(p), Run(p)
  PROVE  ProcInv(p)'
<1> USE DEF Goto, Set, identity, found, history
<1>t. /\ pc \in [Procs -> Places] /\ ran \in [Procs -> MaybeProfile]
      /\ filed \in [Procs -> MaybeProfile] /\ pc[p] = "run" /\ bootError[p] \in BOOLEAN
  BY DEF StartTypes, ProcessType, ResultType, Run
<1>0. UNCHANGED <<world, cmd, identity, selected>>
  BY DEF Run
<1>i. /\ profile[p] \in Profiles /\ (cmd[p].profile # NoProfile => profile[p] = cmd[p].profile)
      /\ bootError[p] \/ effective[p] = (IF selected[p] = NoProfile THEN profile[p] ELSE selected[p])
      /\ ran[p] = NoProfile
  BY <1>t DEF ProcInv, Invoked, HasIdentity, RanOver, Identity, Resolved
\* The inspect command resolves once more.
<1>1. CASE Goto(p, "account") /\ UNCHANGED <<ran, filed>>
  <2>1. pc'[p] = "account"
    BY <1>t, <1>1
  <2> QED
    BY <1>0, <1>1, <1>i, <2>1
       DEF ProcInv, Invoked, HasIdentity, Fresh, RanOver, RunsRight, Clears, Identity, Resolved
\* The command runs.
<1>2. CASE /\ cmd[p].root = "local" \/ (cmd[p].root = "tool" /\ Built(p) = "tools")
           /\ ran' = Set(ran, p, RunsWith(p))
           /\ filed' = Set(filed, p, SessionProfile(p))
           /\ Goto(p, "over")
  <2>1. pc'[p] = "over" /\ ran'[p] = RunsWith(p) /\ filed'[p] = SessionProfile(p)
    BY <1>t, <1>2
  <2>2. bootError[p] => cmd[p].root = "local"
    BY <1>2 DEF Built
  <2>3. CASE bootError[p]
    <3>1. ran'[p] = filed'[p]
      BY <2>1, <2>3 DEF RunsWith
    <3>2. RunsRight(p)'
      BY <1>0, <2>2, <2>3, <3>1 DEF RunsRight
    <3> QED
      BY <2>1, <3>2
         DEF ProcInv, Invoked, HasIdentity, Fresh, RanOver, Clears, Identity, Resolved
  <2>4. CASE ~bootError[p]
    <3>1. ran'[p] = IF selected[p] = NoProfile THEN profile[p] ELSE selected[p]
      BY <1>i, <2>1, <2>4 DEF RunsWith
    <3>2. cmd[p].profile = NoProfile \/ filed'[p] = profile[p]
      BY <1>i, <2>1 DEF SessionProfile
    <3>3. RunsRight(p)'
      BY <1>0, <3>1, <3>2 DEF RunsRight
    <3> QED
      BY <2>1, <3>3
         DEF ProcInv, Invoked, HasIdentity, Fresh, RanOver, Clears, Identity, Resolved
  <2> QED
    BY <1>t, <2>3, <2>4
<1>3. CASE Goto(p, "over") /\ UNCHANGED <<ran, filed>>
  <2>1. pc'[p] = "over"
    BY <1>t, <1>3
  <2> QED
    BY <1>0, <1>3, <1>i, <2>1
       DEF ProcInv, Invoked, HasIdentity, Fresh, RanOver, RunsRight, Clears, Identity, Resolved
<1> QED
  BY <1>1, <1>2, <1>3 DEF Run

LEMMA ExitRight ==
  ASSUME StartTypes, NEW p \in Procs, ProcInv(p), Exit(p)
  PROVE  ProcInv(p)'
<1>1. /\ pc \in [Procs -> Places] /\ ran \in [Procs -> MaybeProfile]
  BY DEF StartTypes, ProcessType, ResultType
<1>2. pc'[p] = "done" /\ ran'[p] = NoProfile
  BY <1>1 DEF Exit, Goto, Set
<1> QED
  BY <1>2 DEF ProcInv, Invoked, HasIdentity, Fresh, RanOver, RunsRight, Clears, Identity, Resolved

-----------------------------------------------------------------------------
(* The caches, and what is removed. *)

LEMMA CachesRight ==
  ASSUME StartTypes, ForeignToolsOnlyByInspect, [Next]_vars,
         \A p \in Procs : ProcInv(p)
  PROVE  ForeignToolsOnlyByInspect'
<1>t. cache \in [Profiles -> CacheEntry]
  BY DEF StartTypes, WorldType
<1> SUFFICES ASSUME NEW f \in Profiles, cache'[f].by \notin {NoProfile, f}
             PROVE  cache'[f].via = "inspect"
  BY DEF ForeignToolsOnlyByInspect
<1>1. CASE cache' = cache
  BY <1>1 DEF ForeignToolsOnlyByInspect
<1>2. ASSUME NEW p \in Procs, Step(p), cache' # cache
      PROVE  cache'[f].via = "inspect"
  <2>1. WriteCache(p)
    BY <1>2
       DEF Step, Launch, ResolveAccount, ResolveToken, ExtensionFails, AttachStored, Lookup, Ask,
           CompareToken, ClearToken, Build, Run, Exit, world
  <2> DEFINE entry == [by |-> effective[p], stale |-> FALSE,
                       via |-> IF handler[p] THEN "inspect" ELSE "start"]
  <2>2. cache' = [cache EXCEPT ![CacheProfile(p)] = entry]
    BY <2>1 DEF WriteCache
  <2>3. CASE f = CacheProfile(p)
    <3>1. cache'[f] = entry
      BY <1>t, <2>2, <2>3
    <3>2. handler[p]
      BY <2>3, <3>1 DEF CacheProfile
    <3> QED
      BY <3>1, <3>2
  <2>4. CASE f # CacheProfile(p)
    <3>1. cache'[f] = cache[f]
      BY <1>t, <2>2, <2>4
    <3> QED
      BY <3>1 DEF ForeignToolsOnlyByInspect
  <2> QED
    BY <2>3, <2>4
<1>3. ASSUME NEW g \in Profiles, LoginElsewhere(g)
      PROVE  cache'[f].via = "inspect"
  <2>1. cache' = [cache EXCEPT ![g] = NoCache]
    BY <1>3 DEF LoginElsewhere
  <2>2. cache'[f] = cache[f] \/ cache'[f].by = NoProfile
    BY <1>t, <2>1 DEF NoCache
  <2> QED
    BY <2>2 DEF ForeignToolsOnlyByInspect
<1>4. ASSUME NEW g \in Profiles, Age(g)
      PROVE  cache'[f].via = "inspect"
  <2>1. cache' = [cache EXCEPT ![g].stale = TRUE]
    BY <1>4 DEF Age
  <2>2. cache'[f].by = cache[f].by /\ cache'[f].via = cache[f].via
    BY <1>t, <2>1 DEF CacheEntry
  <2> QED
    BY <2>2 DEF ForeignToolsOnlyByInspect
<1>5. ASSUME NEW g \in Profiles, RefreshElsewhere(g) \/ SwitchProfile(g) PROVE cache' = cache
  BY <1>5 DEF RefreshElsewhere, SwitchProfile, Around
<1>6. ASSUME NEW t \in Token, Revoke(t) PROVE cache' = cache
  BY <1>6 DEF Revoke, Around
<1> QED
  BY <1>1, <1>2, <1>3, <1>4, <1>5, <1>6 DEF Next, vars, world

LEMMA LossesRight ==
  ASSUME StartTypes, LoginLostOnlyByOverlap, [Next]_vars,
         \A p \in Procs : ProcInv(p)
  PROVE  LoginLostOnlyByOverlap'
<1>1. overlapped \subseteq overlapped'
  BY DEF Next, Step, Launch, ResolveAccount, ResolveToken, ExtensionFails, AttachStored, Lookup,
         Ask, WriteCache, CompareToken, ClearToken, Build, Run, Exit, LoginElsewhere,
         RefreshElsewhere, SwitchProfile, Age, Revoke, Around, vars, history
<1>2. CASE lost' = lost
  BY <1>1, <1>2 DEF LoginLostOnlyByOverlap
<1>3. CASE lost' # lost
  <2>1. PICK p \in Procs : ClearToken(p)
    BY <1>3
       DEF Next, Step, Launch, ResolveAccount, ResolveToken, ExtensionFails, AttachStored, Lookup,
           Ask, WriteCache, CompareToken, Build, Run, Exit, LoginElsewhere, RefreshElsewhere,
           SwitchProfile, Age, Revoke, Around, vars, history
  <2>2. store[effective[p]] \in {0, token[p]} \/ p \in overlapped
    BY <2>1 DEF ProcInv, Clears, ClearToken
  <2>3. lost' = lost \cup ({<<store[effective[p]], p>>} \ {<<0, p>>, <<token[p], p>>})
    BY <2>1 DEF ClearToken
  <2>4. ASSUME NEW l \in lost' PROVE l[2] \in overlapped
    <3>1. CASE l \in lost
      BY <3>1 DEF LoginLostOnlyByOverlap
    <3>2. CASE l = <<store[effective[p]], p>> /\ l \notin {<<0, p>>, <<token[p], p>>}
      BY <2>2, <3>2
    <3> QED
      BY <2>3, <2>4, <3>1, <3>2
  <2> QED
    BY <1>1, <2>4 DEF LoginLostOnlyByOverlap
<1> QED
  BY <1>2, <1>3

-----------------------------------------------------------------------------
LEMMA InitStart == Init => StartInv
<1> SUFFICES ASSUME Init PROVE StartInv
  OBVIOUS
<1>1. \A p \in Procs : ProcInv(p)
  BY DEF Init, ProcInv, Invoked, HasIdentity, Fresh, RanOver, RunsRight, Clears, Identity, Resolved
<1>2. ForeignToolsOnlyByInspect
  BY DEF Init, ForeignToolsOnlyByInspect, NoCache
<1>3. LoginLostOnlyByOverlap
  BY DEF Init, LoginLostOnlyByOverlap
<1> QED
  BY <1>1, <1>2, <1>3, InitTypes DEF StartInv

LEMMA NextStart == StartInv /\ [Next]_vars => StartInv'
<1> SUFFICES ASSUME StartInv, [Next]_vars PROVE StartInv'
  OBVIOUS
<1>0. StartTypes /\ \A p \in Procs : ProcInv(p)
  BY DEF StartInv
<1>1. \A p \in Procs : Invoked(p) /\ HasIdentity(p)
  BY <1>0 DEF ProcInv
<1>2. ForeignToolsOnlyByInspect' /\ LoginLostOnlyByOverlap'
  BY <1>0, CachesRight, LossesRight DEF StartInv
<1>3. CASE UNCHANGED vars
  <2>1. StartTypes'
    BY <1>0, <1>3
       DEF StartTypes, WorldType, ProcessType, ResultType, vars, world, identity, found, history
  <2>2. ASSUME NEW q \in Procs PROVE Stays(q)
    BY <1>3 DEF Stays, vars, world, identity, history
  <2> QED
    BY <1>0, <1>2, <2>1, <2>2, StaysRight DEF StartInv
<1>4. ASSUME NEW p \in Procs, Step(p) PROVE StartInv'
  <2>1. StartTypes'
    BY <1>0, <1>1, <1>4, IdentityTypes, ToolsTypes, RunTypes DEF Step
  <2>2. ProcInv(p)'
    BY <1>0, <1>4, IdentityRight, ToolsRight, RunRight, ExitRight DEF Step
  <2>3. ASSUME NEW q \in Procs, q # p PROVE ProcInv(q)'
    BY <1>0, <1>1, <1>4, <2>3, OthersStay, StaysRight
  <2> QED
    BY <1>2, <2>1, <2>2, <2>3 DEF StartInv
<1>5. CASE \/ \E f \in Profiles :
                LoginElsewhere(f) \/ RefreshElsewhere(f) \/ SwitchProfile(f) \/ Age(f)
           \/ \E t \in Token : Revoke(t)
  <2>1. StartTypes'
    BY <1>0, <1>5, WorldTypes
  <2>2. ASSUME NEW q \in Procs PROVE ProcInv(q)'
    BY <1>0, <1>1, <1>5, WorldStays, StaysRight
  <2> QED
    BY <1>2, <2>1, <2>2 DEF StartInv
<1> QED
  BY <1>3, <1>4, <1>5 DEF Next

THEOREM Inductive == Spec => []StartInv
  BY InitStart, NextStart, PTL DEF Spec

\* What the start keeps has its type, however many processes run.
THEOREM TypeCorrect == Spec => []TypeOK
<1>1. StartInv => TypeOK
  BY DEF StartInv, StartTypes, WorldType, ProcessType, ResultType, TypeOK, Places, MaybeProfile,
         CacheEntry
<1> QED
  BY <1>1, Inductive, PTL

\* A tool cache holds another profile's tools only if an inspect has filed them there.
THEOREM CachesAreOwn == Spec => []ForeignToolsOnlyByInspect
<1>1. StartInv => ForeignToolsOnlyByInspect
  BY DEF StartInv
<1> QED
  BY <1>1, Inductive, PTL

\* A command runs with the identity that was selected for it, whatever is switched,
\* stored or revoked between its start and its run.
THEOREM RunsSelected == Spec => []RunsAsSelected
<1>1. StartInv => RunsAsSelected
  BY DEF StartInv, ProcInv, RunsRight, RunsAsSelected
<1> QED
  BY <1>1, Inductive, PTL

\* A start removes no token but the one that was rejected, unless a login comes between
\* its comparison and its removal.
THEOREM LossesByOverlap == Spec => []LoginLostOnlyByOverlap
<1>1. StartInv => LoginLostOnlyByOverlap
  BY DEF StartInv
<1> QED
  BY <1>1, Inductive, PTL
=================================================================================
