------------------------------ MODULE LoginProofs ------------------------------
(***************************************************************************)
(* Proofs about Login, for any processes, commands, tokens, keys and       *)
(* outages, with kills anywhere.                                           *)
(*                                                                         *)
(* LoadIsExplained rests on what everybody announces: a writer or a load   *)
(* knows the effect of every writer it overlaps with (OverlapInv), each    *)
(* store holds what may be stored now (StoreInv), and whoever has passed   *)
(* a store explains what was in it (WriterInv, LoadInv).                   *)
(* CatalogFollowsLogin adds that a command under way, unless a login has   *)
(* come in between, looks for a token that may still be stored (UseInv).   *)
(***************************************************************************)
EXTENDS Login, TLAPS

\* The interval of the device code that nobody has slowed down.
Base == IF Interval < 1 THEN 1 ELSE Interval

\* Every round of the poll lasts at least a step, and raises the interval by one at most.
RoundInv(p) ==
    /\ Base <= interval[p] /\ interval[p] <= Base + ExpiresIn
    /\ waited[p] <= Base + 2 * ExpiresIn
    /\ pc[p] \in {"begin", "discover", "register", "code"} => interval[p] = Base
    /\ pc[p] = "sleep" => interval[p] - Base <= waited[p]
    /\ pc[p] = "poll" /\ cmd[p].op # "once" =>
         interval[p] - Base < waited[p] /\ interval[p] - Base < ExpiresIn

\* Only commands that use a token load one, and only one that uses it goes by a catalog.
PlaceInv(p) ==
    /\ pc[p] \in Loading => cmd[p].op \in {"status", "use"}
    /\ pc[p] \in {"lookup", "fetch", "fill"} => cmd[p].op = "use"

\* The parts of TypeOK.
Labels == Saving \cup Removing \cup Loading \cup
            {"begin", "discover", "register", "code", "callback", "exchange", "sleep", "poll",
             "invalidate", "verify", "lookup", "fetch", "fill", "done", "dead"}
Outcomes == {"none", "ok", "pending", "refused", "failed", "expired", "anonymous", "rejected",
             "unreachable"}
StoreTyped ==
    /\ keychain \in Token /\ up \in BOOLEAN
    /\ file \in [token : Token, key : 0 .. MaxKeys] /\ machineKey \in 0 .. MaxKeys
    /\ catalog \in Token /\ approved \in BOOLEAN
    /\ issued \in Token /\ keys \in 0 .. MaxKeys /\ outages \in 0 .. MaxOutages
PlaceTyped ==
    /\ \A p \in Procs : cmd[p] \in Commands[p]
    /\ pc \in [Procs -> Labels] /\ outcome \in [Procs -> Outcomes]
HandTyped ==
    /\ got \in [Procs -> Token] /\ key \in [Procs -> 0 .. MaxKeys]
    /\ primaryFailed \in [Procs -> BOOLEAN]
RoundTyped ==
    /\ interval \in [Procs -> 1 .. Interval + ExpiresIn + 1]
    /\ waited \in [Procs -> 0 .. Interval + 2 * ExpiresIn + 1]
HistoryTyped ==
    /\ settled \subseteq Token /\ may \in [Procs -> SUBSET Token]
    /\ kept \subseteq Token /\ excused \subseteq Procs /\ early \subseteq Procs /\ skew \in BOOLEAN

LEMMA TypeParts == TypeOK <=> StoreTyped /\ PlaceTyped /\ HandTyped /\ RoundTyped /\ HistoryTyped
  BY Zenon DEF TypeOK, StoreTyped, PlaceTyped, HandTyped, RoundTyped, HistoryTyped, Labels, Outcomes

TypeInv ==
    /\ StoreTyped /\ PlaceTyped /\ HandTyped /\ RoundTyped /\ HistoryTyped
    /\ \A p \in Procs : RoundInv(p) /\ PlaceInv(p)

LEMMA BaseTyped == Base \in Nat /\ 1 <= Base /\ Base <= Interval + 1
  BY LoginAssumption DEF Base

LEMMA InitTyped == Init => TypeInv
<1> SUFFICES ASSUME Init PROVE TypeInv
  OBVIOUS
<1> USE LoginAssumption, BaseTyped
<1>1. issued \in {0, 1} /\ keys \in {0, 1} /\ keychain \in {0, 1}
      /\ file \in {NoFile, [token |-> 1, key |-> 1]}
  BY DEF Init
<1>2. issued \in Token /\ keychain \in Token /\ catalog \in Token /\ keys \in 0 .. MaxKeys
      /\ machineKey \in 0 .. MaxKeys
  BY <1>1 DEF Init, Token
<1>3. file \in [token : Token, key : 0 .. MaxKeys]
  BY <1>1 DEF NoFile, Token
<1>4. \A p \in Procs : cmd[p] \in Commands[p]
  BY DEF Init
<1>5. up \in BOOLEAN /\ outages = 0 /\ approved = FALSE
  BY DEF Init
<1>6. pc = [p \in Procs |-> "begin"] /\ got = [p \in Procs |-> 0] /\ key = [p \in Procs |-> 0]
      /\ primaryFailed = [p \in Procs |-> FALSE] /\ interval = [p \in Procs |-> Base]
      /\ waited = [p \in Procs |-> 0] /\ outcome = [p \in Procs |-> "none"]
  BY DEF Init, Base
<1>7. settled = {issued} /\ may = [p \in Procs |-> {}] /\ kept = {} /\ excused = {} /\ early = {}
      /\ skew = FALSE
  BY DEF Init
<1>8. StoreTyped
  <2>1. outages \in 0 .. MaxOutages
    BY <1>5
  <2>2. approved \in BOOLEAN
    BY <1>5, Zenon
  <2> QED BY <1>2, <1>3, <1>5, <2>1, <2>2, Zenon DEF StoreTyped
<1>9. PlaceTyped /\ HandTyped /\ RoundTyped
  BY <1>4, <1>6 DEF PlaceTyped, HandTyped, RoundTyped, Labels, Outcomes, Token
<1>10. HistoryTyped
  BY <1>2, <1>7 DEF HistoryTyped
<1>11. ASSUME NEW p \in Procs PROVE RoundInv(p) /\ PlaceInv(p)
  BY <1>6 DEF RoundInv, PlaceInv, Loading
<1> QED BY <1>8, <1>9, <1>10, <1>11 DEF TypeInv

\* What a command announces that begins to store, to remove or to load.
LEMMA AnnouncedTyped ==
  ASSUME TypeInv, NEW p \in Procs, NEW t \in Token, WriteBegins(p, t) \/ LoadBegins(p)
  PROVE  may' \in [Procs -> SUBSET Token]
<1>1. {Effect(r) : r \in Writers} \subseteq Token
  BY LoginAssumption DEF Effect, Writers, TypeInv, HandTyped, Token
<1>2. settled \subseteq Token /\ may \in [Procs -> SUBSET Token]
  BY DEF TypeInv, HistoryTyped
<1>3. CASE WriteBegins(p, t)
  <2>1. \A q \in Procs : may[q] \cup {t} \subseteq Token
    BY <1>2
  <2>2. {t} \cup {Effect(r) : r \in Writers} \subseteq Token
    BY <1>1
  <2> QED BY <1>2, <1>3, <2>1, <2>2 DEF WriteBegins
<1>4. CASE LoadBegins(p)
  BY <1>1, <1>2, <1>4 DEF LoadBegins
<1> QED BY <1>3, <1>4

LEMMA TypeStep == ASSUME TypeInv, [Next]_vars PROVE TypeInv'
<1> USE LoginAssumption, BaseTyped
<1> USE DEF TypeInv, StoreTyped, PlaceTyped, HandTyped, RoundTyped, HistoryTyped, Labels, Outcomes,
      RoundInv, PlaceInv, stores, process, history, Goto, End, Saving, Removing,
      Loading, Token
<1>1. ASSUME NEW p \in Procs, Begin(p) PROVE TypeInv'
  <2>1. StoreTyped'
    BY <1>1 DEF Begin, WriteBegins, LoadBegins, Writers, Effect
  <2>2. PlaceTyped'
    BY <1>1 DEF Begin, WriteBegins, LoadBegins, Writers, Effect
  <2>3. HandTyped'
    BY <1>1 DEF Begin, WriteBegins, LoadBegins, Writers, Effect
  <2>4. RoundTyped'
    BY <1>1 DEF Begin, WriteBegins, LoadBegins, Writers, Effect
  <2>5. HistoryTyped'
    <3>1. 0 \in Token
      BY DEF Token
    <3>2. may' \in [Procs -> SUBSET Token]
      <4>1. CASE UNCHANGED may
        BY <4>1
      <4>2. CASE WriteBegins(p, 0) \/ LoadBegins(p)
        BY <3>1, <4>2, AnnouncedTyped
      <4> QED BY <1>1, <4>1, <4>2, Zenon DEF Begin
    <3> QED BY <1>1, <3>2 DEF Begin
  <2>6. (\A q \in Procs : RoundInv(q) /\ PlaceInv(q))'
    BY <1>1 DEF Begin, WriteBegins, LoadBegins, Writers, Effect
  <2> QED BY <2>1, <2>2, <2>3, <2>4, <2>5, <2>6, Zenon DEF TypeInv
<1>2. ASSUME NEW p \in Procs, Discover(p) PROVE TypeInv'
  <2>1. StoreTyped'
    BY <1>2 DEF Discover
  <2>2. PlaceTyped'
    BY <1>2 DEF Discover
  <2>3. HandTyped'
    BY <1>2 DEF Discover
  <2>4. RoundTyped'
    BY <1>2 DEF Discover
  <2>5. HistoryTyped'
    BY <1>2 DEF Discover
  <2>6. (\A q \in Procs : RoundInv(q) /\ PlaceInv(q))'
    BY <1>2 DEF Discover
  <2> QED BY <2>1, <2>2, <2>3, <2>4, <2>5, <2>6, Zenon DEF TypeInv
<1>3. ASSUME NEW p \in Procs, Register(p) PROVE TypeInv'
  BY <1>3 DEF Register
<1>4. ASSUME NEW p \in Procs, DeviceCode(p) PROVE TypeInv'
  <2>1. StoreTyped'
    BY <1>4 DEF DeviceCode
  <2>2. PlaceTyped'
    BY <1>4 DEF DeviceCode
  <2>3. HandTyped'
    BY <1>4 DEF DeviceCode
  <2>4. RoundTyped'
    BY <1>4 DEF DeviceCode
  <2>5. HistoryTyped'
    BY <1>4 DEF DeviceCode
  <2>6. (\A q \in Procs : RoundInv(q) /\ PlaceInv(q))'
    BY <1>4 DEF DeviceCode
  <2> QED BY <2>1, <2>2, <2>3, <2>4, <2>5, <2>6, Zenon DEF TypeInv
<1>5. ASSUME NEW p \in Procs, Callback(p) PROVE TypeInv'
  BY <1>5 DEF Callback
<1>6. ASSUME NEW p \in Procs, ExchangeToken(p) PROVE TypeInv'
  <2>1. StoreTyped'
    BY <1>6 DEF ExchangeToken, Issue, WriteBegins, Writers, Effect
  <2>2. PlaceTyped'
    BY <1>6 DEF ExchangeToken, Issue, WriteBegins, Writers, Effect
  <2>3. HandTyped'
    BY <1>6 DEF ExchangeToken, Issue, WriteBegins, Writers, Effect
  <2>4. RoundTyped'
    BY <1>6 DEF ExchangeToken, Issue, WriteBegins, Writers, Effect
  <2>5. HistoryTyped'
    <3>1. CASE UNCHANGED history
      BY <3>1
    <3>2. CASE Issue(p)
      <4>1. issued' \in Token
        BY <3>2 DEF Issue
      <4>2. may' \in [Procs -> SUBSET Token]
        BY <3>2, <4>1, AnnouncedTyped DEF Issue
      <4> QED BY <3>2, <4>2 DEF Issue
    <3> QED BY <1>6, <3>1, <3>2, Zenon DEF ExchangeToken
  <2>6. (\A q \in Procs : RoundInv(q) /\ PlaceInv(q))'
    BY <1>6 DEF ExchangeToken, Issue, WriteBegins, Writers, Effect
  <2> QED BY <2>1, <2>2, <2>3, <2>4, <2>5, <2>6, Zenon DEF TypeInv
<1>7. ASSUME NEW p \in Procs, Sleep(p) PROVE TypeInv'
  BY <1>7 DEF Sleep
<1>8. ASSUME NEW p \in Procs, PollOnce(p) PROVE TypeInv'
  <2>1. StoreTyped'
    BY <1>8 DEF PollOnce, Issue, WriteBegins, Writers, Effect
  <2>2. PlaceTyped'
    BY <1>8 DEF PollOnce, Issue, WriteBegins, Writers, Effect
  <2>3. HandTyped'
    BY <1>8 DEF PollOnce, Issue, WriteBegins, Writers, Effect
  <2>4. RoundTyped'
    BY <1>8 DEF PollOnce, Issue, WriteBegins, Writers, Effect
  <2>5. HistoryTyped'
    <3>1. CASE UNCHANGED history
      BY <3>1
    <3>2. CASE Issue(p)
      <4>1. issued' \in Token
        BY <3>2 DEF Issue
      <4>2. may' \in [Procs -> SUBSET Token]
        BY <3>2, <4>1, AnnouncedTyped DEF Issue
      <4> QED BY <3>2, <4>2 DEF Issue
    <3> QED BY <1>8, <3>1, <3>2, Zenon DEF PollOnce
  <2>6. (\A q \in Procs : RoundInv(q) /\ PlaceInv(q))'
    BY <1>8 DEF PollOnce, Issue, WriteBegins, Writers, Effect
  <2> QED BY <2>1, <2>2, <2>3, <2>4, <2>5, <2>6, Zenon DEF TypeInv
<1>9. ASSUME NEW p \in Procs, SavePrimary(p) PROVE TypeInv'
  <2>1. StoreTyped'
    BY <1>9 DEF SavePrimary
  <2>2. PlaceTyped'
    BY <1>9 DEF SavePrimary
  <2>3. HandTyped'
    BY <1>9 DEF SavePrimary
  <2>4. RoundTyped'
    BY <1>9 DEF SavePrimary
  <2>5. HistoryTyped'
    BY <1>9 DEF SavePrimary
  <2>6. (\A q \in Procs : RoundInv(q) /\ PlaceInv(q))'
    BY <1>9 DEF SavePrimary
  <2> QED BY <2>1, <2>2, <2>3, <2>4, <2>5, <2>6, Zenon DEF TypeInv
<1>10. ASSUME NEW p \in Procs, ClearFallback(p) PROVE TypeInv'
  BY <1>10 DEF ClearFallback, WriteEnds, NoFile
<1>11. ASSUME NEW p \in Procs, ReadKey(p) PROVE TypeInv'
  BY <1>11 DEF ReadKey
<1>12. ASSUME NEW p \in Procs, NewKey(p) PROVE TypeInv'
  BY <1>12 DEF NewKey
<1>13. ASSUME NEW p \in Procs, OpenFile(p) PROVE TypeInv'
  BY <1>13 DEF OpenFile, NoFile
<1>14. ASSUME NEW p \in Procs, WriteFile(p) PROVE TypeInv'
  BY <1>14 DEF WriteFile, WriteEnds
<1>15. ASSUME NEW p \in Procs, ClearPrimary(p) PROVE TypeInv'
  <2>1. StoreTyped'
    BY <1>15 DEF ClearPrimary
  <2>2. PlaceTyped'
    BY <1>15 DEF ClearPrimary
  <2>3. HandTyped'
    BY <1>15 DEF ClearPrimary
  <2>4. RoundTyped'
    BY <1>15 DEF ClearPrimary
  <2>5. HistoryTyped'
    BY <1>15 DEF ClearPrimary
  <2>6. (\A q \in Procs : RoundInv(q) /\ PlaceInv(q))'
    BY <1>15 DEF ClearPrimary
  <2> QED BY <2>1, <2>2, <2>3, <2>4, <2>5, <2>6, Zenon DEF TypeInv
<1>16. ASSUME NEW p \in Procs, ClearFile(p) PROVE TypeInv'
  BY <1>16 DEF ClearFile, WriteEnds, NoFile
<1>17. ASSUME NEW p \in Procs, Invalidate(p) PROVE TypeInv'
  <2>1. StoreTyped'
    BY <1>17 DEF Invalidate, UnderWay
  <2>2. PlaceTyped'
    BY <1>17 DEF Invalidate, UnderWay
  <2>3. HandTyped'
    BY <1>17 DEF Invalidate, UnderWay
  <2>4. RoundTyped'
    BY <1>17 DEF Invalidate, UnderWay
  <2>5. HistoryTyped'
    BY <1>17 DEF Invalidate, UnderWay
  <2>6. (\A q \in Procs : RoundInv(q) /\ PlaceInv(q))'
    BY <1>17 DEF Invalidate, UnderWay
  <2> QED BY <2>1, <2>2, <2>3, <2>4, <2>5, <2>6, Zenon DEF TypeInv
<1>18. ASSUME NEW p \in Procs, LoadPrimary(p) PROVE TypeInv'
  <2>1. StoreTyped'
    BY <1>18 DEF LoadPrimary, Loaded, Found
  <2>2. PlaceTyped'
    BY <1>18 DEF LoadPrimary, Loaded, Found
  <2>3. HandTyped'
    <3>1. got' \in [Procs -> Token]
      BY <1>18 DEF LoadPrimary, Loaded, Found
    <3>2. primaryFailed' \in [Procs -> BOOLEAN]
      BY <1>18, Zenon DEF LoadPrimary, Loaded, Found
    <3> QED BY <1>18, <3>1, <3>2, Zenon DEF LoadPrimary
  <2>4. RoundTyped'
    BY <1>18 DEF LoadPrimary, Loaded, Found
  <2>5. HistoryTyped'
    BY <1>18 DEF LoadPrimary, Loaded, Found
  <2>6. (\A q \in Procs : RoundInv(q) /\ PlaceInv(q))'
    BY <1>18 DEF LoadPrimary, Loaded, Found
  <2> QED BY <2>1, <2>2, <2>3, <2>4, <2>5, <2>6, Zenon DEF TypeInv
<1>19. ASSUME NEW p \in Procs, LoadFile(p) PROVE TypeInv'
  BY <1>19 DEF LoadFile, Loaded, NoFile
<1>20. ASSUME NEW p \in Procs, LoadKey(p) PROVE TypeInv'
  BY <1>20 DEF LoadKey, Loaded
<1>21. ASSUME NEW p \in Procs, Verify(p) PROVE TypeInv'
  BY <1>21 DEF Verify, Verdicts
<1>22. ASSUME NEW p \in Procs, Lookup(p) PROVE TypeInv'
  BY <1>22 DEF Lookup
<1>23. ASSUME NEW p \in Procs, Fetch(p) PROVE TypeInv'
  BY <1>23 DEF Fetch
<1>24. ASSUME NEW p \in Procs, Fill(p) PROVE TypeInv'
  BY <1>24 DEF Fill
<1>25. ASSUME NEW p \in Procs, Crash(p) PROVE TypeInv'
  <2>1. StoreTyped'
    BY <1>25 DEF Crash, UnderWay, Writers
  <2>2. PlaceTyped'
    BY <1>25 DEF Crash, UnderWay, Writers
  <2>3. HandTyped'
    BY <1>25 DEF Crash, UnderWay, Writers
  <2>4. RoundTyped'
    BY <1>25 DEF Crash, UnderWay, Writers
  <2>5. HistoryTyped'
    <3>1. settled' \subseteq Token
      <4>1. may[p] \subseteq Token /\ 0 \in Token
        BY LoginAssumption
      <4>2. settled' \subseteq settled \cup may[p] \cup {0}
        BY <1>25, Zenon DEF Crash
      <4> QED BY <4>1, <4>2
    <3>2. excused' \subseteq Procs
      BY <1>25 DEF Crash
    <3>3. early' \subseteq Procs /\ skew' \in BOOLEAN
      BY <1>25, Zenon DEF Crash, UnderWay
    <3> QED BY <1>25, <3>1, <3>2, <3>3, Zenon DEF Crash
  <2>6. (\A q \in Procs : RoundInv(q) /\ PlaceInv(q))'
    BY <1>25 DEF Crash, UnderWay, Writers
  <2> QED BY <2>1, <2>2, <2>3, <2>4, <2>5, <2>6, Zenon DEF TypeInv
<1>26. ASSUME UserApproves PROVE TypeInv'
  BY <1>26 DEF UserApproves
<1>27. ASSUME Outage PROVE TypeInv'
  BY <1>27 DEF Outage
<1>28. ASSUME UNCHANGED vars PROVE TypeInv'
  BY <1>28 DEF vars
<1> HIDE DEF TypeInv
<1> QED
  BY <1>1, <1>2, <1>3, <1>4, <1>5, <1>6, <1>7, <1>8, <1>9, <1>10, <1>11, <1>12, <1>13, <1>14,
     <1>15, <1>16, <1>17, <1>18, <1>19, <1>20, <1>21, <1>22, <1>23, <1>24, <1>25, <1>26, <1>27,
     <1>28 DEF Next, Step, Terminating

(***************************************************************************)
(* Every variable keeps its type, for any interval and life time of the    *)
(* device code: the polls that the server slows down stay bounded          *)
(* (StartDeviceCodePoll).                                                  *)
(***************************************************************************)
THEOREM TypeCorrect == Spec => []TypeOK
<1>1. TypeInv => TypeOK
  BY TypeParts, Zenon DEF TypeInv
<1> QED BY <1>1, InitTyped, TypeStep, PTL DEF Spec

-----------------------------------------------------------------------------
(* Which tokens a store may hold, and which a load may find. *)

Effects == {Effect(w) : w \in Writers}
Half == \E w \in Procs : pc[w] = "writefile"

\* An item of the keychain that is not one it has kept belongs to S.
Keeps(t, S) == t # 0 /\ t \notin kept => t \in S

\* Whoever stores, removes or loads knows of everything that overlaps with it.
OverlapInv ==
    /\ \A w \in Procs : pc[w] \in Saving => got[w] # 0
    /\ \A w \in Writers, q \in Procs :
         q \in Writers \/ pc[q] \in Loading => Effect(w) \in may[q]

\* The two stores against what may be stored now.
StoreInv ==
    /\ Keeps(keychain, settled \cup Effects)
    /\ file # NoFile => file.token \in settled
    /\ keychain = 0 /\ file = NoFile /\ ~Half => 0 \in settled \cup Effects

\* A writer that has been to the keychain explains what it holds.
WriterInv(w) ==
    /\ pc[w] \in {"clearfile", "logoutfile"} => Keeps(keychain, may[w])
    /\ pc[w] = "clearfile" /\ keychain = 0 => 0 \in may[w]

\* So does a load, for the stores it has still to look at, and for the token it takes
\* from the file.
LoadInv(q) ==
    /\ pc[q] \in {"load", "loadfile"} /\ file # NoFile => file.token \in may[q]
    /\ pc[q] = "load" => Keeps(keychain, may[q])
    /\ pc[q] = "load" /\ keychain = 0 /\ file = NoFile /\ ~Half => 0 \in may[q] \/ q \in excused
    /\ pc[q] = "loadfile" /\ file = NoFile /\ ~Half => 0 \in may[q] \/ q \in excused
    /\ pc[q] = "loadkey" => got[q] \in may[q]

FoundInv(q) == q \in Observers => got[q] \in may[q] \/ q \in excused

LoginInv == OverlapInv /\ StoreInv /\ \A q \in Procs : WriterInv(q) /\ LoadInv(q) /\ FoundInv(q)

LEMMA InitLogin == Init => LoginInv
  BY DEF Init, LoginInv, OverlapInv, StoreInv, WriterInv, LoadInv, FoundInv, Observers, Keeps,
     Saving, Loading,
         Writers, Removing, NoFile

\* A step that leaves alone what the stores and the history hold, and by which p neither
\* begins nor ends to store, to remove or to load.
Quiet(p, l) ==
    /\ pc' = [pc EXCEPT ![p] = l]
    /\ pc[p] \notin Removing \cup Loading \cup {"clearfile", "writefile"}
    /\ l \notin Removing \cup Loading \cup {"clearfile", "writefile"}
    /\ pc[p] \in Saving <=> l \in Saving
    /\ pc[p] # "dead" /\ (pc[p] = "begin" => cmd[p].op \in Logins)
    /\ UNCHANGED <<keychain, file, cmd, got, settled, may, kept, excused>>

LEMMA QuietStep ==
  ASSUME TypeInv, LoginInv, NEW p \in Procs, NEW l, Quiet(p, l)
  PROVE  LoginInv'
<1>1. pc \in [Procs -> Labels]
  BY DEF TypeInv, PlaceTyped
<1>2. Writers' = Writers
  BY <1>1 DEF Quiet, Writers, Saving, Removing, Loading
<1>3. \A w \in Writers : (w \in Procs) /\ (pc[w] \in Removing <=> pc'[w] \in Removing)
  BY <1>1 DEF Quiet, Writers, Saving, Removing, Loading
<1>4. \A w \in Writers : Effect(w)' = Effect(w)
  BY <1>3 DEF Quiet, Effect
<1>5. Effects' = Effects
  BY <1>2, <1>4 DEF Effects
<1>6. Half' <=> Half
  BY <1>1 DEF Quiet, Half, Saving, Removing, Loading
<1>7. ASSUME NEW q \in Procs
      PROVE  /\ pc[q] \in Saving <=> pc'[q] \in Saving
             /\ pc[q] \in Loading <=> pc'[q] \in Loading
             /\ \A x \in {"clearfile", "logoutfile"} \cup Loading : pc'[q] = x => pc[q] = x
  BY <1>1 DEF Quiet, Saving, Removing, Loading
<1>13. ASSUME NEW q \in Procs, q \in Observers' PROVE q \in Observers
  <2>1. CASE q # p
    BY <1>1, <1>13, <2>1 DEF Quiet, Observers
  <2>2. CASE q = p
    BY <1>1, <1>13, <2>2 DEF Quiet, Observers, Logins
  <2> QED BY <2>1, <2>2
<1>8. OverlapInv'
  <2>1. (\A w \in Procs : pc[w] \in Saving => got[w] # 0)'
    BY <1>7 DEF OverlapInv, LoginInv, Quiet
  <2>2. ASSUME NEW w \in Writers', NEW q \in Procs, q \in Writers' \/ pc'[q] \in Loading
        PROVE  Effect(w)' \in may'[q]
    BY <1>2, <1>4, <1>7, <2>2 DEF OverlapInv, LoginInv, Quiet
  <2> QED BY <2>1, <2>2, Zenon DEF OverlapInv
<1>9. StoreInv'
  BY <1>5, <1>6, Zenon DEF StoreInv, LoginInv, Quiet, Keeps
<1>10. ASSUME NEW q \in Procs PROVE WriterInv(q)'
  BY <1>7 DEF WriterInv, LoginInv, Quiet, Keeps
<1>11. ASSUME NEW q \in Procs PROVE LoadInv(q)'
  BY <1>6, <1>7 DEF LoadInv, LoginInv, Quiet, Keeps, Loading
<1>12. ASSUME NEW q \in Procs PROVE FoundInv(q)'
  BY <1>13 DEF FoundInv, LoginInv, Quiet
<1> QED BY <1>8, <1>9, <1>10, <1>11, <1>12, Zenon DEF LoginInv

\* A writer that announces itself explains more, and takes nothing away.
LEMMA AnnounceStep ==
  ASSUME TypeInv, LoginInv, NEW p \in Procs, NEW t \in Token, NEW l, WriteBegins(p, t), Goto(p, l),
         UNCHANGED <<keychain, file, cmd, settled, kept, excused>>,
         pc[p] \notin Saving \cup Removing \cup Loading,
         \/ l = "save" /\ t # 0 /\ got' = [got EXCEPT ![p] = t]
         \/ l = "logout" /\ t = 0 /\ UNCHANGED got /\ cmd[p].op = "logout"
  PROVE  LoginInv'
<1> USE DEF TypeInv, PlaceTyped, HandTyped, HistoryTyped, Goto
<1>1. \A q \in Procs : q # p => pc'[q] = pc[q] /\ got'[q] = got[q]
  OBVIOUS
<1>2. pc'[p] = l /\ (l = "save" => got'[p] = t)
  OBVIOUS
<1>3. Writers' = Writers \cup {p} /\ p \notin Writers
  BY <1>1, <1>2 DEF Writers, Saving, Removing
<1>4. Effect(p)' = t
  BY <1>2 DEF Effect, Removing
<1>5. \A w \in Writers : Effect(w)' = Effect(w)
  BY <1>1, <1>3 DEF Effect, Writers
<1>6. Effects \subseteq Effects'
  BY <1>3, <1>5 DEF Effects
<1>7. may'[p] = {t} \cup Effects
  BY DEF WriteBegins, Effects
<1>8. ASSUME NEW q \in Procs, q # p, q \in Writers \/ pc[q] \in Loading
      PROVE  may'[q] = may[q] \cup {t}
  BY <1>8 DEF WriteBegins
<1>9. \A q \in Procs : q # p => may[q] \subseteq may'[q]
  BY DEF WriteBegins
<1>10. Half' <=> Half
  BY <1>1, <1>2 DEF Half, Saving
<1>11. OverlapInv'
  <2>1. (\A w \in Procs : pc[w] \in Saving => got[w] # 0)'
    BY <1>1, <1>2 DEF LoginInv, OverlapInv, Saving
  <2>2. ASSUME NEW w \in Writers', NEW q \in Procs, q \in Writers' \/ pc'[q] \in Loading
        PROVE  Effect(w)' \in may'[q]
    <3>1. pc'[p] \notin Loading
      BY <1>2 DEF Loading
    <3>2. CASE q = p
      BY <1>3, <1>4, <1>5, <1>7, <3>2 DEF Effects
    <3>3. CASE q # p
      <4>1. q \in Writers \/ pc[q] \in Loading
        BY <1>1, <1>3, <2>2, <3>3
      <4> QED BY <1>3, <1>4, <1>5, <1>8, <3>3, <4>1 DEF LoginInv, OverlapInv
    <3> QED BY <3>2, <3>3
  <2> QED BY <2>1, <2>2, Zenon DEF OverlapInv
<1>12. StoreInv'
  BY <1>6, <1>10 DEF LoginInv, StoreInv, Keeps
<1>13. ASSUME NEW q \in Procs PROVE WriterInv(q)'
  BY <1>1, <1>2, <1>9 DEF LoginInv, WriterInv, Keeps
<1>14. ASSUME NEW q \in Procs PROVE LoadInv(q)'
  BY <1>1, <1>2, <1>9, <1>10 DEF LoginInv, LoadInv, Keeps
<1>15. ASSUME NEW q \in Procs PROVE FoundInv(q)'
  BY <1>1, <1>2, <1>7, <1>9 DEF LoginInv, FoundInv, Observers, Loading, PlaceInv
<1> QED BY <1>11, <1>12, <1>13, <1>14, <1>15, Zenon DEF LoginInv

\* A load begins with all that the stores may hold.
LEMMA LoadBeginsStep ==
  ASSUME TypeInv, LoginInv, NEW p \in Procs, LoadBegins(p), Goto(p, "load"), pc[p] = "begin",
         UNCHANGED <<keychain, file, cmd, got, settled, kept, excused>>
  PROVE  LoginInv'
<1> USE DEF TypeInv, PlaceTyped, HandTyped, HistoryTyped, Goto
<1>1. \A q \in Procs : q # p => pc'[q] = pc[q] /\ may'[q] = may[q]
  BY DEF LoadBegins
<1>2. pc'[p] = "load" /\ may'[p] = settled \cup Effects
  BY DEF LoadBegins, Effects
<1>3. Writers' = Writers /\ p \notin Writers
  BY <1>1, <1>2 DEF Writers, Saving, Removing
<1>4. \A w \in Writers : Effect(w)' = Effect(w)
  BY <1>1, <1>3 DEF Effect, Writers
<1>5. Effects' = Effects /\ (Half' <=> Half)
  BY <1>1, <1>2, <1>3, <1>4 DEF Effects, Half
<1>6. OverlapInv'
  BY <1>1, <1>2, <1>3, <1>4 DEF LoginInv, OverlapInv, Effects, Writers, Saving
<1>7. StoreInv'
  BY <1>5 DEF LoginInv, StoreInv, Keeps
<1>8. ASSUME NEW q \in Procs PROVE WriterInv(q)'
  BY <1>1, <1>2 DEF LoginInv, WriterInv, Keeps
<1>9. ASSUME NEW q \in Procs PROVE LoadInv(q)'
  BY <1>1, <1>2, <1>5 DEF LoginInv, LoadInv, StoreInv, Keeps
<1>10. ASSUME NEW q \in Procs PROVE FoundInv(q)'
  BY <1>1, <1>2 DEF LoginInv, FoundInv, Observers, Loading
<1> QED BY <1>6, <1>7, <1>8, <1>9, <1>10, Zenon DEF LoginInv

LEMMA LoginStep == ASSUME TypeInv, LoginInv, [Next]_vars PROVE LoginInv'
<1> USE DEF LoginInv, stores, process, history, Goto, End, Saving, Removing, Loading
<1>0. pc \in [Procs -> Labels] /\ got \in [Procs -> Token] /\ may \in [Procs -> SUBSET Token]
  BY DEF TypeInv, PlaceTyped, HandTyped, HistoryTyped
<1>1. ASSUME NEW p \in Procs, SavePrimary(p) PROVE LoginInv'
  <2>1. OverlapInv'
    BY <1>0, <1>1 DEF SavePrimary, OverlapInv, Effect, Writers
  <2>2. StoreInv'
    BY <1>0, <1>1 DEF SavePrimary, StoreInv, Effects, Keeps, Half, Effect, Writers
  <2>3. ASSUME NEW q \in Procs PROVE WriterInv(q)'
    BY <1>0, <1>1 DEF SavePrimary, OverlapInv, WriterInv, Keeps, Effect, Writers
  <2>4. ASSUME NEW q \in Procs PROVE LoadInv(q)'
    BY <1>0, <1>1 DEF SavePrimary, OverlapInv, LoadInv, Keeps, Half, Effect, Writers
  <2>5. ASSUME NEW q \in Procs PROVE FoundInv(q)'
    BY <1>0, <1>1 DEF SavePrimary, FoundInv, Observers
  <2> QED BY <2>1, <2>2, <2>3, <2>4, <2>5, Zenon
<1>2. ASSUME NEW p \in Procs, ClearFallback(p) PROVE LoginInv'
  <2>1. OverlapInv'
    BY <1>0, <1>2 DEF ClearFallback, OverlapInv, Effect, Writers
  <2>2. StoreInv'
    BY <1>0, <1>2 DEF ClearFallback, StoreInv, WriterInv, Keeps, WriteEnds
  <2>3. ASSUME NEW q \in Procs PROVE WriterInv(q)'
    BY <1>0, <1>2 DEF ClearFallback, WriterInv, Keeps
  <2>4. ASSUME NEW q \in Procs PROVE LoadInv(q)'
    BY <1>0, <1>2 DEF ClearFallback, LoadInv, Keeps
  <2>5. ASSUME NEW q \in Procs PROVE FoundInv(q)'
    BY <1>0, <1>2 DEF ClearFallback, FoundInv, Observers
  <2> QED BY <2>1, <2>2, <2>3, <2>4, <2>5, Zenon
<1>3. ASSUME NEW p \in Procs, OpenFile(p) PROVE LoginInv'
  <2>1. OverlapInv'
    BY <1>0, <1>3 DEF OpenFile, OverlapInv, Effect, Writers
  <2>2. StoreInv'
    BY <1>0, <1>3 DEF OpenFile, StoreInv, Effects, Keeps, Half, Effect, Writers
  <2>3. ASSUME NEW q \in Procs PROVE WriterInv(q)'
    BY <1>0, <1>3 DEF OpenFile, WriterInv, Keeps
  <2>4. ASSUME NEW q \in Procs PROVE LoadInv(q)'
    BY <1>0, <1>3 DEF OpenFile, LoadInv, Keeps, Half
  <2>5. ASSUME NEW q \in Procs PROVE FoundInv(q)'
    BY <1>0, <1>3 DEF OpenFile, FoundInv, Observers
  <2> QED BY <2>1, <2>2, <2>3, <2>4, <2>5, Zenon
<1>4. ASSUME NEW p \in Procs, WriteFile(p) PROVE LoginInv'
  <2>1. OverlapInv'
    BY <1>0, <1>4 DEF WriteFile, OverlapInv, Effect, Writers
  <2>2. StoreInv'
    BY <1>0, <1>4 DEF WriteFile, OverlapInv, StoreInv, Keeps, NoFile, Effect, Writers,
       WriteEnds
  <2>3. ASSUME NEW q \in Procs PROVE WriterInv(q)'
    BY <1>0, <1>4 DEF WriteFile, WriterInv, Keeps
  <2>4. ASSUME NEW q \in Procs PROVE LoadInv(q)'
    BY <1>0, <1>4 DEF WriteFile, OverlapInv, LoadInv, Keeps, NoFile, Effect, Writers
  <2>5. ASSUME NEW q \in Procs PROVE FoundInv(q)'
    BY <1>0, <1>4 DEF WriteFile, FoundInv, Observers
  <2> QED BY <2>1, <2>2, <2>3, <2>4, <2>5, Zenon
<1>5. ASSUME NEW p \in Procs, ClearPrimary(p) PROVE LoginInv'
  <2>1. OverlapInv'
    BY <1>0, <1>5 DEF ClearPrimary, OverlapInv, Effect, Writers
  <2>2. StoreInv'
    BY <1>0, <1>5 DEF ClearPrimary, StoreInv, Effects, Keeps, Effect, Writers
  <2>3. ASSUME NEW q \in Procs PROVE WriterInv(q)'
    BY <1>0, <1>5 DEF ClearPrimary, OverlapInv, WriterInv, Keeps, Effect, Writers
  <2>4. ASSUME NEW q \in Procs PROVE LoadInv(q)'
    BY <1>0, <1>5 DEF ClearPrimary, OverlapInv, LoadInv, Keeps, Effect, Writers
  <2>5. ASSUME NEW q \in Procs PROVE FoundInv(q)'
    BY <1>0, <1>5 DEF ClearPrimary, FoundInv, Observers
  <2> QED BY <2>1, <2>2, <2>3, <2>4, <2>5, Zenon
<1>6. ASSUME NEW p \in Procs, ClearFile(p) PROVE LoginInv'
  <2>1. OverlapInv'
    BY <1>0, <1>6 DEF ClearFile, OverlapInv, Effect, Writers
  <2>2. StoreInv'
    BY <1>0, <1>6 DEF ClearFile, OverlapInv, StoreInv, WriterInv, Keeps, Effect, Writers,
       WriteEnds
  <2>3. ASSUME NEW q \in Procs PROVE WriterInv(q)'
    BY <1>0, <1>6 DEF ClearFile, WriterInv, Keeps
  <2>4. ASSUME NEW q \in Procs PROVE LoadInv(q)'
    BY <1>0, <1>6 DEF ClearFile, OverlapInv, LoadInv, Keeps, Effect, Writers
  <2>5. ASSUME NEW q \in Procs PROVE FoundInv(q)'
    BY <1>0, <1>6 DEF ClearFile, FoundInv, Observers
  <2> QED BY <2>1, <2>2, <2>3, <2>4, <2>5, Zenon
<1>7. ASSUME NEW p \in Procs, LoadPrimary(p) PROVE LoginInv'
  <2>1. OverlapInv'
    BY <1>0, <1>7 DEF LoadPrimary, OverlapInv, Effect, Writers, Loaded
  <2>2. StoreInv'
    BY <1>0, <1>7 DEF LoadPrimary, StoreInv, Effects, Keeps, Half, Effect, Writers, Loaded
  <2>3. ASSUME NEW q \in Procs PROVE WriterInv(q)'
    BY <1>0, <1>7 DEF LoadPrimary, WriterInv, Keeps, Loaded
  <2>4. ASSUME NEW q \in Procs PROVE LoadInv(q)'
    BY <1>0, <1>7 DEF LoadPrimary, LoadInv, Keeps, Half, Loaded, Found
  <2>5. ASSUME NEW q \in Procs PROVE FoundInv(q)'
    BY <1>0, <1>7 DEF LoadPrimary, LoadInv, FoundInv, Observers, Keeps, Loaded, Found
  <2> QED BY <2>1, <2>2, <2>3, <2>4, <2>5, Zenon
<1>8. ASSUME NEW p \in Procs, LoadFile(p) PROVE LoginInv'
  <2>1. OverlapInv'
    BY <1>0, <1>8 DEF LoadFile, OverlapInv, Effect, Writers, Loaded
  <2>2. StoreInv'
    BY <1>0, <1>8 DEF LoadFile, StoreInv, Effects, Keeps, Half, Effect, Writers, Loaded
  <2>3. ASSUME NEW q \in Procs PROVE WriterInv(q)'
    BY <1>0, <1>8 DEF LoadFile, WriterInv, Keeps, Loaded
  <2>4. ASSUME NEW q \in Procs PROVE LoadInv(q)'
    BY <1>0, <1>8 DEF LoadFile, LoadInv, Keeps, Half, Loaded
  <2>5. ASSUME NEW q \in Procs PROVE FoundInv(q)'
    BY <1>0, <1>8 DEF LoadFile, LoadInv, FoundInv, Observers, Half, Loaded
  <2> QED BY <2>1, <2>2, <2>3, <2>4, <2>5, Zenon
<1>9. ASSUME NEW p \in Procs, LoadKey(p) PROVE LoginInv'
  <2>1. OverlapInv'
    BY <1>0, <1>9 DEF LoadKey, OverlapInv, Effect, Writers, Loaded
  <2>2. StoreInv'
    BY <1>0, <1>9 DEF LoadKey, StoreInv, Effects, Keeps, Half, Effect, Writers, Loaded
  <2>3. ASSUME NEW q \in Procs PROVE WriterInv(q)'
    BY <1>0, <1>9 DEF LoadKey, WriterInv, Keeps, Loaded
  <2>4. ASSUME NEW q \in Procs PROVE LoadInv(q)'
    BY <1>0, <1>9 DEF LoadKey, LoadInv, Keeps, Half, Loaded
  <2>5. ASSUME NEW q \in Procs PROVE FoundInv(q)'
    BY <1>0, <1>9 DEF LoadKey, LoadInv, FoundInv, Observers, Loaded
  <2> QED BY <2>1, <2>2, <2>3, <2>4, <2>5, Zenon
<1>10. ASSUME NEW p \in Procs, Crash(p) PROVE LoginInv'
  <2>1. OverlapInv'
    BY <1>0, <1>10 DEF Crash, OverlapInv, Effect, Writers
  <2>2. StoreInv'
    BY <1>0, <1>10 DEF Crash, OverlapInv, StoreInv, Effects, Keeps, Half, Effect, Writers
  <2>3. ASSUME NEW q \in Procs PROVE WriterInv(q)'
    BY <1>0, <1>10 DEF Crash, WriterInv, Keeps
  <2>4. ASSUME NEW q \in Procs PROVE LoadInv(q)'
    BY <1>0, <1>10 DEF Crash, LoadInv, Keeps, Half
  <2>5. ASSUME NEW q \in Procs PROVE FoundInv(q)'
    BY <1>0, <1>10 DEF Crash, FoundInv, Observers
  <2> QED BY <2>1, <2>2, <2>3, <2>4, <2>5, Zenon
<1>11. ASSUME NEW p \in Procs, Begin(p) PROVE LoginInv'
  <2> USE DEF Begin
  <2>1. CASE cmd[p].op \in Logins
    <3>1. \E l \in {"done", "discover"} : Quiet(p, l)
      BY <1>11, <2>1 DEF Quiet, Logins
    <3> QED BY <3>1, QuietStep
  <2>2. CASE cmd[p].op = "logout"
    <3>1. WriteBegins(p, 0) /\ Goto(p, "logout")
      BY <1>11, <2>2 DEF Logins
    <3>2. 0 \in Token
      BY LoginAssumption DEF Token
    <3> QED BY <1>11, <2>2, <3>1, <3>2, AnnounceStep
  <2>3. CASE cmd[p].op \in {"use", "status"}
    <3>1. LoadBegins(p) /\ Goto(p, "load")
      BY <1>11, <2>3 DEF Logins
    <3> QED BY <1>11, <3>1, LoadBeginsStep
  <2> QED BY <1>11, <2>1, <2>2, <2>3
<1>12. ASSUME NEW p \in Procs, Discover(p) PROVE LoginInv'
  <2>1. \E l \in {"done", "sleep", "register"} : Quiet(p, l)
    BY <1>12 DEF Discover, Quiet
  <2> QED BY <2>1, QuietStep
<1>13. ASSUME NEW p \in Procs, Register(p) PROVE LoginInv'
  <2>1. \E l \in {"done", "callback", "code"} : Quiet(p, l)
    BY <1>13 DEF Register, Quiet
  <2> QED BY <2>1, QuietStep
<1>14. ASSUME NEW p \in Procs, DeviceCode(p) PROVE LoginInv'
  <2>1. \E l \in {"done", "sleep"} : Quiet(p, l)
    BY <1>14 DEF DeviceCode, Quiet
  <2> QED BY <2>1, QuietStep
<1>15. ASSUME NEW p \in Procs, Callback(p) PROVE LoginInv'
  <2>1. \E l \in {"done", "exchange"} : Quiet(p, l)
    BY <1>15 DEF Callback, Quiet
  <2> QED BY <2>1, QuietStep
<1>16. ASSUME NEW p \in Procs, Sleep(p) PROVE LoginInv'
  <2>1. \E l \in {"done", "poll"} : Quiet(p, l)
    BY <1>16 DEF Sleep, Quiet
  <2> QED BY <2>1, QuietStep
<1>17. ASSUME NEW p \in Procs, ReadKey(p) PROVE LoginInv'
  <2>1. \E l \in {"newkey", "openfile"} : Quiet(p, l)
    BY <1>17 DEF ReadKey, Quiet
  <2> QED BY <2>1, QuietStep
<1>18. ASSUME NEW p \in Procs, NewKey(p) PROVE LoginInv'
  <2>1. \E l \in {"openfile"} : Quiet(p, l)
    BY <1>18 DEF NewKey, Quiet
  <2> QED BY <2>1, QuietStep
<1>19. ASSUME NEW p \in Procs, Invalidate(p) PROVE LoginInv'
  <2>1. \E l \in {"done"} : Quiet(p, l)
    BY <1>19 DEF Invalidate, Quiet
  <2> QED BY <2>1, QuietStep
<1>20. ASSUME NEW p \in Procs, Verify(p) PROVE LoginInv'
  <2>1. \E l \in {"done"} : Quiet(p, l)
    BY <1>20 DEF Verify, Quiet
  <2> QED BY <2>1, QuietStep
<1>21. ASSUME NEW p \in Procs, Lookup(p) PROVE LoginInv'
  <2>1. \E l \in {"done", "fetch"} : Quiet(p, l)
    BY <1>21 DEF Lookup, Quiet
  <2> QED BY <2>1, QuietStep
<1>22. ASSUME NEW p \in Procs, Fetch(p) PROVE LoginInv'
  <2>1. \E l \in {"done", "fill"} : Quiet(p, l)
    BY <1>22 DEF Fetch, Quiet
  <2> QED BY <2>1, QuietStep
<1>23. ASSUME NEW p \in Procs, Fill(p) PROVE LoginInv'
  <2>1. \E l \in {"done"} : Quiet(p, l)
    BY <1>23 DEF Fill, Quiet
  <2> QED BY <2>1, QuietStep
<1>24. ASSUME NEW p \in Procs, pc[p] \in {"exchange", "poll"}, Issue(p),
             UNCHANGED <<keychain, file, cmd>>
      PROVE  LoginInv'
  <2>1. issued' \in Token /\ issued' # 0
    BY <1>24, LoginAssumption DEF Issue, TypeInv, StoreTyped, Token
  <2> QED BY <1>24, <2>1, AnnounceStep DEF Issue
<1>25. ASSUME NEW p \in Procs, ExchangeToken(p) PROVE LoginInv'
  <2>1. CASE Issue(p)
    BY <1>24, <1>25, <2>1 DEF ExchangeToken
  <2>2. CASE ~Issue(p)
    <3>1. \E l \in {"done"} : Quiet(p, l)
      BY <1>25, <2>2 DEF ExchangeToken, Quiet
    <3> QED BY <3>1, QuietStep
  <2> QED BY <2>1, <2>2
<1>26. ASSUME NEW p \in Procs, PollOnce(p) PROVE LoginInv'
  <2>1. CASE Issue(p)
    BY <1>24, <1>26, <2>1 DEF PollOnce
  <2>2. CASE ~Issue(p)
    <3>1. \E l \in {"done", "sleep"} : Quiet(p, l)
      BY <1>26, <2>2 DEF PollOnce, Quiet
    <3> QED BY <3>1, QuietStep
  <2> QED BY <2>1, <2>2
<1>27. ASSUME UNCHANGED <<keychain, file, cmd, pc, got, history>> PROVE LoginInv'
  BY <1>27, Zenon DEF LoginInv, OverlapInv, StoreInv, WriterInv, LoadInv, FoundInv, Observers,
     Effects,
         Effect, Writers, Keeps, Half
<1>28. CASE UserApproves \/ Outage \/ UNCHANGED vars
  BY <1>27, <1>28 DEF UserApproves, Outage, vars
<1> HIDE DEF LoginInv
<1> QED
  BY <1>1, <1>2, <1>3, <1>4, <1>5, <1>6, <1>7, <1>8, <1>9, <1>10, <1>11, <1>12, <1>13, <1>14,
     <1>15, <1>16, <1>17, <1>18, <1>19, <1>20, <1>21, <1>22, <1>23, <1>25, <1>26, <1>28 DEF
     Next, Step, Terminating

\* The two stores, the writers and the loads under way, as one inductive invariant
\* (FallbackStore).
THEOREM LoginInductive == Spec => [](TypeInv /\ LoginInv)
<1>1. Init => TypeInv /\ LoginInv
  BY InitTyped, InitLogin
<1>2. TypeInv /\ LoginInv /\ [Next]_vars => (TypeInv /\ LoginInv)'
  BY TypeStep, LoginStep
<1> QED BY <1>1, <1>2, PTL DEF Spec

(***************************************************************************)
(* A command finds the token that the last login or logout left, or that   *)
(* of one it overlaps with, but for the failures that LoadIsExplained      *)
(* names, with any number of processes, outages and kills (FallbackStore). *)
(***************************************************************************)
THEOREM LoadExplained == Spec => []LoadIsExplained
<1>1. LoginInv => LoadIsExplained
  BY DEF LoginInv, FoundInv, LoadIsExplained, Observers
<1> QED BY <1>1, LoginInductive, PTL

-----------------------------------------------------------------------------
(* The tool catalog and the token it was fetched with. *)

\* Somebody stores a token, or has yet to drop the catalog of the former one.
Pending == \E w \in Procs : pc[w] \in Saving \cup {"invalidate"}

Using == Loading \cup {"lookup", "fetch", "fill"}

\* Without a login in between, a command looks for no token but those that may still be
\* stored, or everything has been removed.
UseInv(p) ==
    cmd[p].op = "use" /\ pc[p] \in Using /\ p \notin early /\ ~Pending
        => 0 \in settled \/ may[p] \ {0} \subseteq settled

CatalogInv == CatalogFollowsLogin /\ \A p \in Procs : UseInv(p)

LEMMA InitCatalog == Init => CatalogInv
  BY DEF Init, CatalogInv, CatalogFollowsLogin, UseInv, Using, Loading, Saving

\* While somebody stores a token, nothing is said of the catalog.
LEMMA PendingStep ==
  ASSUME NEW p \in Procs, pc'[p] \in Saving \cup {"invalidate"}
  PROVE  CatalogInv'
  BY DEF CatalogInv, CatalogFollowsLogin, UseInv, Pending

\* A step that leaves the history and the catalog alone, and by which p begins neither to
\* use a token nor to store one.
Calm(p, l) ==
    /\ pc' = [pc EXCEPT ![p] = l]
    /\ pc[p] \notin Saving \cup {"invalidate"} /\ l \notin Saving \cup {"invalidate"}
    /\ l \in Using => pc[p] \in Using
    /\ UNCHANGED <<cmd, catalog, settled, may, early, skew>>

LEMMA CalmStep ==
  ASSUME TypeInv, CatalogInv, NEW p \in Procs, NEW l, Calm(p, l)
  PROVE  CatalogInv'
<1>1. \A q \in Procs : q # p => pc'[q] = pc[q]
  BY DEF TypeInv, PlaceTyped, Calm
<1>2. pc'[p] = l
  BY DEF TypeInv, PlaceTyped, Calm
<1>3. Pending' <=> Pending
  BY <1>1, <1>2 DEF Calm, Pending
<1>4. CatalogFollowsLogin'
  BY <1>3 DEF CatalogInv, CatalogFollowsLogin, Calm, Pending
<1>5. ASSUME NEW q \in Procs PROVE UseInv(q)'
  BY <1>1, <1>2, <1>3 DEF CatalogInv, UseInv, Calm
<1> QED BY <1>4, <1>5, Zenon DEF CatalogInv

LEMMA CatalogStep == ASSUME TypeInv, LoginInv, CatalogInv, [Next]_vars PROVE CatalogInv'
<1> USE DEF stores, process, history, Goto, End
<1>0. pc \in [Procs -> Labels] /\ may \in [Procs -> SUBSET Token]
  BY DEF TypeInv, PlaceTyped, HistoryTyped
<1>1. ASSUME NEW p \in Procs, Discover(p) PROVE CatalogInv'
  <2>1. \E l \in {"done", "sleep", "register"} : Calm(p, l)
    BY <1>1 DEF Discover, Calm, Using, Saving, Loading
  <2> QED BY <2>1, CalmStep
<1>2. ASSUME NEW p \in Procs, Register(p) PROVE CatalogInv'
  <2>1. \E l \in {"done", "callback", "code"} : Calm(p, l)
    BY <1>2 DEF Register, Calm, Using, Saving, Loading
  <2> QED BY <2>1, CalmStep
<1>3. ASSUME NEW p \in Procs, DeviceCode(p) PROVE CatalogInv'
  <2>1. \E l \in {"done", "sleep"} : Calm(p, l)
    BY <1>3 DEF DeviceCode, Calm, Using, Saving, Loading
  <2> QED BY <2>1, CalmStep
<1>4. ASSUME NEW p \in Procs, Callback(p) PROVE CatalogInv'
  <2>1. \E l \in {"done", "exchange"} : Calm(p, l)
    BY <1>4 DEF Callback, Calm, Using, Saving, Loading
  <2> QED BY <2>1, CalmStep
<1>5. ASSUME NEW p \in Procs, Sleep(p) PROVE CatalogInv'
  <2>1. \E l \in {"done", "poll"} : Calm(p, l)
    BY <1>5 DEF Sleep, Calm, Using, Saving, Loading
  <2> QED BY <2>1, CalmStep
<1>6. ASSUME NEW p \in Procs, ClearPrimary(p) PROVE CatalogInv'
  <2>1. \E l \in {"logoutfile"} : Calm(p, l)
    BY <1>6 DEF ClearPrimary, Calm, Using, Saving, Loading
  <2> QED BY <2>1, CalmStep
<1>7. ASSUME NEW p \in Procs, LoadPrimary(p) PROVE CatalogInv'
  <2>1. \E l \in {"done", "verify", "lookup", "loadfile"} : Calm(p, l)
    BY <1>7 DEF LoadPrimary, Loaded, Calm, Using, Saving, Loading
  <2> QED BY <2>1, CalmStep
<1>8. ASSUME NEW p \in Procs, LoadFile(p) PROVE CatalogInv'
  <2>1. \E l \in {"done", "verify", "lookup", "loadkey"} : Calm(p, l)
    BY <1>8 DEF LoadFile, Loaded, Calm, Using, Saving, Loading
  <2> QED BY <2>1, CalmStep
<1>9. ASSUME NEW p \in Procs, LoadKey(p) PROVE CatalogInv'
  <2>1. \E l \in {"done", "verify", "lookup"} : Calm(p, l)
    BY <1>9 DEF LoadKey, Loaded, Calm, Using, Saving, Loading
  <2> QED BY <2>1, CalmStep
<1>10. ASSUME NEW p \in Procs, Verify(p) PROVE CatalogInv'
  <2>1. \E l \in {"done"} : Calm(p, l)
    BY <1>10 DEF Verify, Calm, Using, Saving, Loading
  <2> QED BY <2>1, CalmStep
<1>11. ASSUME NEW p \in Procs, Lookup(p) PROVE CatalogInv'
  <2>1. \E l \in {"done", "fetch"} : Calm(p, l)
    BY <1>11 DEF Lookup, Calm, Using, Saving, Loading
  <2> QED BY <2>1, CalmStep
<1>12. ASSUME NEW p \in Procs, Fetch(p) PROVE CatalogInv'
  <2>1. \E l \in {"done", "fill"} : Calm(p, l)
    BY <1>12 DEF Fetch, Calm, Using, Saving, Loading
  <2> QED BY <2>1, CalmStep
<1>13. ASSUME NEW p \in Procs, SavePrimary(p) PROVE CatalogInv'
  <2>1. pc'[p] \in Saving \cup {"invalidate"}
    BY <1>0, <1>13 DEF SavePrimary, Saving
  <2> QED BY <2>1, PendingStep
<1>14. ASSUME NEW p \in Procs, ClearFallback(p) PROVE CatalogInv'
  <2>1. pc'[p] \in Saving \cup {"invalidate"}
    BY <1>0, <1>14 DEF ClearFallback, Saving
  <2> QED BY <2>1, PendingStep
<1>15. ASSUME NEW p \in Procs, ReadKey(p) PROVE CatalogInv'
  <2>1. pc'[p] \in Saving \cup {"invalidate"}
    BY <1>0, <1>15 DEF ReadKey, Saving
  <2> QED BY <2>1, PendingStep
<1>16. ASSUME NEW p \in Procs, NewKey(p) PROVE CatalogInv'
  <2>1. pc'[p] \in Saving \cup {"invalidate"}
    BY <1>0, <1>16 DEF NewKey, Saving
  <2> QED BY <2>1, PendingStep
<1>17. ASSUME NEW p \in Procs, OpenFile(p) PROVE CatalogInv'
  <2>1. pc'[p] \in Saving \cup {"invalidate"}
    BY <1>0, <1>17 DEF OpenFile, Saving
  <2> QED BY <2>1, PendingStep
<1>18. ASSUME NEW p \in Procs, WriteFile(p) PROVE CatalogInv'
  <2>1. pc'[p] \in Saving \cup {"invalidate"}
    BY <1>0, <1>18 DEF WriteFile, Saving
  <2> QED BY <2>1, PendingStep
<1>19. ASSUME NEW p \in Procs, ExchangeToken(p) PROVE CatalogInv'
  <2>1. CASE Issue(p)
    <3>1. pc'[p] \in Saving \cup {"invalidate"}
      BY <1>0, <2>1 DEF Issue, Saving
    <3> QED BY <3>1, PendingStep
  <2>2. CASE ~Issue(p)
    <3>1. \E l \in {"done"} : Calm(p, l)
      BY <1>19, <2>2 DEF ExchangeToken, Calm, Using, Saving, Loading
    <3> QED BY <3>1, CalmStep
  <2> QED BY <2>1, <2>2
<1>20. ASSUME NEW p \in Procs, PollOnce(p) PROVE CatalogInv'
  <2>1. CASE Issue(p)
    <3>1. pc'[p] \in Saving \cup {"invalidate"}
      BY <1>0, <2>1 DEF Issue, Saving
    <3> QED BY <3>1, PendingStep
  <2>2. CASE ~Issue(p)
    <3>1. \E l \in {"done", "sleep"} : Calm(p, l)
      BY <1>20, <2>2 DEF PollOnce, Calm, Using, Saving, Loading
    <3> QED BY <3>1, CalmStep
  <2> QED BY <2>1, <2>2
<1>21. ASSUME NEW p \in Procs, Begin(p) PROVE CatalogInv'
  <2>0. \A q \in Procs : q # p => pc'[q] = pc[q]
    BY <1>0, <1>21 DEF Begin
  <2>1. CASE cmd[p].op \in Logins
    <3>1. \E l \in {"done", "discover"} : Calm(p, l)
      BY <1>21, <2>1 DEF Begin, Calm, Logins, Using, Saving, Loading
    <3> QED BY <3>1, CalmStep
  <2>2. CASE cmd[p].op = "logout"
    <3>1. WriteBegins(p, 0) /\ pc' = [pc EXCEPT ![p] = "logout"] /\ pc[p] = "begin"
          /\ UNCHANGED <<cmd, catalog, settled, early, skew>>
      BY <1>21, <2>2 DEF Begin, Logins
    <3>2. pc'[p] = "logout"
      BY <1>0, <3>1
    <3>3. Pending' <=> Pending
      BY <2>0, <3>1, <3>2 DEF Pending, Saving
    <3>4. ASSUME NEW q \in Procs PROVE UseInv(q)'
      <4>1. q # p => may'[q] \ {0} = may[q] \ {0}
        BY <3>1 DEF WriteBegins
      <4> QED BY <2>0, <3>1, <3>2, <3>3, <4>1 DEF CatalogInv, UseInv, Using, Loading
    <3> QED BY <3>1, <3>3, <3>4 DEF CatalogInv, CatalogFollowsLogin, Pending
  <2>3. CASE cmd[p].op \in {"use", "status"}
    <3>1. LoadBegins(p) /\ pc' = [pc EXCEPT ![p] = "load"] /\ pc[p] = "begin"
          /\ UNCHANGED <<cmd, catalog, settled, early, skew>>
      BY <1>21, <2>3 DEF Begin, Logins
    <3>2. pc'[p] = "load"
      BY <1>0, <3>1
    <3>3. Pending' <=> Pending
      BY <2>0, <3>1, <3>2 DEF Pending, Saving
    <3>4. ASSUME ~Pending PROVE may'[p] \ {0} \subseteq settled
      BY <1>0, <3>1, <3>4 DEF LoadBegins, Writers, Effect, Pending
    <3>5. ASSUME NEW q \in Procs PROVE UseInv(q)'
      <4>1. q # p => may'[q] = may[q]
        BY <1>0, <3>1 DEF LoadBegins
      <4> QED BY <2>0, <3>1, <3>2, <3>3, <3>4, <4>1 DEF CatalogInv, UseInv
    <3> QED BY <3>1, <3>3, <3>5 DEF CatalogInv, CatalogFollowsLogin, Pending
  <2> QED BY <1>21, <2>1, <2>2, <2>3 DEF Begin
\* The end of a logout: nothing may be stored now.
<1>22. ASSUME NEW p \in Procs, ClearFile(p) PROVE CatalogInv'
  <2>1. 0 \in settled'
    <3>1. p \in Writers /\ Effect(p) = 0
      BY <1>22 DEF ClearFile, Writers, Effect, Removing
    <3> QED BY <1>22, <3>1 DEF ClearFile, WriteEnds, LoginInv, OverlapInv
  <2> QED BY <2>1 DEF CatalogInv, CatalogFollowsLogin, UseInv
\* The end of a login: whoever uses a token now is early.
<1>23. ASSUME NEW p \in Procs, Invalidate(p) PROVE CatalogInv'
  <2>1. catalog' = 0 /\ early' = UnderWay /\ UNCHANGED <<cmd, may, settled>>
    BY <1>23 DEF Invalidate
  <2>2. ASSUME NEW q \in Procs PROVE UseInv(q)'
    <3>1. cmd[q].op = "use" /\ pc'[q] \in Using => q \in UnderWay
      BY <1>0, <1>23 DEF Invalidate, UnderWay, Using, Loading
    <3> QED BY <2>1, <3>1 DEF UseInv
  <2> QED BY <2>1, <2>2 DEF CatalogInv, CatalogFollowsLogin
\* The catalog that a command fetches with a token it has been allowed to find.
<1>24. ASSUME NEW p \in Procs, Fill(p) PROVE CatalogInv'
  <2>1. catalog' = got[p] /\ skew' = (p \in early \cup excused)
        /\ UNCHANGED <<cmd, may, settled, early>>
    BY <1>24 DEF Fill
  <2>2. pc[p] = "fill" /\ pc' = [pc EXCEPT ![p] = "done"] /\ pc'[p] = "done"
    BY <1>0, <1>24 DEF Fill
  <2>3. Pending' <=> Pending
    BY <1>0, <2>2 DEF Pending, Saving
  <2>4. ASSUME NEW q \in Procs PROVE UseInv(q)'
    BY <1>0, <2>1, <2>2, <2>3 DEF CatalogInv, UseInv, Using, Loading
  <2>5. ASSUME ~skew', 0 \notin settled, ~Pending PROVE catalog' \in settled \cup {0}
    <3>1. cmd[p].op = "use"
      BY <2>2 DEF TypeInv, PlaceInv
    <3>2. p \in Observers
      BY <2>2, <3>1 DEF Observers, Loading
    <3>3. p \notin early /\ p \notin excused
      BY <2>1, <2>5
    <3>4. got[p] \in may[p]
      BY <3>2, <3>3 DEF LoginInv, FoundInv
    <3>5. may[p] \ {0} \subseteq settled
      BY <2>2, <2>5, <3>1, <3>3 DEF CatalogInv, UseInv, Using
    <3> QED BY <2>1, <3>4, <3>5
  <2> QED BY <2>1, <2>3, <2>4, <2>5 DEF CatalogInv, CatalogFollowsLogin, Pending
<1>25. ASSUME NEW p \in Procs, Crash(p) PROVE CatalogInv'
  <2>1. pc' = [pc EXCEPT ![p] = "dead"] /\ pc'[p] = "dead" /\ settled \subseteq settled'
        /\ UNCHANGED <<cmd, may, catalog>>
    BY <1>0, <1>25 DEF Crash
  <2>2. CASE pc[p] \in Saving \cup {"invalidate"}
    <3>1. skew' = TRUE /\ early' = UnderWay
      BY <1>25, <2>2, Zenon DEF Crash
    <3>2. ASSUME NEW q \in Procs PROVE UseInv(q)'
      <4>1. cmd[q].op = "use" /\ pc'[q] \in Using => q \in UnderWay
        BY <1>0, <2>1 DEF UnderWay, Using, Loading
      <4> QED BY <2>1, <3>1, <4>1 DEF UseInv
    <3> QED BY <3>1, <3>2 DEF CatalogInv, CatalogFollowsLogin
  <2>3. CASE pc[p] \notin Saving \cup {"invalidate"}
    <3>1. UNCHANGED <<skew, early>>
      BY <1>25, <2>3, Zenon DEF Crash
    <3>2. Pending' <=> Pending
      BY <1>0, <2>1, <2>3 DEF Pending, Saving
    <3>3. ASSUME NEW q \in Procs PROVE UseInv(q)'
      BY <1>0, <2>1, <3>1, <3>2 DEF CatalogInv, UseInv, Using, Loading
    <3> QED BY <2>1, <3>1, <3>2, <3>3 DEF CatalogInv, CatalogFollowsLogin, Pending
  <2> QED BY <2>2, <2>3
<1>26. ASSUME UNCHANGED <<cmd, pc, catalog, settled, may, early, skew>> PROVE CatalogInv'
  BY <1>26, Zenon DEF CatalogInv, CatalogFollowsLogin, UseInv, Pending
<1>27. CASE UserApproves \/ Outage \/ UNCHANGED vars
  BY <1>26, <1>27 DEF UserApproves, Outage, vars
<1> QED
  BY <1>1, <1>2, <1>3, <1>4, <1>5, <1>6, <1>7, <1>8, <1>9, <1>10, <1>11, <1>12, <1>13, <1>14,
     <1>15, <1>16, <1>17, <1>18, <1>19, <1>20, <1>21, <1>22, <1>23, <1>24, <1>25, <1>27 DEF
     Next, Step, Terminating

(***************************************************************************)
(* The cached tool catalog is not one of a former token, unless a command  *)
(* was under way while a login dropped it, found another token, or a login *)
(* was killed, with any number of them (invalidateProfileCaches).          *)
(***************************************************************************)
THEOREM CatalogFollows == Spec => []CatalogFollowsLogin
<1>1. Init => TypeInv /\ LoginInv /\ CatalogInv
  BY InitTyped, InitLogin, InitCatalog
<1>2. TypeInv /\ LoginInv /\ CatalogInv /\ [Next]_vars => (TypeInv /\ LoginInv /\ CatalogInv)'
  BY TypeStep, LoginStep, CatalogStep
<1>3. CatalogInv => CatalogFollowsLogin
  BY DEF CatalogInv
<1> QED BY <1>1, <1>2, <1>3, PTL DEF Spec
=============================================================================
