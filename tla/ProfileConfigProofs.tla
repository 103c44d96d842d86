------------------------- MODULE ProfileConfigProofs -------------------------
(***************************************************************************)
(* Proofs about ProfileConfig, for any number of processes, profiles and   *)
(* values.                                                                 *)
(***************************************************************************)
EXTENDS ProfileConfig, TLAPS

(***************************************************************************)
(* Headers that are no JSON object are dropped by mapToProfile and cleared *)
(* by the next save of a login, without any overlap; and a file may come   *)
(* with a current profile that is not there.  The promises are about files *)
(* and commands without these.                                             *)
(***************************************************************************)
HasText(root) == \A n \in DOMAIN root.profiles : root.profiles[n]["headers"] \notin NonText

OrderlyFiles ==
    /\ \A f \in Files : HasText(f) /\ (Dangling(f) => f.current = Default)
    /\ \A c \in Commands : c.op = "set" /\ c.key = "headers" => c.value \notin NonText

-----------------------------------------------------------------------------
(* Configurations. *)

LEMMA RootFacts ==
    ASSUME NEW root \in Root
    PROVE  /\ root.current \in Names \cup {Unset}
           /\ DOMAIN root.profiles \subseteq Names
           /\ \A n \in DOMAIN root.profiles : root.profiles[n] \in Profile
           /\ root.profiles = [n \in DOMAIN root.profiles |-> root.profiles[n]]
           /\ root = [current |-> root.current, profiles |-> root.profiles]
<1>1. root.current \in Names \cup {Unset}
      /\ root.profiles \in UNION {[S -> Profile] : S \in SUBSET Names}
      /\ root = [current |-> root.current, profiles |-> root.profiles]
  BY DEF Root
<1>2. PICK S \in SUBSET Names : root.profiles \in [S -> Profile]
  BY <1>1
<1> QED
  BY <1>1, <1>2

LEMMA RootIs ==
    ASSUME NEW c \in Names \cup {Unset}, NEW S \in SUBSET Names, NEW f \in [S -> Profile]
    PROVE  [current |-> c, profiles |-> f] \in Root
<1>1. f \in UNION {[T -> Profile] : T \in SUBSET Names}
  OBVIOUS
<1> QED
  BY <1>1 DEF Root

LEMMA EmptyFacts == Empty \in Root /\ Nothing \in Profile /\ DOMAIN Empty.profiles = {}
<1>1. [n \in {} |-> Unset] \in [{} -> Profile]
  OBVIOUS
<1> QED
  BY <1>1, RootIs DEF Empty, Nothing, Profile

LEMMA ProfileFacts ==
    ASSUME NEW f \in Profile, NEW k \in Keys
    PROVE  f[k] \in Values \cup {Unset}
  BY DEF Profile

LEMMA CommandFacts ==
    ASSUME NEW c \in Command
    PROVE  /\ c.op \in {"init", "set", "show", "use", "create", "delete", "login"}
           /\ c.name \in Names \cup {Unset} /\ c.key \in Keys /\ c.value \in Values
  BY DEF Command

(***************************************************************************)
(* What is asked for is a configuration, and of which profiles.            *)
(***************************************************************************)
Switches(p) == cmd[p].op = "use" \/ second[p]

AskedNames(p, root) ==
    IF Switches(p) THEN DOMAIN root.profiles
    ELSE IF cmd[p].op = "delete" THEN DOMAIN root.profiles \ {cmd[p].name}
    ELSE DOMAIN root.profiles \cup {cmd[p].name}

AskedCurrent(p, root) ==
    IF Switches(p) \/ (root.current = Unset /\ cmd[p].op # "delete") THEN cmd[p].name
    ELSE IF cmd[p].op # "delete" \/ root.current # cmd[p].name THEN root.current
    ELSE IF AskedNames(p, root) = {} THEN Default
    ELSE CHOOSE n \in AskedNames(p, root) : TRUE

AskedValue(p, root, n, k) ==
    IF n = cmd[p].name /\ ~Switches(p) /\ k \in IF cmd[p].op = "set" THEN {cmd[p].key} ELSE {"host"}
    THEN cmd[p].value
    ELSE IF n \notin DOMAIN root.profiles
            \/ (n = cmd[p].name /\ ~Switches(p) /\ cmd[p].op \in {"init", "create"} /\ k = "headers")
    THEN Unset ELSE root.profiles[n][k]

LEMMA AskedIs ==
    ASSUME NEW p, NEW root
    PROVE  Asked(p, root) =
             [current  |-> AskedCurrent(p, root),
              profiles |-> [n \in AskedNames(p, root) |-> [k \in Keys |-> AskedValue(p, root, n, k)]]]
  BY DEF Asked, AskedOf, AskedCurrent, AskedNames, AskedValue, Switches

LEMMA AskedFacts ==
    ASSUME NEW p, NEW root
    PROVE  /\ Asked(p, root).current = AskedCurrent(p, root)
           /\ DOMAIN Asked(p, root).profiles = AskedNames(p, root)
           /\ \A n \in AskedNames(p, root), k \in Keys :
                Asked(p, root).profiles[n][k] = AskedValue(p, root, n, k)
  BY AskedIs

LEMMA AskedRoot ==
    ASSUME NEW p, NEW root \in Root, cmd[p] \in Command, cmd[p].name \in Names
    PROVE  Asked(p, root) \in Root
<1>1. AskedNames(p, root) \subseteq Names
  BY RootFacts DEF AskedNames
<1>2. AskedCurrent(p, root) \in Names \cup {Unset}
  BY <1>1, RootFacts, ProfileAssumption DEF AskedCurrent
<1>3. \A n \in AskedNames(p, root), k \in Keys : AskedValue(p, root, n, k) \in Values \cup {Unset}
  BY CommandFacts, RootFacts, ProfileFacts DEF AskedValue
<1>4. [n \in AskedNames(p, root) |-> [k \in Keys |-> AskedValue(p, root, n, k)]]
        \in [AskedNames(p, root) -> Profile]
  BY <1>3 DEF Profile
<1> QED
  BY <1>1, <1>2, <1>4, RootIs, AskedIs

LEMMA AskedHasText ==
    ASSUME NEW p, NEW root, HasText(root),
           cmd[p].op = "set" /\ cmd[p].key = "headers" => cmd[p].value \notin NonText
    PROVE  HasText(Asked(p, root))
<1>1. "headers" \in Keys /\ Unset \notin NonText
  BY ProfileAssumption DEF Keys
<1>2. SUFFICES ASSUME NEW n \in AskedNames(p, root)
               PROVE  AskedValue(p, root, n, "headers") \notin NonText
  BY <1>1, AskedFacts DEF HasText
<1> QED
  BY <1>1 DEF AskedValue, HasText

(***************************************************************************)
(* Each edit does what is asked for, on the file that its process knows.   *)
(***************************************************************************)
LEMMA RootsEqual ==
    ASSUME NEW p, NEW root, NEW c, NEW S, NEW f,
           c = AskedCurrent(p, root), S = AskedNames(p, root),
           \A n \in S : f[n] = [k \in Keys |-> AskedValue(p, root, n, k)]
    PROVE  [current |-> c, profiles |-> [n \in S |-> f[n]]] = Asked(p, root)
  BY AskedIs

LEMMA StoredFacts ==
    ASSUME NEW root \in Root, NEW n
    PROVE  /\ Stored(root, n) \in Profile
           /\ \A k \in Keys : Stored(root, n)[k] =
                IF n \in DOMAIN root.profiles THEN root.profiles[n][k] ELSE Unset
  BY RootFacts, EmptyFacts DEF Stored, Nothing

LEMMA WithProfileIsAsked ==
    ASSUME NEW p, NEW root \in Root, NEW v \in [Keys -> Values \cup {Unset}],
           ~Switches(p), cmd[p].op # "delete",
           \A k \in Keys : v[k] = AskedValue(p, root, cmd[p].name, k)
    PROVE  WithProfile(root, cmd[p].name, v) = Asked(p, root)
<1> DEFINE n == cmd[p].name
           f == [m \in DOMAIN root.profiles \cup {n} |-> IF m = n THEN v ELSE root.profiles[m]]
<1>1. AskedNames(p, root) = DOMAIN root.profiles \cup {n}
  BY DEF AskedNames
<1>2. AskedCurrent(p, root) = IF root.current = Unset THEN n ELSE root.current
  BY DEF AskedCurrent
<1>3. v = [k \in Keys |-> AskedValue(p, root, n, k)]
  OBVIOUS
<1>4. ASSUME NEW m \in DOMAIN root.profiles, m # n
      PROVE  root.profiles[m] = [k \in Keys |-> AskedValue(p, root, m, k)]
  <2>1. root.profiles[m] \in [Keys -> Values \cup {Unset}]
    BY RootFacts DEF Profile
  <2>2. \A k \in Keys : AskedValue(p, root, m, k) = root.profiles[m][k]
    BY <1>4 DEF AskedValue
  <2> QED
    BY <2>1, <2>2
<1>5. \A m \in AskedNames(p, root) : f[m] = [k \in Keys |-> AskedValue(p, root, m, k)]
  BY <1>1, <1>3, <1>4
<1>6. f = [m \in AskedNames(p, root) |-> [k \in Keys |-> AskedValue(p, root, m, k)]]
  BY <1>1, <1>5
<1> QED
  BY <1>2, <1>6, AskedIs DEF WithProfile

LEMMA SetIsAsked ==
    ASSUME NEW p, NEW root \in Root, cmd[p] \in Command, cmd[p].op = "set", ~Switches(p)
    PROVE  SetValue(root, cmd[p].name, cmd[p].key, cmd[p].value) = Asked(p, root)
<1> DEFINE v == [Stored(root, cmd[p].name) EXCEPT ![cmd[p].key] = cmd[p].value]
<1>1. Stored(root, cmd[p].name) \in [Keys -> Values \cup {Unset}]
  BY StoredFacts DEF Profile
<1>2. v \in [Keys -> Values \cup {Unset}]
  BY <1>1, CommandFacts
<1>3. \A k \in Keys : v[k] = AskedValue(p, root, cmd[p].name, k)
  BY <1>1, StoredFacts DEF AskedValue
<1> QED
  BY <1>2, <1>3, WithProfileIsAsked DEF SetValue

LEMMA SaveIsAsked ==
    ASSUME NEW p, NEW root \in Root, cmd[p] \in Command, NEW c \in [Keys -> Values \cup {Unset}],
           cmd[p].op \in {"init", "create", "login"}, ~Switches(p), HasText(root),
           c = IF cmd[p].op = "login" THEN Loaded(root, cmd[p].name) ELSE Nothing
    PROVE  SaveProfile(root, cmd[p].name, [c EXCEPT !["host"] = cmd[p].value]) = Asked(p, root)
<1> DEFINE n == cmd[p].name
           d == [c EXCEPT !["host"] = cmd[p].value]
           v == [k \in Keys |-> IF d[k] # Unset \/ k \in {"host", "headers"} THEN d[k]
                                ELSE Stored(root, n)[k]]
<1>1. d \in [Keys -> Values \cup {Unset}]
  BY CommandFacts
<1>2. v \in [Keys -> Values \cup {Unset}]
  BY <1>1, StoredFacts DEF Profile
<1>3. \A k \in Keys : d[k] = IF k = "host" THEN cmd[p].value ELSE c[k]
  OBVIOUS
<1>4. ASSUME NEW k \in Keys
      PROVE  v[k] = AskedValue(p, root, n, k)
  <2>1. cmd[p].value # Unset
    BY CommandFacts, ProfileAssumption
  <2>2. Stored(root, n)[k] = IF n \in DOMAIN root.profiles THEN root.profiles[n][k] ELSE Unset
    BY StoredFacts
  <2>3. CASE cmd[p].op = "login"
    <3>1. c[k] = IF n \notin DOMAIN root.profiles \/ k = "extra" \/ root.profiles[n][k] \in NonText
                 THEN Unset ELSE root.profiles[n][k]
      BY <2>3 DEF Loaded, Nothing
    <3>2. k = "headers" /\ n \in DOMAIN root.profiles => root.profiles[n][k] \notin NonText
      BY DEF HasText
    <3> QED
      BY <1>3, <2>1, <2>2, <2>3, <3>1, <3>2 DEF AskedValue, Keys
  <2>4. CASE cmd[p].op \in {"init", "create"}
    <3>1. c[k] = Unset
      BY <2>4 DEF Nothing
    <3> QED
      BY <1>3, <2>1, <2>2, <2>4, <3>1 DEF AskedValue, Keys
  <2> QED
    BY <2>3, <2>4
<1>5. WithProfile(root, n, v) = Asked(p, root)
  BY <1>2, <1>4, WithProfileIsAsked
<1> QED
  BY <1>5 DEF SaveProfile

LEMMA OthersAsked ==
    ASSUME NEW p, NEW root \in Root, NEW n \in DOMAIN root.profiles,
           Switches(p) \/ n # cmd[p].name
    PROVE  root.profiles[n] = [k \in Keys |-> AskedValue(p, root, n, k)]
<1>1. root.profiles[n] \in [Keys -> Values \cup {Unset}]
  BY RootFacts DEF Profile
<1>2. \A k \in Keys : AskedValue(p, root, n, k) = root.profiles[n][k]
  BY DEF AskedValue
<1> QED
  BY <1>1, <1>2

LEMMA UseIsAsked ==
    ASSUME NEW p, NEW root \in Root, Switches(p)
    PROVE  SetCurrent(root, cmd[p].name) = Asked(p, root)
<1>1. AskedNames(p, root) = DOMAIN root.profiles /\ AskedCurrent(p, root) = cmd[p].name
  BY DEF AskedNames, AskedCurrent
<1>2. root.profiles = [n \in AskedNames(p, root) |-> [k \in Keys |-> AskedValue(p, root, n, k)]]
  <2>1. ASSUME NEW n \in DOMAIN root.profiles
        PROVE  root.profiles[n] = [k \in Keys |-> AskedValue(p, root, n, k)]
    BY OthersAsked
  <2>2. root.profiles = [n \in DOMAIN root.profiles |-> root.profiles[n]]
    BY RootFacts
  <2> QED
    BY <1>1, <2>1, <2>2
<1>3. SetCurrent(root, cmd[p].name) = [current |-> cmd[p].name, profiles |-> root.profiles]
  <2>1. root = [current |-> root.current, profiles |-> root.profiles]
    BY RootFacts
  <2> QED
    BY <2>1 DEF SetCurrent
<1> QED
  BY <1>1, <1>2, <1>3, AskedIs

LEMMA DeleteIsAsked ==
    ASSUME NEW p, NEW root \in Root, ~Switches(p), cmd[p].op = "delete"
    PROVE  Delete(root, cmd[p].name) = Asked(p, root)
<1>1. AskedNames(p, root) = DOMAIN root.profiles \ {cmd[p].name}
  BY DEF AskedNames
<1>2. [n \in AskedNames(p, root) |-> root.profiles[n]]
        = [n \in AskedNames(p, root) |-> [k \in Keys |-> AskedValue(p, root, n, k)]]
  BY <1>1, OthersAsked
<1>3. AskedCurrent(p, root) =
        IF root.current # cmd[p].name THEN root.current
        ELSE IF AskedNames(p, root) = {} THEN Default
        ELSE CHOOSE n \in AskedNames(p, root) : TRUE
  BY DEF AskedCurrent
<1> QED
  BY <1>1, <1>2, <1>3, AskedIs DEF Delete

LEMMA EditIsAsked ==
    ASSUME NEW p, NEW root \in Root, cmd[p] \in Command, cmd[p].op # "show", HasText(root),
           cfg[p] \in Profile, second[p] = TRUE => cmd[p].op = "create", second[p] \in BOOLEAN,
           cmd[p].op = "login" => cfg[p] = Loaded(root, cmd[p].name),
           cmd[p].op \in {"init", "create"} => cfg[p] = Nothing
    PROVE  Edit(p, root) = Asked(p, root)
<1>1. CASE Switches(p)
  <2>1. Edit(p, root) = SetCurrent(root, cmd[p].name)
    BY <1>1 DEF Edit, Switches
  <2> QED
    BY <1>1, <2>1, UseIsAsked
<1>2. CASE ~Switches(p) /\ cmd[p].op = "set"
  BY <1>2, SetIsAsked DEF Edit, Switches
<1>3. CASE ~Switches(p) /\ cmd[p].op = "delete"
  BY <1>3, DeleteIsAsked DEF Edit, Switches
<1>4. CASE ~Switches(p) /\ cmd[p].op \in {"init", "create", "login"}
  <2>1. Edit(p, root) = SaveProfile(root, cmd[p].name, [cfg[p] EXCEPT !["host"] = cmd[p].value])
    BY <1>4 DEF Edit, Switches
  <2>2. cfg[p] \in [Keys -> Values \cup {Unset}]
    BY DEF Profile
  <2>3. cfg[p] = IF cmd[p].op = "login" THEN Loaded(root, cmd[p].name) ELSE Nothing
    BY <1>4
  <2> QED
    BY <1>4, <2>1, <2>2, <2>3, SaveIsAsked
<1> QED
  BY <1>1, <1>2, <1>3, <1>4, CommandFacts DEF Switches

(***************************************************************************)
(* An edit yields a configuration, whatever the file was taken for.        *)
(***************************************************************************)
LEMMA WithProfileRoot ==
    ASSUME NEW root \in Root, NEW n \in Names, NEW v \in Profile
    PROVE  WithProfile(root, n, v) \in Root
<1> DEFINE S == DOMAIN root.profiles \cup {n}
           f == [m \in S |-> IF m = n THEN v ELSE root.profiles[m]]
           c == IF root.current = Unset THEN n ELSE root.current
<1>1. S \in SUBSET Names /\ c \in Names \cup {Unset} /\ f \in [S -> Profile]
  BY RootFacts
<1>2. [current |-> c, profiles |-> f] \in Root
  <2> HIDE DEF S, f, c
  <2> QED
    BY <1>1, RootIs
<1> QED
  BY <1>2 DEF WithProfile

LEMMA EditRoot ==
    ASSUME NEW p, NEW root \in Root, cmd[p] \in Command, cmd[p].name \in Names, cfg[p] \in Profile
    PROVE  Edit(p, root) \in Root
<1> DEFINE n == cmd[p].name
<1>1. SetCurrent(root, n) \in Root
  <2>1. root = [current |-> root.current, profiles |-> root.profiles]
        /\ root.profiles \in UNION {[S -> Profile] : S \in SUBSET Names}
    BY DEF Root
  <2>2. SetCurrent(root, n) = [current |-> n, profiles |-> root.profiles]
    BY <2>1 DEF SetCurrent
  <2> QED
    BY <2>1, <2>2 DEF Root
<1>2. SetValue(root, n, cmd[p].key, cmd[p].value) \in Root
  <2>1. [Stored(root, n) EXCEPT ![cmd[p].key] = cmd[p].value] \in Profile
    <3>1. Stored(root, n) \in [Keys -> Values \cup {Unset}]
      BY StoredFacts DEF Profile
    <3> QED
      BY <3>1, CommandFacts DEF Profile
  <2> QED
    BY <2>1, WithProfileRoot DEF SetValue
<1>3. Delete(root, n) \in Root
  <2> DEFINE S == DOMAIN root.profiles \ {n}
             f == [m \in S |-> root.profiles[m]]
             c == IF root.current # n THEN root.current
                  ELSE IF S = {} THEN Default ELSE CHOOSE m \in S : TRUE
  <2>1. S \in SUBSET Names /\ c \in Names \cup {Unset} /\ f \in [S -> Profile]
    BY RootFacts, ProfileAssumption
  <2>2. [current |-> c, profiles |-> f] \in Root
    <3> HIDE DEF S, f, c
    <3> QED
      BY <2>1, RootIs
  <2> QED
    BY <2>2 DEF Delete
<1>4. SaveProfile(root, n, [cfg[p] EXCEPT !["host"] = cmd[p].value]) \in Root
  <2> DEFINE d == [cfg[p] EXCEPT !["host"] = cmd[p].value]
             v == [k \in Keys |-> IF d[k] # Unset \/ k \in {"host", "headers"} THEN d[k]
                                  ELSE Stored(root, n)[k]]
  <2>1. d \in [Keys -> Values \cup {Unset}]
    BY CommandFacts DEF Profile
  <2>2. Stored(root, n) \in [Keys -> Values \cup {Unset}]
    BY StoredFacts DEF Profile
  <2>3. v \in Profile
    BY <2>1, <2>2 DEF Profile
  <2>4. WithProfile(root, n, v) \in Root
    BY <2>3, WithProfileRoot
  <2> QED
    BY <2>4 DEF SaveProfile
<1> HIDE DEF n
<1> QED
  BY <1>1, <1>2, <1>3, <1>4, CommandFacts DEF Edit, n

-----------------------------------------------------------------------------
(***************************************************************************)
(* Where a process is, and what it is there for.                           *)
(***************************************************************************)
Editing == {"read", "open", "write"}

Placed(p) ==
    /\ pc[p] = "load" => cmd[p].op = "login"
    /\ pc[p] = "show" => cmd[p].op = "show"
    /\ pc[p] = "check" => cmd[p].op \in {"use", "create", "delete"}
    /\ pc[p] \in Editing => cmd[p].op # "show"
    /\ pc[p] \in {"prompt", "signin"} => cmd[p].op = "create"
    /\ pc[p] = "clear" => cmd[p].op = "delete"
    /\ pc[p] = "start" => relied[p] = "no"
    /\ second[p] = TRUE => cmd[p].op = "create" /\ pc[p] \in Editing \cup {"done", "dead"}
    /\ cmd[p].name = Unset => pc[p] \in {"start", "dead"}
    /\ cmd[p].op \in {"init", "create"} => cfg[p] = Nothing
    /\ cmd[p].op = "set" /\ cmd[p].key = "headers" => cmd[p].value \notin NonText
    /\ outcome[p] # "none" => pc[p] = "done"

BlankIsEmpty == text # "whole" => file = Empty

PlaceInv ==
    /\ TypeOK /\ BlankIsEmpty /\ HasText(asked)
    /\ \A p \in Procs : Placed(p)

LEMMA LoadedFacts ==
    ASSUME NEW root \in Root, NEW n
    PROVE  Loaded(root, n) \in Profile
<1>1. CASE n \notin DOMAIN root.profiles
  BY <1>1, EmptyFacts DEF Loaded
<1>2. CASE n \in DOMAIN root.profiles
  <2>1. root.profiles[n] \in [Keys -> Values \cup {Unset}]
    BY <1>2, RootFacts DEF Profile
  <2> QED
    BY <1>2, <2>1 DEF Loaded, Profile
<1> QED
  BY <1>1, <1>2

LEMMA Named ==
    ASSUME PlaceInv, NEW p \in Procs, pc[p] \notin {"start", "dead"}
    PROVE  cmd[p] \in Command /\ cmd[p].name \in Names
<1>1. cmd[p] \in Command
  BY DEF PlaceInv, TypeOK
<1>2. cmd[p].name # Unset
  BY DEF PlaceInv, Placed
<1> QED
  BY <1>1, <1>2, CommandFacts

LEMMA InitPlaced ==
    ASSUME OrderlyFiles, Init
    PROVE  PlaceInv
<1>1. file \in Root /\ asked = file /\ HasText(file)
  BY ProfileAssumption DEF Init, OrderlyFiles
<1>2. \A p \in Procs : cmd[p] \in Commands /\ cmd[p] \in Command
  BY ProfileAssumption DEF Init
<1>3. TypeOK
  <2>1. cmd \in [Procs -> Command]
    BY ProfileAssumption DEF Init
  <2>2. cfg \in [Procs -> Profile] /\ buf \in [Procs -> Root]
    BY EmptyFacts DEF Init
  <2> QED
    BY <1>1, <2>1, <2>2 DEF Init, TypeOK
<1>4. \A p \in Procs : Placed(p)
  BY <1>2 DEF Init, Placed, Editing, OrderlyFiles
<1> QED
  BY <1>1, <1>3, <1>4 DEF PlaceInv, BlankIsEmpty, Init

LEMMA Renamed ==
    ASSUME NEW c \in Command, NEW n \in Names
    PROVE  /\ [c EXCEPT !.name = n] \in Command
           /\ [c EXCEPT !.name = n].name = n /\ [c EXCEPT !.name = n].op = c.op
           /\ [c EXCEPT !.name = n].key = c.key /\ [c EXCEPT !.name = n].value = c.value
  BY DEF Command

LEMMA StartFacts ==
    ASSUME PlaceInv, NEW p \in Procs, Start(p)
    PROVE  /\ cmd' \in [Procs -> Command] /\ cmd'[p].name \in Names
           /\ cmd'[p].op = cmd[p].op /\ cmd'[p].key = cmd[p].key /\ cmd'[p].value = cmd[p].value
           /\ \A q \in Procs : q # p => cmd'[q] = cmd[q]
<1>1. cmd \in [Procs -> Command] /\ file \in Root
  BY DEF PlaceInv, TypeOK
<1>2. CurrentName(file) \in Names
  BY <1>1, RootFacts, ProfileAssumption DEF CurrentName
<1>3. CASE cmd[p].name = Unset
  <2>1. cmd' = [cmd EXCEPT ![p] = [cmd[p] EXCEPT !.name = CurrentName(file)]]
    BY <1>3 DEF Start
  <2> QED
    BY <1>1, <1>2, <2>1, Renamed
<1>4. CASE cmd[p].name # Unset
  BY <1>1, <1>4, CommandFacts DEF Start
<1> QED
  BY <1>3, <1>4

LEMMA StartPlaced ==
    ASSUME PlaceInv, NEW p \in Procs, Start(p)
    PROVE  PlaceInv'
<1>1. TypeOK'
  <2>1. cmd' \in [Procs -> Command]
    BY StartFacts
  <2>2. pc' \in [Procs -> {"start", "load", "show", "check", "prompt", "clear", "read", "open",
                           "write", "signin", "done", "dead"}]
    BY CommandFacts DEF Start, Goto, PlaceInv, TypeOK
  <2> QED
    BY <2>1, <2>2 DEF Start, Looks, PlaceInv, TypeOK
<1>2. BlankIsEmpty' /\ HasText(asked)'
  BY DEF Start, PlaceInv, BlankIsEmpty, HasText
<1>3. ASSUME NEW q \in Procs PROVE Placed(q)'
  <2>1. CASE q # p
    <3>1. cmd'[q] = cmd[q] /\ pc'[q] = pc[q]
      BY <2>1, StartFacts DEF Start, Goto, PlaceInv, TypeOK
    <3> QED
      BY <3>1 DEF Start, Placed, PlaceInv
  <2>2. CASE q = p
    <3>1. /\ cmd'[p].op = "login" => pc'[p] = "load"
          /\ cmd'[p].op = "show" => pc'[p] = "show"
          /\ cmd'[p].op \in {"use", "create", "delete"} => pc'[p] = "check"
          /\ cmd'[p].op \in {"init", "set"} => pc'[p] = "read"
      BY StartFacts DEF Start, Goto, PlaceInv, TypeOK
    <3>2. cmd'[p].name # Unset /\ cmd'[p] \in Command /\ cmd'[p].op = cmd[p].op
          /\ cmd'[p].key = cmd[p].key /\ cmd'[p].value = cmd[p].value
      BY StartFacts, ProfileAssumption
    <3>3. UNCHANGED <<cfg, second, outcome, relied>> /\ pc[p] = "start"
      BY DEF Start
    <3> QED
      BY <2>2, <3>1, <3>2, <3>3, CommandFacts DEF Placed, Editing, PlaceInv
  <2> QED
    BY <2>1, <2>2
<1> QED
  BY <1>1, <1>2, <1>3 DEF PlaceInv

LEMMA ReadPlaced ==
    ASSUME PlaceInv, NEW p \in Procs, Read(p)
    PROVE  PlaceInv'
<1>1. Edit(p, file) \in Root
  BY Named, EditRoot DEF Read, PlaceInv, TypeOK
<1>2. TypeOK'
  BY <1>1 DEF Read, Goto, PlaceInv, TypeOK
<1>3. \A q \in Procs : Placed(q)'
  BY DEF Read, Goto, Placed, Editing, PlaceInv, TypeOK
<1> QED
  BY <1>2, <1>3 DEF Read, PlaceInv, BlankIsEmpty, HasText

LEMMA WritePlaced ==
    ASSUME PlaceInv, NEW p \in Procs, Write(p)
    PROVE  PlaceInv'
<1>1. cmd[p] \in Command /\ cmd[p].name \in Names /\ asked \in Root /\ HasText(asked)
  BY Named DEF Write, PlaceInv, TypeOK
<1>2. Asked(p, asked) \in Root /\ HasText(Asked(p, asked))
  BY <1>1, AskedRoot, AskedHasText DEF PlaceInv, Placed
<1>3. TypeOK'
  <2>1. text' \in {"whole", "blank", "garbled"} /\ file' \in Root
    BY EmptyFacts DEF Write, PlaceInv, TypeOK
  <2>2. asked' \in Root
    BY <1>2 DEF Write
  <2>3. relied' \in [Procs -> {"no", "yes", "gone"}]
    BY DEF Write, PlaceInv, TypeOK
  <2>4. /\ pc' \in [Procs -> {"start", "load", "show", "check", "prompt", "clear", "read", "open",
                              "write", "signin", "done", "dead"}]
        /\ outcome' \in [Procs -> {"none", "ok", "refused", "failed"}]
    BY DEF Write, Goto, End, PlaceInv, TypeOK
  <2>5. harm' \subseteq {"stale", "broken", "crash", "garbled"} /\ stale' \subseteq Procs
    BY DEF Write, PlaceInv, TypeOK
  <2> QED
    BY <2>1, <2>2, <2>3, <2>4, <2>5 DEF Write, PlaceInv, TypeOK
<1>4. BlankIsEmpty' /\ HasText(asked)'
  BY <1>2 DEF Write, BlankIsEmpty, HasText
<1>5. ASSUME NEW q \in Procs PROVE Placed(q)'
  <2>1. CASE q # p
    <3>1. pc'[q] = pc[q] /\ outcome'[q] = outcome[q] /\ (relied[q] = "no" => relied'[q] = "no")
      BY <2>1 DEF Write, Goto, End, PlaceInv, TypeOK
    <3> QED
      BY <3>1 DEF Write, Placed, PlaceInv
  <2>2. CASE q = p
    <3>1. pc[p] = "write" /\ pc'[p] \in {"signin", "done"}
          /\ (pc'[p] = "signin" => cmd[p].op = "create" /\ second[p] = FALSE
                                   /\ outcome'[p] = outcome[p])
      BY DEF Write, Goto, End, PlaceInv, TypeOK
    <3>2. UNCHANGED <<cmd, cfg, second>>
      BY DEF Write
    <3> QED
      BY <2>2, <3>1, <3>2 DEF Placed, Editing, PlaceInv
  <2> QED
    BY <2>1, <2>2
<1> QED
  BY <1>3, <1>4, <1>5 DEF PlaceInv

LEMMA PlaceStep ==
    ASSUME PlaceInv, [Next]_vars
    PROVE  PlaceInv'
<1>1. ASSUME NEW p \in Procs, Load(p) PROVE PlaceInv'
  <2>1. Loaded(file, cmd[p].name) \in Profile
    BY LoadedFacts DEF PlaceInv, TypeOK
  <2>2. TypeOK'
    BY <1>1, <2>1 DEF Load, Goto, Looks, PlaceInv, TypeOK
  <2>3. \A q \in Procs : Placed(q)'
    BY <1>1 DEF Load, Goto, Placed, Editing, PlaceInv, TypeOK
  <2> QED
    BY <1>1, <2>2, <2>3 DEF Load, PlaceInv, BlankIsEmpty, HasText
<1>2. ASSUME NEW p \in Procs, Show(p) PROVE PlaceInv'
  <2>0. pc[p] = "show" => cmd[p].op \notin {"init", "create"}
    BY DEF PlaceInv, Placed
  <2>1. Stored(file, cmd[p].name) \in Profile
    BY StoredFacts DEF PlaceInv, TypeOK
  <2>2. TypeOK'
    BY <1>2, <2>1 DEF Show, Goto, End, Looks, PlaceInv, TypeOK
  <2>3. \A q \in Procs : Placed(q)'
    BY <1>2, <2>0 DEF Show, Goto, End, Placed, Editing, PlaceInv, TypeOK
  <2> QED
    BY <1>2, <2>2, <2>3 DEF Show, PlaceInv, BlankIsEmpty, HasText
<1>3. ASSUME NEW p \in Procs, Check(p) PROVE PlaceInv'
  <2>1. cmd[p] \in Command
    BY DEF PlaceInv, TypeOK
  <2>2. /\ pc' \in [Procs -> {"start", "load", "show", "check", "prompt", "clear", "read", "open",
                              "write", "signin", "done", "dead"}]
        /\ outcome' \in [Procs -> {"none", "ok", "refused", "failed"}]
        /\ relied' \in [Procs -> {"no", "yes", "gone"}]
    BY <1>3 DEF Check, Goto, End, PlaceInv, TypeOK
  <2>3. TypeOK'
    BY <1>3, <2>2 DEF Check, Looks, PlaceInv, TypeOK
  <2>4. ASSUME NEW q \in Procs PROVE Placed(q)'
    <3>1. CASE q # p
      <4>1. pc'[q] = pc[q] /\ outcome'[q] = outcome[q] /\ relied'[q] = relied[q]
        BY <1>3, <3>1 DEF Check, Goto, End, PlaceInv, TypeOK
      <4> QED
        BY <1>3, <4>1 DEF Check, Placed, PlaceInv
    <3>2. CASE q = p
      <4>1. /\ pc[p] = "check" /\ pc'[p] \in {"done", "read", "prompt", "clear"}
            /\ pc'[p] = "read" => cmd[p].op = "use"
            /\ pc'[p] = "prompt" => cmd[p].op = "create"
            /\ pc'[p] = "clear" => cmd[p].op = "delete"
            /\ pc'[p] # "done" => outcome'[p] = outcome[p]
        BY <1>3 DEF Check, Goto, End, PlaceInv, TypeOK, Placed
      <4>2. UNCHANGED <<cmd, cfg, second>>
        BY <1>3 DEF Check
      <4> QED
        BY <3>2, <4>1, <4>2 DEF Placed, Editing, PlaceInv
    <3> QED
      BY <3>1, <3>2
  <2> QED
    BY <1>3, <2>3, <2>4 DEF Check, PlaceInv, BlankIsEmpty, HasText
<1>4. ASSUME NEW p \in Procs, Prompt(p) \/ Clear(p) \/ SignIn(p) PROVE PlaceInv'
  <2>1. TypeOK'
    BY <1>4 DEF Prompt, Clear, SignIn, Goto, End, history, PlaceInv, TypeOK
  <2>2. \A q \in Procs : Placed(q)'
    BY <1>4 DEF Prompt, Clear, SignIn, Goto, End, history, Placed, Editing, PlaceInv, TypeOK
  <2> QED
    BY <1>4, <2>1, <2>2 DEF Prompt, Clear, SignIn, history, PlaceInv, BlankIsEmpty, HasText
<1>5. ASSUME NEW p \in Procs, Open(p) PROVE PlaceInv'
  <2>1. TypeOK'
    BY <1>5, EmptyFacts DEF Open, Goto, history, PlaceInv, TypeOK
  <2>2. \A q \in Procs : Placed(q)'
    BY <1>5 DEF Open, Goto, history, Placed, Editing, PlaceInv, TypeOK
  <2> QED
    BY <1>5, <2>1, <2>2 DEF Open, history, PlaceInv, BlankIsEmpty, HasText
<1>6. ASSUME NEW p \in Procs, Crash(p) PROVE PlaceInv'
  <2>1. TypeOK'
    BY <1>6 DEF Crash, Goto, PlaceInv, TypeOK
  <2>2. \A q \in Procs : Placed(q)'
    BY <1>6 DEF Crash, Goto, Placed, Editing, PlaceInv, TypeOK
  <2> QED
    BY <1>6, <2>1, <2>2 DEF Crash, PlaceInv, BlankIsEmpty, HasText
<1>7. CASE UNCHANGED vars
  BY <1>7 DEF vars, PlaceInv, TypeOK, BlankIsEmpty, HasText, Placed
<1> QED
  BY <1>1, <1>2, <1>3, <1>4, <1>5, <1>6, <1>7, StartPlaced, ReadPlaced, WritePlaced
     DEF Next, Step, Terminating

-----------------------------------------------------------------------------
(***************************************************************************)
(* The file and what processes hold of it, as long as nothing has gone     *)
(* wrong: no harm so far, and nobody about to do some.                     *)
(***************************************************************************)
Clean == harm = {} /\ \A q \in Writing : q \notin stale

WritesRight(p) ==
    /\ pc[p] \in {"open", "write"} /\ p \notin stale => buf[p] = Asked(p, asked)
    /\ cmd[p].op = "login" /\ pc[p] = "read" /\ p \notin stale /\ Writing = {}
         => cfg[p] = Loaded(asked, cmd[p].name)

FileInv ==
    Clean => /\ Writing = {} => text = "whole" /\ file = asked
             /\ Writing # {} => text = "blank"
             /\ \A p \in Procs : WritesRight(p)

\* The steps of others do not change what is asked for.
LEMMA AskedSame ==
    ASSUME NEW p, cmd'[p] = cmd[p], second'[p] = second[p], asked' = asked
    PROVE  Asked(p, asked)' = Asked(p, asked)
  BY DEF Asked

\* A step of p that writes nothing.
Quiet(p) ==
    /\ pc[p] # "write" /\ pc'[p] # "write"
    /\ UNCHANGED <<text, file, asked>>
    /\ stale' \subseteq stale /\ stale \subseteq stale' \cup {p} /\ harm \subseteq harm'
    /\ \A q \in Procs : q # p =>
         /\ pc'[q] = pc[q] /\ cmd'[q] = cmd[q] /\ cfg'[q] = cfg[q] /\ buf'[q] = buf[q]
         /\ second'[q] = second[q] /\ outcome'[q] = outcome[q] /\ relied'[q] = relied[q]

LEMMA QuietSteps ==
    ASSUME PlaceInv, NEW p \in Procs,
           \/ Start(p) \/ Load(p) \/ Show(p) \/ Check(p) \/ Prompt(p) \/ Clear(p) \/ Read(p)
           \/ SignIn(p) \/ (Crash(p) /\ pc[p] # "write")
    PROVE  Quiet(p)
<1>1. CASE Start(p)
  <2>1. pc[p] # "write" /\ pc'[p] # "write" /\ \A q \in Procs : q # p => pc'[q] = pc[q]
    BY <1>1, CommandFacts DEF Start, Goto, PlaceInv, TypeOK
  <2> QED
    BY <1>1, <2>1, StartFacts DEF Start, Looks, Quiet
<1>2. CASE Load(p) \/ Show(p)
  BY <1>2 DEF Load, Show, Goto, End, Looks, Quiet, PlaceInv, TypeOK
<1>3. CASE Check(p)
  BY <1>3 DEF Check, Goto, End, Looks, Quiet, PlaceInv, TypeOK
<1>4. CASE Prompt(p) \/ Clear(p) \/ SignIn(p)
  BY <1>4 DEF Prompt, Clear, SignIn, Goto, End, history, Quiet, PlaceInv, TypeOK
<1>5. CASE Read(p)
  BY <1>5 DEF Read, Goto, Quiet, PlaceInv, TypeOK
<1>6. CASE Crash(p) /\ pc[p] # "write"
  BY <1>6 DEF Crash, Goto, Quiet, PlaceInv, TypeOK
<1> QED
  BY <1>1, <1>2, <1>3, <1>4, <1>5, <1>6

LEMMA QuietClean ==
    ASSUME NEW p \in Procs, Quiet(p), Clean'
    PROVE  Clean /\ Writing' = Writing
<1>1. Writing' = Writing
  BY DEF Quiet, Writing
<1>2. p \notin Writing
  BY DEF Quiet, Writing
<1> QED
  BY <1>1, <1>2 DEF Quiet, Clean

LEMMA QuietFile ==
    ASSUME NEW p \in Procs, Quiet(p), FileInv, Clean' => WritesRight(p)'
    PROVE  FileInv'
<1> SUFFICES ASSUME Clean' PROVE /\ Writing' = {} => text' = "whole" /\ file' = asked'
                                 /\ Writing' # {} => text' = "blank"
                                 /\ \A q \in Procs : WritesRight(q)'
  BY DEF FileInv
<1>1. Clean /\ Writing' = Writing
  BY QuietClean
<1>2. ASSUME NEW q \in Procs, q # p PROVE WritesRight(q)'
  <2>1. /\ pc'[q] = pc[q] /\ cmd'[q] = cmd[q] /\ cfg'[q] = cfg[q] /\ buf'[q] = buf[q]
        /\ second'[q] = second[q] /\ asked' = asked /\ (q \in stale' <=> q \in stale)
    BY <1>2 DEF Quiet
  <2>2. Asked(q, asked)' = Asked(q, asked)
    BY <2>1, AskedSame
  <2>3. WritesRight(q)
    BY <1>1 DEF FileInv
  <2> QED
    BY <1>1, <2>1, <2>2, <2>3 DEF WritesRight
<1> QED
  BY <1>1, <1>2 DEF Quiet, FileInv

LEMMA ReadFile ==
    ASSUME PlaceInv, FileInv, NEW p \in Procs, Read(p)
    PROVE  FileInv'
<1>1. Quiet(p)
  BY QuietSteps
<1>2. SUFFICES ASSUME Clean' PROVE WritesRight(p)'
  BY <1>1, QuietFile
<1>3. Clean /\ Writing' = Writing
  BY <1>1, <1>2, QuietClean
<1>4. text = "whole"
  BY <1>2 DEF Clean, Read
<1>5. Writing = {} /\ file = asked
  BY <1>3, <1>4 DEF FileInv
<1>6. pc'[p] = "open" /\ buf'[p] = Edit(p, asked) /\ UNCHANGED <<cmd, second, asked>>
  BY <1>5 DEF Read, Goto, PlaceInv, TypeOK
<1>7. ASSUME p \notin stale' PROVE Edit(p, asked) = Asked(p, asked)
  <2>1. cmd[p].op = "login" => cfg[p] = Loaded(asked, cmd[p].name)
    BY <1>3, <1>5, <1>7 DEF Read, FileInv, WritesRight
  <2>2. cmd[p] \in Command /\ asked \in Root /\ HasText(asked) /\ cfg[p] \in Profile
        /\ second[p] \in BOOLEAN
    BY DEF PlaceInv, TypeOK
  <2>3. cmd[p].op # "show" /\ (second[p] = TRUE => cmd[p].op = "create")
        /\ (cmd[p].op \in {"init", "create"} => cfg[p] = Nothing)
    BY DEF Read, PlaceInv, Placed, Editing
  <2> QED
    BY <2>1, <2>2, <2>3, EditIsAsked
<1>8. Asked(p, asked)' = Asked(p, asked)
  BY <1>6, AskedSame
<1> QED
  BY <1>6, <1>7, <1>8 DEF WritesRight

LEMMA OpenFile ==
    ASSUME PlaceInv, FileInv, NEW p \in Procs, Open(p)
    PROVE  FileInv'
<1> SUFFICES ASSUME Clean'
             PROVE  Writing' # {} /\ text' = "blank" /\ \A q \in Procs : WritesRight(q)'
  BY DEF FileInv
<1>1. pc[p] = "open" /\ pc'[p] = "write" /\ \A q \in Procs : q # p => pc'[q] = pc[q]
  BY DEF Open, Goto, PlaceInv, TypeOK
<1>2. Writing' = Writing \cup {p}
  BY <1>1 DEF Writing
<1>3. Clean
  BY <1>2 DEF Open, history, Clean
<1>4. ASSUME NEW q \in Procs PROVE WritesRight(q)'
  <2>1. UNCHANGED <<cmd, cfg, buf, second, asked, stale>>
    BY DEF Open, history
  <2>2. Asked(q, asked)' = Asked(q, asked)
    BY <2>1, AskedSame
  <2>3. WritesRight(q)
    BY <1>3 DEF FileInv
  <2> QED
    BY <1>1, <1>2, <2>1, <2>2, <2>3 DEF WritesRight
<1> QED
  BY <1>2, <1>4 DEF Open

LEMMA WriteClean ==
    ASSUME PlaceInv, NEW p \in Procs, Write(p), Clean'
    PROVE  /\ Clean /\ Writing = {p} /\ p \notin stale /\ Writing' = {}
           /\ text' # "garbled"
<1>1. harm = {} /\ p \notin stale /\ text' # "garbled"
  BY DEF Clean, Write
<1>2. pc[p] = "write" /\ pc'[p] # "write" /\ \A q \in Procs : q # p => pc'[q] = pc[q]
  BY DEF Write, Goto, End, PlaceInv, TypeOK
<1>3. ASSUME NEW q \in Writing, q # p PROVE FALSE
  <2>1. q \in Writing' /\ q \in stale'
    BY <1>2, <1>3 DEF Writing, Write
  <2> QED
    BY <2>1 DEF Clean
<1>4. Writing = {p} /\ Writing' = {}
  BY <1>2, <1>3 DEF Writing
<1> QED
  BY <1>1, <1>4 DEF Clean

LEMMA WriteFile ==
    ASSUME PlaceInv, FileInv, NEW p \in Procs, Write(p)
    PROVE  FileInv'
<1> SUFFICES ASSUME Clean'
             PROVE  /\ Writing' = {} /\ text' = "whole" /\ file' = asked'
                    /\ \A q \in Procs : WritesRight(q)'
  BY DEF FileInv
<1>1. /\ Clean /\ Writing = {p} /\ p \notin stale /\ Writing' = {} /\ text' # "garbled"
  BY WriteClean
<1>2. text' = "whole" /\ file' = buf[p] /\ asked' = Asked(p, asked)
  BY <1>1 DEF Write
<1>3. buf[p] = Asked(p, asked)
  BY <1>1 DEF FileInv, WritesRight, Writing
<1>4. ASSUME NEW q \in Procs PROVE WritesRight(q)'
  <2>1. CASE q # p
    BY <2>1 DEF Write, WritesRight
  <2>2. CASE q = p
    <3>1. pc'[p] \in {"signin", "done"}
      BY DEF Write, Goto, End, PlaceInv, TypeOK
    <3> QED
      BY <2>2, <3>1 DEF WritesRight
  <2> QED
    BY <2>1, <2>2
<1> QED
  BY <1>1, <1>2, <1>3, <1>4

LEMMA FileStep ==
    ASSUME PlaceInv, FileInv, [Next]_vars
    PROVE  FileInv'
<1>1. ASSUME NEW p \in Procs, Start(p) PROVE FileInv'
  <2>1. pc'[p] \notin {"open", "write"} /\ (pc'[p] = "read" => cmd'[p].op # "login")
    BY <1>1, StartFacts, CommandFacts DEF Start, Goto, PlaceInv, TypeOK
  <2>2. WritesRight(p)'
    BY <2>1 DEF WritesRight
  <2> QED
    BY <1>1, <2>2, QuietSteps, QuietFile
<1>2. ASSUME NEW p \in Procs, Load(p) PROVE FileInv'
  <2>1. Quiet(p)
    BY <1>2, QuietSteps
  <2>2. pc'[p] = "read" /\ cfg'[p] = Loaded(file, cmd[p].name) /\ UNCHANGED <<cmd, asked>>
    BY <1>2 DEF Load, Goto, PlaceInv, TypeOK
  <2>3. ASSUME Clean' PROVE WritesRight(p)'
    <3>1. Clean /\ Writing' = Writing
      BY <2>1, <2>3, QuietClean
    <3>2. Writing = {} => file = asked
      BY <3>1 DEF FileInv
    <3> QED
      BY <2>2, <3>1, <3>2 DEF WritesRight
  <2> QED
    BY <2>1, <2>3, QuietFile
<1>3. ASSUME NEW p \in Procs,
             Show(p) \/ Check(p) \/ Prompt(p) \/ Clear(p) \/ SignIn(p) \/ (Crash(p) /\ pc[p] # "write")
      PROVE  FileInv'
  <2>1. pc'[p] \notin {"open", "write"} /\ (pc'[p] = "read" => cmd'[p].op # "login")
    BY <1>3 DEF Show, Check, Prompt, Clear, SignIn, Crash, Goto, End, PlaceInv, TypeOK, Placed
  <2>2. WritesRight(p)'
    BY <2>1 DEF WritesRight
  <2> QED
    BY <1>3, <2>2, QuietSteps, QuietFile
<1>4. ASSUME NEW p \in Procs, Crash(p), pc[p] = "write" PROVE FileInv'
  <2>1. "crash" \in harm'
    BY <1>4 DEF Crash
  <2> QED
    BY <2>1 DEF FileInv, Clean
<1>5. CASE UNCHANGED vars
  <2>1. \A q : Asked(q, asked)' = Asked(q, asked)
    BY <1>5, AskedSame DEF vars
  <2> QED
    BY <1>5, <2>1 DEF vars, FileInv, Clean, Writing, WritesRight
<1> QED
  BY <1>1, <1>2, <1>3, <1>4, <1>5, ReadFile, OpenFile, WriteFile DEF Next, Step, Terminating

-----------------------------------------------------------------------------
(***************************************************************************)
(* Those that have made sure of their profile, and a current profile that  *)
(* is not there.                                                           *)
(***************************************************************************)
Relies(p) ==
    pc[p] = "signin" \/ (pc[p] \in Editing /\ (cmd[p].op = "use" \/ second[p] = TRUE))

ReliedInv(p) ==
    /\ Relies(p) => relied[p] \in {"yes", "gone"}
    /\ Clean /\ relied[p] = "yes" /\ pc[p] # "done" => cmd[p].name \in DOMAIN asked.profiles

\* A process that lost its profile before it made it current.
Raced(p) ==
    /\ cmd[p].op \in {"use", "create"} /\ cmd[p].name = asked.current
    /\ outcome[p] = "ok" /\ relied[p] = "gone"

DangleInv ==
    Clean /\ Dangling(asked) => asked.current = Default \/ \E p \in Procs : Raced(p)

ReliedAll == \A p \in Procs : ReliedInv(p)

LEMMA QuietRelied ==
    ASSUME PlaceInv, NEW p \in Procs, Quiet(p), ReliedAll, DangleInv, outcome[p] # "ok",
           Relies(p)' => relied'[p] \in {"yes", "gone"},
           Clean' /\ relied'[p] = "yes" /\ pc'[p] # "done"
             => cmd'[p].name \in DOMAIN asked.profiles
    PROVE  ReliedAll' /\ DangleInv'
<1>1. asked' = asked /\ (Clean' => Clean)
  BY QuietClean DEF Quiet
<1>2. ASSUME NEW q \in Procs, q # p PROVE ReliedInv(q)'
  <2>1. /\ pc'[q] = pc[q] /\ cmd'[q] = cmd[q] /\ second'[q] = second[q]
        /\ outcome'[q] = outcome[q] /\ relied'[q] = relied[q]
    BY <1>2 DEF Quiet
  <2> QED
    BY <1>1, <2>1 DEF ReliedAll, ReliedInv, Relies
<1>3. ReliedInv(p)'
  BY <1>1 DEF ReliedInv
<1>4. ReliedAll'
  BY <1>2, <1>3 DEF ReliedAll
<1>5. ASSUME Clean', Dangling(asked)', asked'.current # Default
      PROVE  \E q \in Procs : Raced(q)'
  <2>1. PICK q \in Procs : Raced(q)
    BY <1>1, <1>5 DEF DangleInv, Dangling
  <2>2. q # p
    BY <2>1 DEF Raced
  <2>3. cmd'[q] = cmd[q] /\ outcome'[q] = outcome[q] /\ relied'[q] = relied[q]
    BY <2>2 DEF Quiet
  <2> QED
    BY <1>1, <2>1, <2>3 DEF Raced
<1> QED
  BY <1>4, <1>5 DEF DangleInv

LEMMA WriteRelied ==
    ASSUME PlaceInv, FileInv, NEW p \in Procs, Write(p), ReliedAll
    PROVE  ReliedAll'
<1> SUFFICES ASSUME NEW q \in Procs PROVE ReliedInv(q)'
  BY DEF ReliedAll
<1>1. UNCHANGED <<cmd, second>> /\ asked' = Asked(p, asked) /\ pc[p] = "write"
  BY DEF Write
<1>2. /\ \A r \in Procs : r # p => pc'[r] = pc[r]
      /\ pc'[p] = (IF cmd[p].op = "create" /\ second[p] = FALSE THEN "signin" ELSE "done")
  BY DEF Write, Goto, End, PlaceInv, TypeOK
<1>3. relied'[q] = IF q = p /\ cmd[p].op = "create" /\ second[p] = FALSE THEN "yes"
                   ELSE IF cmd[p].op = "delete" /\ cmd[q].name = cmd[p].name
                           /\ relied[q] = "yes" /\ pc[q] # "done" THEN "gone"
                   ELSE relied[q]
  BY DEF Write, PlaceInv, TypeOK
<1>4. Relies(q)' => relied'[q] \in {"yes", "gone"}
  <2>1. CASE q = p
    BY <1>1, <1>2, <1>3, <2>1 DEF Relies, Editing
  <2>2. CASE q # p
    BY <1>1, <1>2, <1>3, <2>2 DEF Relies, ReliedAll, ReliedInv
  <2> QED
    BY <2>1, <2>2
<1>5. ASSUME Clean', relied'[q] = "yes", pc'[q] # "done"
      PROVE  cmd'[q].name \in DOMAIN asked'.profiles
  <2>1. DOMAIN asked'.profiles = AskedNames(p, asked)
    BY <1>1, AskedFacts
  <2>2. CASE q = p
    <3>1. cmd[p].op = "create" /\ second[p] = FALSE
      BY <1>2, <1>5, <2>2
    <3> QED
      BY <1>1, <2>1, <2>2, <3>1 DEF AskedNames, Switches
  <2>3. CASE q # p
    <3>1. relied[q] = "yes" /\ pc[q] # "done"
          /\ ~(cmd[p].op = "delete" /\ cmd[q].name = cmd[p].name)
      BY <1>2, <1>3, <1>5, <2>3
    <3>2. cmd[q].name \in DOMAIN asked.profiles
      BY <1>5, <3>1, WriteClean DEF ReliedAll, ReliedInv
    <3> QED
      BY <1>1, <2>1, <3>1, <3>2 DEF AskedNames
  <2> QED
    BY <2>2, <2>3
<1> QED
  BY <1>4, <1>5 DEF ReliedInv

LEMMA WriteDangles ==
    ASSUME PlaceInv, FileInv, NEW p \in Procs, Write(p), ReliedAll, DangleInv
    PROVE  DangleInv'
<1> SUFFICES ASSUME Clean', Dangling(asked)', asked'.current # Default
             PROVE  \E q \in Procs : Raced(q)'
  BY DEF DangleInv
<1>1. /\ UNCHANGED <<cmd, second>> /\ pc[p] = "write" /\ Clean
      /\ asked \in Root /\ asked' = Asked(p, asked) /\ second[p] \in BOOLEAN
  BY WriteClean DEF Write, PlaceInv, TypeOK
<1>2. /\ asked'.current = AskedCurrent(p, asked)
      /\ DOMAIN asked'.profiles = AskedNames(p, asked)
      /\ asked'.current # Unset /\ asked'.current \notin DOMAIN asked'.profiles
  BY <1>1, AskedFacts DEF Dangling
<1>3. CASE Switches(p)
  <2>1. asked'.current = cmd[p].name /\ cmd[p].name \notin DOMAIN asked.profiles
    BY <1>2, <1>3 DEF AskedCurrent, AskedNames
  <2>2. cmd[p].op \in {"use", "create"} /\ (cmd[p].op = "use" \/ second[p] = TRUE)
    BY <1>1, <1>3 DEF Switches, PlaceInv, Placed
  <2>3. relied[p] = "gone"
    BY <1>1, <2>1, <2>2 DEF ReliedAll, ReliedInv, Relies, Editing
  <2>4. relied'[p] = "gone"
    BY <2>2, <2>3 DEF Write, PlaceInv, TypeOK
  <2>5. outcome'[p] = "ok"
    <3>1. ~(cmd[p].op = "create" /\ ~second[p])
      BY <1>1, <2>2
    <3> QED
      BY <3>1 DEF Write, End, PlaceInv, TypeOK
  <2> QED
    BY <1>1, <2>1, <2>2, <2>4, <2>5 DEF Raced
<1>4. CASE ~Switches(p)
  <2>1. /\ asked'.current = asked.current
        /\ asked.current # Unset /\ asked.current \notin DOMAIN asked.profiles
    <3>1. CASE cmd[p].op # "delete"
      BY <1>2, <1>4, <3>1 DEF AskedCurrent, AskedNames
    <3>2. CASE cmd[p].op = "delete"
      BY <1>2, <1>4, <3>2 DEF AskedCurrent, AskedNames
    <3> QED
      BY <3>1, <3>2
  <2>2. PICK q \in Procs : Raced(q)
    BY <1>1, <2>1 DEF DangleInv, Dangling
  <2>3. pc[q] = "done"
    BY <2>2 DEF Raced, PlaceInv, Placed
  <2>4. q # p
    BY <1>1, <2>3
  <2>5. outcome'[q] = outcome[q] /\ relied'[q] = "gone"
    BY <2>2, <2>4 DEF Raced, Write, Goto, End, PlaceInv, TypeOK
  <2> QED
    BY <1>1, <2>1, <2>2, <2>5 DEF Raced
<1> QED
  BY <1>3, <1>4

LEMMA ReliedStep ==
    ASSUME PlaceInv, FileInv, ReliedAll, DangleInv, [Next]_vars
    PROVE  ReliedAll' /\ DangleInv'
<1>1. ASSUME NEW p \in Procs, pc[p] # "done" PROVE outcome[p] # "ok"
  BY <1>1 DEF PlaceInv, Placed
<1>2. ASSUME NEW p \in Procs, Start(p) PROVE ReliedAll' /\ DangleInv'
  <2>1. pc[p] = "start" /\ relied[p] = "no" /\ relied' = relied /\ second' = second
    BY <1>2 DEF Start, PlaceInv, Placed
  <2>2. pc'[p] # "signin" /\ (pc'[p] \in Editing => cmd'[p].op \in {"init", "set"})
    BY <1>2, StartFacts, CommandFacts DEF Start, Goto, Editing, PlaceInv, TypeOK
  <2>3. second[p] = TRUE => cmd'[p].op = "create"
    BY <1>2, StartFacts DEF PlaceInv, Placed
  <2>4. ~Relies(p)'
    BY <2>1, <2>2, <2>3 DEF Relies
  <2> QED
    BY <1>1, <1>2, <2>1, <2>4, QuietSteps, QuietRelied
<1>3. ASSUME NEW p \in Procs, Load(p) \/ Show(p) \/ (Crash(p) /\ pc[p] # "write")
      PROVE  ReliedAll' /\ DangleInv'
  <2>1. relied' = relied /\ second' = second /\ cmd' = cmd /\ pc[p] # "done"
    BY <1>3 DEF Load, Show, Crash
  <2>2. pc'[p] \notin {"signin", "open", "write"}
        /\ (pc'[p] = "read" => cmd[p].op = "login")
    BY <1>3 DEF Load, Show, Crash, Goto, End, PlaceInv, TypeOK, Placed
  <2>3. second[p] = TRUE => cmd[p].op = "create"
    BY DEF PlaceInv, Placed
  <2>4. ~Relies(p)'
    BY <2>1, <2>2, <2>3 DEF Relies, Editing
  <2>5. Clean' => Clean
    BY <1>3, QuietSteps, QuietClean
  <2> QED
    BY <1>1, <1>3, <2>1, <2>4, <2>5, QuietSteps, QuietRelied DEF ReliedAll, ReliedInv
<1>4. ASSUME NEW p \in Procs, Check(p) PROVE ReliedAll' /\ DangleInv'
  <2>1. second' = second /\ cmd' = cmd /\ pc[p] = "check"
    BY <1>4 DEF Check
  <2>2. /\ relied'[p] = (IF cmd[p].op = "use" /\ cmd[p].name \in DOMAIN file.profiles
                         THEN "yes" ELSE "no")
        /\ pc'[p] \notin {"signin", "open", "write"}
        /\ pc'[p] = "read" => cmd[p].op = "use" /\ cmd[p].name \in DOMAIN file.profiles
    BY <1>4 DEF Check, ListProfiles, Goto, End, PlaceInv, TypeOK, Placed
  <2>3. Relies(p)' => relied'[p] \in {"yes", "gone"}
    BY <2>1, <2>2 DEF Relies, Editing
  <2>4. ASSUME Clean', relied'[p] = "yes" PROVE cmd'[p].name \in DOMAIN asked.profiles
    <3>1. Clean
      BY <1>4, <2>4, QuietSteps, QuietClean
    <3>2. text = "whole"
      BY <2>2, <2>4, EmptyFacts DEF PlaceInv, BlankIsEmpty
    <3>3. file = asked
      BY <3>1, <3>2 DEF FileInv
    <3> QED
      BY <2>1, <2>2, <2>4, <3>3
  <2> QED
    BY <1>1, <1>4, <2>1, <2>3, <2>4, QuietSteps, QuietRelied
<1>5. ASSUME NEW p \in Procs, Prompt(p) \/ Clear(p) \/ SignIn(p) \/ Read(p)
      PROVE  ReliedAll' /\ DangleInv'
  <2>1. relied' = relied /\ cmd' = cmd /\ pc[p] # "done"
    BY <1>5 DEF Prompt, Clear, SignIn, Read, history
  <2>2. Relies(p)' => Relies(p)
    BY <1>5 DEF Prompt, Clear, SignIn, Read, Goto, End, Relies, Editing, PlaceInv, TypeOK, Placed
  <2>3. Clean' => Clean
    BY <1>5, QuietSteps, QuietClean
  <2> QED
    BY <1>1, <1>5, <2>1, <2>2, <2>3, QuietSteps, QuietRelied DEF ReliedAll, ReliedInv
<1>6. ASSUME NEW p \in Procs, Open(p) PROVE ReliedAll' /\ DangleInv'
  <2>1. UNCHANGED <<cmd, second, outcome, asked, stale, harm, relied>>
    BY <1>6 DEF Open, history
  <2>2. /\ pc[p] = "open" /\ pc'[p] = "write"
        /\ \A q \in Procs : q # p => pc'[q] = pc[q]
    BY <1>6 DEF Open, Goto, PlaceInv, TypeOK
  <2>3. Clean' => Clean
    BY <2>1, <2>2 DEF Clean, Writing
  <2>4. ASSUME NEW q \in Procs PROVE ReliedInv(q)'
    BY <2>1, <2>2, <2>3 DEF ReliedAll, ReliedInv, Relies, Editing
  <2>5. DangleInv'
    BY <2>1, <2>3 DEF DangleInv, Dangling, Raced
  <2> QED
    BY <2>4, <2>5 DEF ReliedAll
<1>7. ASSUME NEW p \in Procs, Crash(p), pc[p] = "write" PROVE ReliedAll' /\ DangleInv'
  <2>1. "crash" \in harm' /\ UNCHANGED <<cmd, second, relied>>
    BY <1>7 DEF Crash
  <2>2. pc'[p] = "dead" /\ \A q \in Procs : q # p => pc'[q] = pc[q]
    BY <1>7 DEF Crash, Goto, PlaceInv, TypeOK
  <2>3. ASSUME NEW q \in Procs PROVE ReliedInv(q)'
    BY <2>1, <2>2 DEF Clean, ReliedAll, ReliedInv, Relies, Editing
  <2> QED
    BY <2>1, <2>3 DEF ReliedAll, DangleInv, Clean
<1>8. CASE UNCHANGED vars
  BY <1>8 DEF vars, ReliedAll, ReliedInv, Relies, DangleInv, Dangling, Raced, Clean, Writing
<1> QED
  BY <1>2, <1>3, <1>4, <1>5, <1>6, <1>7, <1>8, WriteRelied, WriteDangles
     DEF Next, Step, Terminating

-----------------------------------------------------------------------------
ProfileInv == PlaceInv /\ FileInv /\ ReliedAll /\ DangleInv

LEMMA InitProfile ==
    ASSUME OrderlyFiles, Init
    PROVE  ProfileInv
<1>1. PlaceInv
  BY InitPlaced
<1>2. FileInv /\ ReliedAll
  BY DEF Init, FileInv, WritesRight, Writing, ReliedAll, ReliedInv, Relies, Editing
<1>3. DangleInv
  BY DEF Init, OrderlyFiles, DangleInv
<1> QED
  BY <1>1, <1>2, <1>3 DEF ProfileInv

(***************************************************************************)
(* The inductive invariant.                                                *)
(***************************************************************************)
THEOREM ProfileInductive ==
    ASSUME OrderlyFiles
    PROVE  Spec => []ProfileInv
<1>1. ProfileInv /\ [Next]_vars => ProfileInv'
  BY PlaceStep, FileStep, ReliedStep DEF ProfileInv
<1> QED
  BY <1>1, InitProfile, PTL DEF Spec

(***************************************************************************)
(* Every variable keeps its type.                                          *)
(***************************************************************************)
THEOREM ProfileTyped ==
    ASSUME OrderlyFiles
    PROVE  Spec => []TypeOK
<1>1. ProfileInv => TypeOK
  BY DEF ProfileInv, PlaceInv
<1> QED
  BY <1>1, ProfileInductive, PTL

(***************************************************************************)
(* No edit of config.json is lost, by any number of commands, unless one   *)
(* writes from a view that another has outdated, reads a file that is      *)
(* being written, or dies writing it.                                      *)
(***************************************************************************)
THEOREM EditsAreKept ==
    ASSUME OrderlyFiles
    PROVE  Spec => []LostOnlyByOverlap
<1>1. ProfileInv => LostOnlyByOverlap
  BY DEF ProfileInv, FileInv, LostOnlyByOverlap, Clean
<1> QED
  BY <1>1, ProfileInductive, PTL

(***************************************************************************)
(* The current profile is there, is the default one, or was deleted after  *)
(* use or create had made sure of it.                                      *)
(***************************************************************************)
THEOREM CurrentIsThere ==
    ASSUME OrderlyFiles
    PROVE  Spec => []DanglesOnlyByRace
<1>1. ProfileInv => DanglesOnlyByRace
  BY DEF ProfileInv, FileInv, DangleInv, DanglesOnlyByRace, Clean, Raced
<1> QED
  BY <1>1, ProfileInductive, PTL
=============================================================================
