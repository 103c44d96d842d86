--------------------------- MODULE ExtensionRunProofs ---------------------------
(***************************************************************************)
(* Proofs about WrapperChain, for any number of wrappers, and about        *)
(* ExtensionRun, for any hooks and any number of wrappers: the process     *)
(* implements the wrapper chain, so what holds of every chain holds of it, *)
(* and the gates before the handler hold.                                  *)
(*                                                                         *)
(* In a chain a success is carried from the handler up through the         *)
(* trackers, and an activation of a layer keeps everything above it inside *)
(* next.  Both are stated over all pairs of layers, so that no induction   *)
(* on the chain is needed.                                                 *)
(***************************************************************************)
EXTENDS ExtensionRun, TLAPS

-----------------------------------------------------------------------------
(* The chain. *)

\* What a tracker knows of the layer below it.
Track(i) ==
    /\ ~called[i] => stage[i + 1] = "idle" /\ caller[i] = "nobody" /\ below[i] = "none"
    /\ caller[i] = "main" <=> stage[i] = "next"
    /\ called[i] /\ caller[i] = "nobody" => below[i] # "none"
    /\ below[i] # "none" => below[i] = result[i + 1]
    /\ stage[i] = "waiting" => callErr[i] # "none"

TrackInv == \A i \in Wrappers : Track(i)

\* Only a layer that is done has a result, and a success comes from the handler.
ResultInv ==
    /\ \A j \in Layers : result[j] # "none" => stage[j] = "done"
    /\ \A i, j \in Layers : i <= j /\ result[i] = "ok" => result[j] = "ok"

RunsInv == runs = IF stage[Handler] = "idle" THEN 0 ELSE 1

IInv == ChainTypeOK /\ TrackInv /\ ResultInv /\ RunsInv

\* Who is inside the next of a layer, and where a layer is that can still call it.
Caller(i) ==
    /\ stage[i] = "idle" => ~async[i] /\ caller[i] = "nobody"
    /\ stage[i] \in {"idle", "factory"} => ~closed[i]
    /\ stage[i] = "waiting" => closed[i]
    /\ stage[i] # "handler"
    /\ caller[i] = "async" => async[i]
    /\ caller[i] # "nobody" =>
          stage[i] \in {"factory", "wrapper", "next", "waiting"} \/ Escaped(i)

CallInv == \A i \in Wrappers : Caller(i)

\* Everything above an activation is inside next, up to a factory that got away.
AboveInv == \A i \in Wrappers, j \in Layers :
    i < j /\ stage[j] \in Active =>
        caller[i] # "nobody" \/ \E k \in Wrappers : i <= k /\ k < j /\ Escaped(k)

NestInv == CallInv /\ AboveInv

-----------------------------------------------------------------------------
LEMMA LayerFacts ==
    /\ Handler \in Layers /\ 1 \in Layers
    /\ \A i \in Wrappers : i \in Layers /\ i + 1 \in Layers /\ i # i + 1 /\ i # Handler
    /\ Layers \subseteq Int
    /\ \A j \in Layers : 1 <= j /\ j <= Handler
  BY WrapperChainAssumption DEF Handler, Layers, Wrappers

LEMMA BelowFacts ==
    /\ \A i \in Wrappers, j \in Layers :
          i < j => j = i + 1 \/ (i + 1 \in Wrappers /\ i + 1 < j)
    /\ \A i, k \in Wrappers : k < i + 1 => k = i \/ k < i
  BY WrapperChainAssumption DEF Handler, Layers, Wrappers

LEMMA TypeStep ==
    ASSUME IInv, ChainNext
    PROVE  ChainTypeOK'
  <1> USE LayerFacts DEF IInv, ChainTypeOK, Active, Results
  <1>1. ASSUME EnterTop PROVE ChainTypeOK'
    BY <1>1 DEF EnterTop, First, Started, trackerVars
  <1>2. ASSUME HandlerReturns PROVE ChainTypeOK'
    BY <1>2 DEF HandlerReturns, trackerVars
  <1>3. ASSUME NEW i \in Wrappers, FactoryFails(i) PROVE ChainTypeOK'
    BY <1>3 DEF FactoryFails, trackerVars
  <1>4. ASSUME NEW i \in Wrappers, FactoryReturns(i) PROVE ChainTypeOK'
    BY <1>4 DEF FactoryReturns, trackerVars
  <1>5. ASSUME NEW i \in Wrappers, NextReturns(i) PROVE ChainTypeOK'
    BY <1>5 DEF NextReturns
  <1>6. ASSUME NEW i \in Wrappers, WrapperReturns(i) PROVE ChainTypeOK'
    BY <1>6 DEF WrapperReturns
  <1>7. ASSUME NEW i \in Wrappers, Settle(i) PROVE ChainTypeOK'
    <2>1. Outcome(i) \in Results
      BY <1>7 DEF Settle, Outcome, TrackInv, Track
    <2>2. QED
      BY <1>7, <2>1 DEF Settle, trackerVars
  <1>8. ASSUME NEW i \in Wrappers, StartAsync(i) PROVE ChainTypeOK'
    BY <1>8 DEF StartAsync, trackerVars
  <1>9. ASSUME NEW i \in Wrappers, NextEnters(i) PROVE ChainTypeOK'
    BY <1>9 DEF NextEnters, First, Started, TrackInv, Track
  <1>10. ASSUME NEW i \in Wrappers, NextRejected(i) PROVE ChainTypeOK'
    BY <1>10 DEF NextRejected
  <1>11. QED
    BY <1>1, <1>2, <1>3, <1>4, <1>5, <1>6, <1>7, <1>8, <1>9, <1>10
       DEF ChainNext, ChainStep, Proceed, Calls

LEMMA NextEntersFacts ==
    ASSUME NEW i \in Wrappers, NextEnters(i)
    PROVE  \E who \in {"main", "async"} :
            /\ CallsNext(i, who) /\ ~closed[i] /\ ~called[i]
            /\ called' = [called EXCEPT ![i] = TRUE]
            /\ caller' = [caller EXCEPT ![i] = who]
            /\ stage' = [stage EXCEPT ![i] = IF who = "main" THEN "next" ELSE @,
                                      ![i + 1] = First(i + 1)]
            /\ UNCHANGED <<result, callErr, below, async, closed>>
  BY DEF NextEnters

LEMMA TrackNextEnters ==
    ASSUME IInv, NEW i \in Wrappers, NextEnters(i), NEW k \in Wrappers
    PROVE  Track(k)'
  <1>1. PICK who \in {"main", "async"} :
          /\ CallsNext(i, who) /\ ~called[i]
          /\ called' = [called EXCEPT ![i] = TRUE]
          /\ caller' = [caller EXCEPT ![i] = who]
          /\ stage' = [stage EXCEPT ![i] = IF who = "main" THEN "next" ELSE @,
                                    ![i + 1] = First(i + 1)]
          /\ UNCHANGED <<result, callErr, below>>
    BY NextEntersFacts
  <1>2. /\ stage \in [Layers -> Active \cup {"idle", "done"}]
        /\ called \in [Wrappers -> BOOLEAN]
        /\ caller \in [Wrappers -> {"nobody", "main", "async"}]
        /\ below \in [Wrappers -> Results \cup {"none"}]
        /\ result \in [Layers -> Results \cup {"none"}]
    BY DEF IInv, ChainTypeOK
  <1>3. Track(i) /\ Track(k)
    BY DEF IInv, TrackInv
  <1>4. {i, k, i + 1, k + 1} \subseteq Layers /\ i \in Int /\ k \in Int
    BY LayerFacts
  <1>5. stage[i + 1] = "idle" /\ below[i] = "none" /\ stage[i] # "next"
    BY <1>1, <1>3 DEF Track
  <1>6. stage'[i + 1] \in {"handler", "factory"}
    BY <1>1, <1>2, <1>4 DEF First
  <1>7. stage'[i] = IF who = "main" THEN "next" ELSE stage[i]
    BY <1>1, <1>2, <1>4
  <1>8. who = "main" => stage[i] = "wrapper"
    BY <1>1 DEF CallsNext
  <1>9. called'[i] /\ caller'[i] = who
    BY <1>1, <1>2
  <1>10. below'[k] = below[k] /\ result'[k + 1] = result[k + 1] /\ callErr'[k] = callErr[k]
    BY <1>1
  <1>11. CASE k = i
    BY <1>3, <1>5, <1>6, <1>7, <1>8, <1>9, <1>10, <1>11 DEF Track
  <1>12. CASE k # i
    <2>1. called'[k] = called[k] /\ caller'[k] = caller[k]
      BY <1>1, <1>2, <1>12
    <2>2. \/ stage'[k + 1] = stage[k + 1]
          \/ k + 1 = i /\ stage[i] = "wrapper"
      BY <1>1, <1>2, <1>4, <1>7, <1>8, <1>12
    <2>3. \/ stage'[k] = stage[k]
          \/ stage[k] = "idle" /\ stage'[k] \in {"handler", "factory"}
      BY <1>1, <1>2, <1>4, <1>5, <1>6, <1>12
    <2>4. QED
      BY <2>1, <2>2, <2>3, <1>3, <1>10 DEF Track
  <1>13. QED
    BY <1>11, <1>12

LEMMA TrackNextReturns ==
    ASSUME IInv, NEW i \in Wrappers, NextReturns(i), NEW k \in Wrappers
    PROVE  Track(k)'
  <1>1. /\ caller[i] # "nobody" /\ stage[i + 1] = "done"
        /\ below' = [below EXCEPT ![i] = result[i + 1]]
        /\ caller' = [caller EXCEPT ![i] = "nobody"]
        /\ stage' = [stage EXCEPT ![i] = IF caller[i] = "main" THEN "wrapper" ELSE @]
        /\ UNCHANGED <<result, callErr, called>>
    BY DEF NextReturns
  <1>2. /\ stage \in [Layers -> Active \cup {"idle", "done"}]
        /\ called \in [Wrappers -> BOOLEAN]
        /\ caller \in [Wrappers -> {"nobody", "main", "async"}]
        /\ below \in [Wrappers -> Results \cup {"none"}]
        /\ result \in [Layers -> Results \cup {"none"}]
    BY DEF IInv, ChainTypeOK
  <1>3. Track(i) /\ Track(k)
    BY DEF IInv, TrackInv
  <1>4. {i, k, i + 1, k + 1} \subseteq Layers /\ i \in Int /\ k \in Int
    BY LayerFacts
  <1>5. result[i + 1] # "none"
    BY <1>1, <1>4 DEF IInv, ChainTypeOK
  <1>6. stage'[i] = IF caller[i] = "main" THEN "wrapper" ELSE stage[i]
    BY <1>1, <1>2, <1>4
  <1>7. stage'[k + 1] = stage[k + 1] \/ (k + 1 = i /\ stage[i] = "next")
    BY <1>1, <1>2, <1>3, <1>4, <1>6 DEF Track
  <1>8. CASE k = i
    <2>1. below'[i] = result[i + 1] /\ caller'[i] = "nobody" /\ called'[i] = called[i]
      BY <1>1, <1>2
    <2>2. stage'[i] # "next" /\ (stage'[i] = "waiting" => stage[i] = "waiting")
      BY <1>3, <1>6 DEF Track
    <2>3. QED
      BY <1>1, <1>3, <1>5, <1>8, <2>1, <2>2 DEF Track
  <1>9. CASE k # i
    <2>1. /\ called'[k] = called[k] /\ caller'[k] = caller[k] /\ below'[k] = below[k]
          /\ stage'[k] = stage[k]
      BY <1>1, <1>2, <1>4, <1>9
    <2>2. QED
      BY <1>1, <1>3, <1>7, <2>1 DEF Track
  <1>10. QED
    BY <1>8, <1>9

\* A layer that has not ended ends, with whatever result.
LEMMA TrackDone ==
    ASSUME IInv, NEW i \in Wrappers, NEW k \in Wrappers,
           stage[i] \in {"factory", "waiting"},
           stage' = [stage EXCEPT ![i] = "done"],
           \E r : result' = [result EXCEPT ![i] = r],
           UNCHANGED <<callErr, called, caller, below>>
    PROVE  Track(k)'
  <1>2. /\ stage \in [Layers -> Active \cup {"idle", "done"}]
        /\ result \in [Layers -> Results \cup {"none"}]
    BY DEF IInv, ChainTypeOK
  <1>3. Track(i) /\ Track(k)
    BY DEF IInv, TrackInv
  <1>4. {i, k, i + 1, k + 1} \subseteq Layers /\ i \in Int /\ k \in Int
    BY LayerFacts
  <1>5. result[i] = "none"
    BY <1>4 DEF IInv, ResultInv
  <1>6. k + 1 = i => called[k] /\ below[k] = "none"
    BY <1>3, <1>5 DEF Track
  <1>7. k + 1 # i => stage'[k + 1] = stage[k + 1] /\ result'[k + 1] = result[k + 1]
    BY <1>2, <1>4
  <1>8. stage'[k] = stage[k] \/ (k = i /\ stage'[k] = "done")
    BY <1>2, <1>4
  <1>9. QED
    BY <1>3, <1>6, <1>7, <1>8 DEF Track

\* The code of a layer goes on, without an end and without a call of next.
LEMMA TrackMove ==
    ASSUME IInv, NEW i \in Wrappers, NEW k \in Wrappers,
           NEW s \in {"wrapper", "waiting"},
           stage[i] \in {"factory", "wrapper"},
           stage' = [stage EXCEPT ![i] = s],
           s = "waiting" => callErr'[i] # "none",
           \A j \in Wrappers : j # i => callErr'[j] = callErr[j],
           UNCHANGED <<result, called, caller, below>>
    PROVE  Track(k)'
  <1>1. stage \in [Layers -> Active \cup {"idle", "done"}]
    BY DEF IInv, ChainTypeOK
  <1>2. Track(i) /\ Track(k)
    BY DEF IInv, TrackInv
  <1>3. {i, k, i + 1, k + 1} \subseteq Layers /\ i \in Int /\ k \in Int
    BY LayerFacts
  <1>4. k + 1 = i => called[k]
    BY <1>2 DEF Track
  <1>5. k + 1 # i => stage'[k + 1] = stage[k + 1]
    BY <1>1, <1>3
  <1>6. IF k = i THEN stage'[k] = s ELSE stage'[k] = stage[k]
    BY <1>1, <1>3
  <1>7. QED
    BY <1>2, <1>4, <1>5, <1>6 DEF Track

LEMMA TrackStep ==
    ASSUME IInv, ChainNext
    PROVE  TrackInv'
  <1> SUFFICES ASSUME NEW k \in Wrappers PROVE Track(k)'
    BY DEF TrackInv
  <1>t. /\ stage \in [Layers -> Active \cup {"idle", "done"}]
        /\ result \in [Layers -> Results \cup {"none"}]
        /\ callErr \in [Wrappers -> Results \cup {"none"}]
    BY DEF IInv, ChainTypeOK
  <1>k. Track(k) /\ k \in Layers /\ k + 1 \in Layers /\ k # Handler /\ k + 1 # 1
    BY LayerFacts, WrapperChainAssumption DEF IInv, TrackInv, Wrappers
  <1>1. ASSUME EnterTop PROVE Track(k)'
    <2>1. /\ stage[1] = "idle"
          /\ stage' = [stage EXCEPT ![1] = First(1)]
          /\ UNCHANGED <<result, callErr, called, caller, below>>
      BY <1>1 DEF EnterTop, trackerVars
    <2>2. First(1) \in {"handler", "factory"}
      BY DEF First
    <2>3. stage'[k + 1] = stage[k + 1]
      BY <1>t, <1>k, <2>1
    <2>4. CASE k = 1
      <3>1. stage'[k] \in {"handler", "factory"}
        BY <1>t, <1>k, <2>1, <2>2, <2>4
      <3>2. QED
        BY <1>k, <2>1, <2>3, <2>4, <3>1 DEF Track
    <2>5. CASE k # 1
      <3>1. stage'[k] = stage[k]
        BY <1>t, <1>k, <2>1, <2>5
      <3>2. QED
        BY <1>k, <2>1, <2>3, <3>1 DEF Track
    <2>6. QED
      BY <2>4, <2>5
  <1>2. ASSUME HandlerReturns PROVE Track(k)'
    <2>1. /\ stage[Handler] = "handler"
          /\ stage' = [stage EXCEPT ![Handler] = "done"]
          /\ UNCHANGED <<callErr, called, caller, below>>
      BY <1>2 DEF HandlerReturns, trackerVars
    <2>2. PICK r : result' = [result EXCEPT ![Handler] = r]
      BY <1>2 DEF HandlerReturns
    <2>3. stage'[k] = stage[k]
      BY <1>t, <1>k, <2>1
    <2>4. CASE k + 1 = Handler
      <3>1. result[k + 1] = "none"
        BY <1>k, <2>1, <2>4 DEF IInv, ResultInv
      <3>2. called[k] /\ below[k] = "none"
        BY <1>k, <2>1, <2>4, <3>1 DEF Track
      <3>3. QED
        BY <1>k, <2>1, <2>3, <3>2 DEF Track
    <2>5. CASE k + 1 # Handler
      <3>1. stage'[k + 1] = stage[k + 1] /\ result'[k + 1] = result[k + 1]
        BY <1>t, <1>k, <2>1, <2>2, <2>5
      <3>2. QED
        BY <1>k, <2>1, <2>3, <3>1 DEF Track
    <2>6. QED
      BY <2>4, <2>5
  <1>3. ASSUME NEW i \in Wrappers, FactoryFails(i) PROVE Track(k)'
    <2>1. /\ stage[i] \in {"factory", "waiting"}
          /\ stage' = [stage EXCEPT ![i] = "done"]
          /\ \E r : result' = [result EXCEPT ![i] = r]
          /\ UNCHANGED <<callErr, called, caller, below>>
      BY <1>3 DEF FactoryFails, trackerVars
    <2>2. QED
      BY <2>1, TrackDone
  <1>4. ASSUME NEW i \in Wrappers, FactoryReturns(i) PROVE Track(k)'
    <2>1. /\ stage[i] = "factory"
          /\ stage' = [stage EXCEPT ![i] = "wrapper"]
          /\ UNCHANGED <<result, callErr, called, caller, below>>
      BY <1>4 DEF FactoryReturns, trackerVars
    <2>2. QED
      BY <2>1, TrackMove
  <1>5. ASSUME NEW i \in Wrappers, NextReturns(i) PROVE Track(k)'
    BY <1>5, TrackNextReturns
  <1>6. ASSUME NEW i \in Wrappers, WrapperReturns(i) PROVE Track(k)'
    <2>1. /\ stage[i] = "wrapper"
          /\ stage' = [stage EXCEPT ![i] = "waiting"]
          /\ UNCHANGED <<result, called, caller, below>>
      BY <1>6 DEF WrapperReturns
    <2>2. PICK err : err # "none" /\ callErr' = [callErr EXCEPT ![i] = err]
      BY <1>6 DEF WrapperReturns
    <2>3. callErr'[i] # "none" /\ \A j \in Wrappers : j # i => callErr'[j] = callErr[j]
      BY <1>t, <2>2
    <2>4. QED
      BY <2>1, <2>3, TrackMove
  <1>7. ASSUME NEW i \in Wrappers, Settle(i) PROVE Track(k)'
    <2>1. /\ stage[i] \in {"factory", "waiting"}
          /\ stage' = [stage EXCEPT ![i] = "done"]
          /\ \E r : result' = [result EXCEPT ![i] = r]
          /\ UNCHANGED <<callErr, called, caller, below>>
      BY <1>7 DEF Settle, trackerVars
    <2>2. QED
      BY <2>1, TrackDone
  <1>8. ASSUME NEW i \in Wrappers, StartAsync(i) PROVE Track(k)'
    <2>1. UNCHANGED <<stage, result, callErr, called, caller, below>>
      BY <1>8 DEF StartAsync, trackerVars
    <2>2. QED
      BY <1>k, <2>1 DEF Track
  <1>9. ASSUME NEW i \in Wrappers, NextEnters(i) PROVE Track(k)'
    BY <1>9, TrackNextEnters
  <1>10. ASSUME NEW i \in Wrappers, NextRejected(i) PROVE Track(k)'
    <2>1. UNCHANGED <<stage, result, callErr, called, caller, below>>
      BY <1>10 DEF NextRejected
    <2>2. QED
      BY <1>k, <2>1 DEF Track
  <1>11. QED
    BY <1>1, <1>2, <1>3, <1>4, <1>5, <1>6, <1>7, <1>8, <1>9, <1>10
       DEF ChainNext, ChainStep, Proceed, Calls

LEMMA ResultStep ==
    ASSUME IInv, ChainNext
    PROVE  ResultInv'
  <1> USE LayerFacts DEF IInv, ChainTypeOK, TrackInv, Track, ResultInv, Active, Results
  <1>1. ASSUME EnterTop PROVE ResultInv'
    BY <1>1 DEF EnterTop, First, Started, trackerVars
  <1>2. ASSUME HandlerReturns PROVE ResultInv'
    BY <1>2 DEF HandlerReturns, trackerVars
  <1>3. ASSUME NEW i \in Wrappers, FactoryFails(i) PROVE ResultInv'
    BY <1>3 DEF FactoryFails, trackerVars
  <1>4. ASSUME NEW i \in Wrappers, FactoryReturns(i) PROVE ResultInv'
    BY <1>4 DEF FactoryReturns, trackerVars
  <1>5. ASSUME NEW i \in Wrappers, NextReturns(i) PROVE ResultInv'
    BY <1>5 DEF NextReturns
  <1>6. ASSUME NEW i \in Wrappers, WrapperReturns(i) PROVE ResultInv'
    BY <1>6 DEF WrapperReturns
  <1>7. ASSUME NEW i \in Wrappers, Settle(i) PROVE ResultInv'
    BY <1>7 DEF Settle, trackerVars, Outcome
  <1>8. ASSUME NEW i \in Wrappers, StartAsync(i) PROVE ResultInv'
    BY <1>8 DEF StartAsync, trackerVars
  <1>9. ASSUME NEW i \in Wrappers, NextEnters(i) PROVE ResultInv'
    BY <1>9 DEF NextEnters, First, Started, CallsNext
  <1>10. ASSUME NEW i \in Wrappers, NextRejected(i) PROVE ResultInv'
    BY <1>10 DEF NextRejected
  <1>11. QED
    BY <1>1, <1>2, <1>3, <1>4, <1>5, <1>6, <1>7, <1>8, <1>9, <1>10
       DEF ChainNext, ChainStep, Proceed, Calls

LEMMA RunsStep ==
    ASSUME IInv, ChainNext
    PROVE  RunsInv'
  <1> USE LayerFacts DEF IInv, ChainTypeOK, TrackInv, Track, RunsInv, Active, Results
  <1>1. ASSUME EnterTop PROVE RunsInv'
    BY <1>1 DEF EnterTop, First, Started, trackerVars
  <1>2. ASSUME HandlerReturns PROVE RunsInv'
    BY <1>2 DEF HandlerReturns, trackerVars
  <1>3. ASSUME NEW i \in Wrappers, FactoryFails(i) PROVE RunsInv'
    BY <1>3 DEF FactoryFails, trackerVars
  <1>4. ASSUME NEW i \in Wrappers, FactoryReturns(i) PROVE RunsInv'
    BY <1>4 DEF FactoryReturns, trackerVars
  <1>5. ASSUME NEW i \in Wrappers, NextReturns(i) PROVE RunsInv'
    BY <1>5 DEF NextReturns
  <1>6. ASSUME NEW i \in Wrappers, WrapperReturns(i) PROVE RunsInv'
    BY <1>6 DEF WrapperReturns
  <1>7. ASSUME NEW i \in Wrappers, Settle(i) PROVE RunsInv'
    BY <1>7 DEF Settle, trackerVars, Outcome
  <1>8. ASSUME NEW i \in Wrappers, StartAsync(i) PROVE RunsInv'
    BY <1>8 DEF StartAsync, trackerVars
  <1>9. ASSUME NEW i \in Wrappers, NextEnters(i) PROVE RunsInv'
    BY <1>9 DEF NextEnters, First, Started, CallsNext
  <1>10. ASSUME NEW i \in Wrappers, NextRejected(i) PROVE RunsInv'
    BY <1>10 DEF NextRejected
  <1>11. QED
    BY <1>1, <1>2, <1>3, <1>4, <1>5, <1>6, <1>7, <1>8, <1>9, <1>10
       DEF ChainNext, ChainStep, Proceed, Calls

\* A tracker that was left open stays open.
LEMMA EscapedStays ==
    ASSUME IInv, ChainNext, NEW k \in Wrappers, Escaped(k)
    PROVE  Escaped(k)'
  <1> USE LayerFacts DEF IInv, ChainTypeOK, TrackInv, Track, Active, Results, Escaped
  <1>1. CASE EnterTop
    BY <1>1 DEF EnterTop, trackerVars
  <1>2. CASE HandlerReturns
    BY <1>2 DEF HandlerReturns, trackerVars
  <1>3. ASSUME NEW i \in Wrappers, Proceed(i) PROVE Escaped(k)'
    <2>1. CASE FactoryFails(i) \/ FactoryReturns(i)
      <3>1. CASE FactoryFails(i)
        BY <3>1 DEF FactoryFails, trackerVars
      <3>2. CASE FactoryReturns(i)
        BY <3>2 DEF FactoryReturns, trackerVars
      <3> QED
        BY <2>1, <3>1, <3>2
    <2>2. CASE NextReturns(i)
      BY <2>2 DEF NextReturns
    <2>3. CASE WrapperReturns(i)
      BY <2>3 DEF WrapperReturns
    <2>4. CASE Settle(i)
      BY <2>4 DEF Settle, trackerVars
    <2>5. QED
      BY <1>3, <2>1, <2>2, <2>3, <2>4 DEF Proceed
  <1>4. ASSUME NEW i \in Wrappers, StartAsync(i) \/ NextRejected(i) PROVE Escaped(k)'
    BY <1>4 DEF StartAsync, NextRejected, trackerVars
  <1>5. ASSUME NEW i \in Wrappers, NextEnters(i) PROVE Escaped(k)'
    <2>1. PICK who \in {"main", "async"} :
            /\ CallsNext(i, who) /\ ~closed[i] /\ ~called[i]
            /\ caller' = [caller EXCEPT ![i] = who]
            /\ stage' = [stage EXCEPT ![i] = IF who = "main" THEN "next" ELSE @,
                                      ![i + 1] = First(i + 1)]
            /\ UNCHANGED <<async, closed>>
      BY <1>5, NextEntersFacts
    <2>2. k # i + 1 /\ (k = i => who # "main")
      BY <2>1 DEF CallsNext
    <2>3. stage'[k] = stage[k]
      BY <2>1, <2>2
    <2>4. QED
      BY <2>1, <2>3
  <1>6. QED
    BY <1>1, <1>2, <1>3, <1>4, <1>5 DEF ChainNext, ChainStep, Calls

LEMMA CallStep ==
    ASSUME IInv, CallInv, ChainNext
    PROVE  CallInv'
  <1> SUFFICES ASSUME NEW k \in Wrappers PROVE Caller(k)'
    BY DEF CallInv
  <1> USE LayerFacts DEF IInv, ChainTypeOK, TrackInv, Track, Active, Results, Escaped
  <1>0. Caller(k)
    BY DEF CallInv
  <1>1. CASE EnterTop
    BY <1>0, <1>1 DEF EnterTop, trackerVars, First, Caller
  <1>2. CASE HandlerReturns
    BY <1>0, <1>2 DEF HandlerReturns, trackerVars, Caller
  <1>3. ASSUME NEW i \in Wrappers, FactoryFails(i) PROVE Caller(k)'
    <2>1. CASE k = i
      <3>1. stage[k] = "factory" /\ stage'[k] = "done" /\ UNCHANGED <<async, closed, caller>>
        BY <1>3, <2>1 DEF FactoryFails, trackerVars
      <3>2. caller[k] # "main" /\ (caller[k] = "async" => async[k]) /\ ~closed[k]
        BY <1>0, <3>1 DEF Caller
      <3>3. caller[k] # "nobody" => Escaped(k)'
        BY <3>1, <3>2
      <3>4. QED
        BY <3>1, <3>2, <3>3 DEF Caller
    <2>2. CASE k # i
      BY <1>0, <1>3, <2>2 DEF FactoryFails, trackerVars, Caller
    <2>3. QED
      BY <2>1, <2>2
  <1>4. ASSUME NEW i \in Wrappers, FactoryReturns(i) PROVE Caller(k)'
    BY <1>0, <1>4 DEF FactoryReturns, trackerVars, Caller
  <1>5. ASSUME NEW i \in Wrappers, NextReturns(i) PROVE Caller(k)'
    BY <1>0, <1>5 DEF NextReturns, Caller
  <1>6. ASSUME NEW i \in Wrappers, WrapperReturns(i) PROVE Caller(k)'
    BY <1>0, <1>6 DEF WrapperReturns, Caller
  <1>7. ASSUME NEW i \in Wrappers, Settle(i) PROVE Caller(k)'
    BY <1>0, <1>7 DEF Settle, trackerVars, Caller
  <1>8. ASSUME NEW i \in Wrappers, StartAsync(i) \/ NextRejected(i) PROVE Caller(k)'
    BY <1>0, <1>8 DEF StartAsync, NextRejected, trackerVars, Caller
  <1>9. ASSUME NEW i \in Wrappers, NextEnters(i) PROVE Caller(k)'
    <2>1. PICK who \in {"main", "async"} :
            /\ CallsNext(i, who) /\ ~closed[i] /\ ~called[i]
            /\ caller' = [caller EXCEPT ![i] = who]
            /\ stage' = [stage EXCEPT ![i] = IF who = "main" THEN "next" ELSE @,
                                      ![i + 1] = First(i + 1)]
            /\ UNCHANGED <<async, closed>>
      BY <1>9, NextEntersFacts
    <2>2. stage[i + 1] = "idle" /\ stage'[i + 1] = First(i + 1)
      BY <2>1
    <2>3. CASE k = i + 1
      <3>1. stage'[k] = "factory" /\ k # i /\ caller'[k] = caller[k]
        BY <2>1, <2>2, <2>3 DEF First
      <3>2. QED
        BY <1>0, <2>1, <2>2, <2>3, <3>1 DEF Caller
    <2>4. CASE k = i /\ who = "main"
      <3>1. stage'[k] = "next" /\ caller'[k] = "main"
        BY <2>1, <2>4
      <3>2. QED
        BY <2>1, <3>1 DEF Caller
    <2>5. CASE k = i /\ who = "async"
      <3>1. stage'[k] = stage[k] /\ caller'[k] = "async" /\ async[k] /\ ~closed[k]
        BY <2>1, <2>5 DEF CallsNext
      <3>2. stage[k] \notin {"idle", "waiting", "handler"} /\ UNCHANGED <<async, closed>>
        BY <1>0, <2>1, <3>1 DEF Caller
      <3>3. k \in Layers /\ stage[k] \in Active \cup {"idle", "done"}
        OBVIOUS
      <3>4. stage'[k] \in {"factory", "wrapper", "next"} \/ Escaped(k)'
        BY <3>1, <3>2, <3>3
      <3>5. QED
        BY <3>1, <3>2, <3>4 DEF Caller
    <2>6. CASE k # i /\ k # i + 1
      BY <1>0, <2>1, <2>6 DEF Caller
    <2>7. QED
      BY <2>1, <2>3, <2>4, <2>5, <2>6
  <1>10. QED
    BY <1>1, <1>2, <1>3, <1>4, <1>5, <1>6, <1>7, <1>8, <1>9
       DEF ChainNext, ChainStep, Proceed, Calls

LEMMA AboveStep ==
    ASSUME IInv, CallInv, AboveInv, ChainNext
    PROVE  AboveInv'
  <1> SUFFICES ASSUME NEW i \in Wrappers, NEW j \in Layers, i < j, stage'[j] \in Active,
                      ~ \E k \in Wrappers : i <= k /\ k < j /\ Escaped(k)'
               PROVE  caller'[i] # "nobody"
    BY DEF AboveInv, Active
  <1> USE LayerFacts DEF IInv, ChainTypeOK, TrackInv, Track, Active, Results
  <1>0. \A k \in Wrappers : i <= k /\ k < j => ~Escaped(k)
    BY EscapedStays
  <1>a. stage[j] \in Active => caller[i] # "nobody"
    BY <1>0 DEF AboveInv
  <1>1. CASE EnterTop
    <2>1. j # 1
      BY DEF Wrappers, Layers
    <2>2. QED
      BY <1>1, <1>a, <2>1 DEF EnterTop, trackerVars
  <1>2. CASE HandlerReturns
    BY <1>2, <1>a DEF HandlerReturns, trackerVars
  <1>3. ASSUME NEW l \in Wrappers,
               FactoryFails(l) \/ FactoryReturns(l) \/ WrapperReturns(l) \/ Settle(l)
        PROVE  caller'[i] # "nobody"
    <2>1. caller' = caller
      BY <1>3 DEF FactoryFails, FactoryReturns, WrapperReturns, Settle, trackerVars
    <2>2. CASE FactoryFails(l) \/ FactoryReturns(l)
      BY <1>a, <2>1, <2>2 DEF FactoryFails, FactoryReturns
    <2>3. CASE WrapperReturns(l)
      BY <1>a, <2>1, <2>3 DEF WrapperReturns
    <2>4. CASE Settle(l)
      BY <1>a, <2>1, <2>4 DEF Settle
    <2>5. QED
      BY <1>3, <2>2, <2>3, <2>4
  <1>4. ASSUME NEW l \in Wrappers, StartAsync(l) \/ NextRejected(l)
        PROVE  caller'[i] # "nobody"
    BY <1>4, <1>a DEF StartAsync, NextRejected, trackerVars
  <1>5. ASSUME NEW l \in Wrappers, NextReturns(l) PROVE caller'[i] # "nobody"
    <2>1. stage[j] \in Active
      BY <1>5 DEF NextReturns
    <2>2. stage[l + 1] = "done" /\ \A k \in Wrappers : k # l => caller'[k] = caller[k]
      BY <1>5 DEF NextReturns
    <2>3. CASE i = l
      <3>1. j # i + 1
        BY <2>1, <2>2, <2>3
      <3>2. i + 1 \in Wrappers /\ i + 1 < j
        BY <3>1, BelowFacts
      <3>3. ~Escaped(i + 1) /\ (\A k \in Wrappers : i + 1 <= k /\ k < j => ~Escaped(k))
        BY <1>0, <3>2 DEF Wrappers
      <3>4. caller[i + 1] # "nobody"
        BY <2>1, <3>2, <3>3 DEF AboveInv
      <3>5. QED
        BY <2>2, <2>3, <3>2, <3>3, <3>4 DEF CallInv, Caller
    <2>4. QED
      BY <1>a, <2>1, <2>2, <2>3
  <1>6. ASSUME NEW l \in Wrappers, NextEnters(l) PROVE caller'[i] # "nobody"
    <2>1. PICK who \in {"main", "async"} :
            /\ CallsNext(l, who) /\ ~closed[l] /\ ~called[l]
            /\ caller' = [caller EXCEPT ![l] = who]
            /\ stage' = [stage EXCEPT ![l] = IF who = "main" THEN "next" ELSE @,
                                      ![l + 1] = First(l + 1)]
            /\ UNCHANGED <<async, closed>>
      BY <1>6, NextEntersFacts
    <2>2. caller'[l] # "nobody" /\ \A k \in Wrappers : k # l => caller'[k] = caller[k]
      BY <2>1
    <2>3. CASE j = l + 1
      <3>1. i = l \/ i < l
        BY <2>3, BelowFacts
      <3>2. l < j
        BY <2>3 DEF Wrappers
      <3>3. ASSUME i < l PROVE caller[i] # "nobody"
        <4>1. ~Escaped(l) /\ \A k \in Wrappers : i <= k /\ k < l => ~Escaped(k)
          BY <1>0, <3>2, <3>3 DEF Wrappers, Layers
        <4>2. stage[l] \in Active
          <5>1. Caller(l)
            BY DEF CallInv
          <5>2. stage[l] # "idle" /\ stage[l] # "done"
            BY <2>1, <4>1, <5>1 DEF CallsNext, Caller, Escaped
          <5>3. l \in Layers /\ stage[l] \in Active \cup {"idle", "done"}
            OBVIOUS
          <5>4. QED
            BY <5>2, <5>3
        <4>3. QED
          BY <3>3, <4>1, <4>2 DEF AboveInv
      <3>4. QED
        BY <2>2, <3>1, <3>3
    <2>4. CASE j # l + 1
      <3>1. stage[j] \in Active
        BY <2>1, <2>4 DEF CallsNext
      <3>2. QED
        BY <1>a, <2>2, <3>1
    <2>5. QED
      BY <2>3, <2>4
  <1>7. QED
    BY <1>1, <1>2, <1>3, <1>4, <1>5, <1>6 DEF ChainNext, ChainStep, Proceed, Calls

-----------------------------------------------------------------------------
LEMMA InitIInv ==
    ASSUME ChainInit
    PROVE  IInv /\ NestInv
  <1> USE LayerFacts DEF ChainInit
  <1>1. ChainTypeOK
    BY DEF ChainTypeOK
  <1>2. TrackInv /\ ResultInv /\ RunsInv
    BY DEF TrackInv, Track, ResultInv, RunsInv
  <1>3. NestInv
    BY DEF NestInv, CallInv, Caller, AboveInv, Active
  <1>4. QED
    BY <1>1, <1>2, <1>3 DEF IInv

LEMMA StutterInv ==
    ASSUME UNCHANGED chainVars
    PROVE  (IInv => IInv') /\ (NestInv => NestInv')
  BY DEF chainVars, trackerVars, IInv, ChainTypeOK, TrackInv, Track, ResultInv, RunsInv, NestInv,
         CallInv, Caller, AboveInv, Escaped

LEMMA StepIInv == IInv /\ [ChainNext]_chainVars => IInv'
  BY TypeStep, TrackStep, ResultStep, RunsStep, StutterInv DEF IInv

THEOREM Inductive == ChainSpec => []IInv
  BY InitIInv, StepIInv, PTL DEF ChainSpec

(***************************************************************************)
(* The handler starts at most once, and a success of the command is a      *)
(* success of that run, for any number of wrappers that call next as often *)
(* as they like, from wherever they like.                                  *)
(***************************************************************************)
THEOREM SuccessIsReal == ChainSpec => []OneRealRun
  <1>1. IInv => OneRealRun
    BY LayerFacts DEF IInv, ChainTypeOK, ResultInv, RunsInv, OneRealRun
  <1>2. QED
    BY <1>1, Inductive, PTL

(***************************************************************************)
(* Nothing runs below the outermost wrapper once it has returned, unless a *)
(* factory on the way down failed with next in a goroutine of its own.     *)
(***************************************************************************)
THEOREM ReturnIsQuiet == ChainSpec => []QuietAfterReturn
  <1>1. IInv /\ NestInv /\ [ChainNext]_chainVars => NestInv'
    BY CallStep, AboveStep, StutterInv DEF NestInv
  <1>2. NestInv => QuietAfterReturn
    <2> SUFFICES ASSUME NestInv, stage[1] = "done", NEW j \in Layers, stage[j] \in Active
                 PROVE  \E i \in Wrappers : i < j /\ Escaped(i)
      BY DEF QuietAfterReturn
    <2>1. 1 < j /\ 1 \in Wrappers
      BY WrapperChainAssumption DEF Layers, Wrappers, Active
    <2>2. caller[1] # "nobody" => Escaped(1)
      BY <2>1 DEF NestInv, CallInv, Caller
    <2>3. QED
      BY <2>1, <2>2 DEF NestInv, AboveInv
  <1>3. QED
    BY <1>1, <1>2, InitIInv, Inductive, PTL DEF ChainSpec

-----------------------------------------------------------------------------
(* The process. *)

LEMMA StepRefines == [Next]_vars => [ChainNext]_chainVars
<1>1. ASSUME Process PROVE [ChainNext]_chainVars
  BY <1>1 DEF Process, StartHook, HookTimesOut, SkipHook, AfterStartHook, AfterStopHook,
     StartupDone, Rejected, RunCommand, CommandReturns, Exit, ChainNext
<1>2. ASSUME BudgetOver \/ Cancel \/ \E h \in Hooks : HookReturns(h)
      PROVE  [ChainNext]_chainVars
  BY <1>2 DEF BudgetOver, Cancel, HookReturns
<1>3. ASSUME ChainStep PROVE [ChainNext]_chainVars
  BY <1>3 DEF ChainNext
<1>4. ASSUME UNCHANGED vars PROVE UNCHANGED chainVars
  BY <1>4 DEF vars
<1> QED
  BY <1>1, <1>2, <1>3, <1>4 DEF Next

(***************************************************************************)
(* The process implements the chain: whatever hooks, policy and observers  *)
(* do, each of its steps is one of the chain or leaves the chain alone.    *)
(***************************************************************************)
THEOREM ImplementsChain == Spec => ChainSpec
<1>1. Init => ChainInit
  BY DEF Init
<1> QED
  BY <1>1, StepRefines, PTL DEF Spec, ChainSpec

(***************************************************************************)
(* With any hooks and any wrappers, a chain that reports success ran the   *)
(* handler once and it succeeded.                                          *)
(***************************************************************************)
THEOREM ProcessSuccessIsReal == Spec => []OneRealRun
  BY ImplementsChain, SuccessIsReal, PTL

-----------------------------------------------------------------------------
(***************************************************************************)
(* The gates in front of the handler, and the cleanup behind it.           *)
(***************************************************************************)
Passes(h) == h \in Closed => hook[h] = "ok"

\* Nothing of the chain is under way.
Untouched ==
    /\ runs = 0
    /\ \A i \in Layers : stage[i] = "idle"
    /\ \A i \in Wrappers : ~async[i] /\ caller[i] = "nobody"

Gated == ~denied /\ \A h \in Range(StartHooks) : Passes(h)

StartFailed == \E h \in Range(StartHooks) : Fails(h)

ProcTypeOK ==
    /\ phase \in {"startup", "before", "command", "shutdown", "exited"}
    /\ at \in Nat \ {0}
    /\ hook \in [Hooks -> {"waits", "runs", "ok", "failed", "left", "skipped"}]
    /\ budgetOver \in BOOLEAN /\ denied \in BOOLEAN /\ stopErr \in BOOLEAN

StartInv ==
    /\ Untouched \/ Gated
    /\ phase \in {"startup", "before"} => Untouched
    /\ phase = "startup" /\ runErr = "none" =>
         \A j \in 1 .. Len(StartHooks) : j < at => Passes(StartHooks[j])
    /\ phase = "before" => \A h \in Range(StartHooks) : Passes(h)
    /\ phase = "command" => Gated

ToldInv ==
    /\ phase = "startup" => runErr \in {"none", "hook"} /\ (runErr = "hook" => StartFailed)
    /\ phase \in {"shutdown", "exited"} => told # "none" \/ StartFailed
    /\ told = "ok" => result[Handler] = "ok"
    /\ runErr = "ok" => told = "ok" /\ Gated

StopInv ==
    /\ \A h \in Range(StopHooks) : hook[h] = "skipped" => budgetOver
    /\ phase = "shutdown" => \A j \in 1 .. Len(StopHooks) : j < at =>
         /\ hook[Reverse(StopHooks)[j]] # "waits"
         /\ ~stopErr => Passes(Reverse(StopHooks)[j])
    /\ phase = "exited" => \A h \in Range(StopHooks) : hook[h] # "waits"
    /\ exit = "ok" => runErr = "ok" /\ \A h \in Range(StopHooks) : Passes(h)
    /\ phase # "exited" => exit = "none"

ProcInv == ProcTypeOK /\ StartInv /\ ToldInv /\ StopInv

-----------------------------------------------------------------------------
LEMMA HookFacts ==
    /\ Range(StartHooks) \subseteq Hooks /\ Range(StopHooks) \subseteq Hooks
    /\ Range(StartHooks) \cap Range(StopHooks) = {}
    /\ Closed \subseteq Range(StartHooks) \cup Range(StopHooks)
    /\ Len(StartHooks) \in Nat /\ Len(StopHooks) \in Nat
    /\ Range(StartHooks) = {StartHooks[j] : j \in 1 .. Len(StartHooks)}
    /\ Len(Reverse(StopHooks)) = Len(StopHooks)
    /\ Range(StopHooks) = {Reverse(StopHooks)[j] : j \in 1 .. Len(StopHooks)}
<1> DEFINE A == StartHooks  B == StopHooks  C == A \o B
<1>1. /\ A \in Seq(Range(A)) /\ B \in Seq(Range(B))
      /\ \A a, b \in DOMAIN C : C[a] = C[b] => a = b
      /\ Closed \subseteq Range(C)
  BY ExtensionRunAssumption DEF IsInjective
<1>2. /\ Len(A) \in Nat /\ Len(B) \in Nat
      /\ DOMAIN A = 1 .. Len(A) /\ DOMAIN B = 1 .. Len(B)
      /\ DOMAIN C = 1 .. Len(A) + Len(B)
      /\ \A j \in 1 .. Len(A) : C[j] = A[j]
      /\ \A j \in 1 .. Len(B) : C[Len(A) + j] = B[j]
      /\ \A j \in DOMAIN C : j \in 1 .. Len(A) \/ (j - Len(A) \in 1 .. Len(B) /\ C[j] = B[j - Len(A)])
  BY <1>1
<1>3. /\ Range(A) = {A[j] : j \in 1 .. Len(A)}
      /\ Range(B) = {B[j] : j \in 1 .. Len(B)}
      /\ Hooks = {C[j] : j \in DOMAIN C}
      /\ Range(C) = Hooks
  BY <1>2 DEF Range, Hooks
<1>4. \A j \in 1 .. Len(A) : j \in DOMAIN C
  BY <1>2
<1>5. \A j \in 1 .. Len(B) : Len(A) + j \in DOMAIN C
  BY <1>2
<1>6. Range(A) \subseteq Hooks /\ Range(B) \subseteq Hooks
  BY <1>2, <1>3, <1>4, <1>5
<1>7. Range(A) \cap Range(B) = {}
  <2> SUFFICES ASSUME NEW a \in 1 .. Len(A), NEW b \in 1 .. Len(B), A[a] = B[b] PROVE FALSE
    BY <1>3
  <2>1. C[a] = C[Len(A) + b]
    BY <1>2
  <2>2. a = Len(A) + b
    BY <2>1, <1>1, <1>4, <1>5
  <2> QED
    BY <2>2, <1>2
<1>8. Closed \subseteq Range(A) \cup Range(B)
  BY <1>1, <1>2, <1>3
<1>9. /\ Len(Reverse(B)) = Len(B)
      /\ \A j \in 1 .. Len(B) : Reverse(B)[j] = B[Len(B) - j + 1]
  BY <1>1, <1>2 DEF Reverse
<1>10. \A j \in 1 .. Len(B) : Len(B) - j + 1 \in 1 .. Len(B) /\ Len(B) - (Len(B) - j + 1) + 1 = j
  BY <1>2
<1>11. Range(B) = {Reverse(B)[j] : j \in 1 .. Len(B)}
  BY <1>3, <1>9, <1>10
<1> QED
  BY <1>2, <1>3, <1>6, <1>7, <1>8, <1>9, <1>11

\* What the step leaves alone once a hook is over, and once the handler succeeded.
Stable ==
    /\ denied' = denied
    /\ budgetOver => budgetOver'
    /\ \A h \in Hooks : /\ hook[h] \notin {"waits", "runs"} => hook'[h] = hook[h]
                        /\ hook[h] # "waits" => hook'[h] # "waits"

LEMMA HookSteps ==
    ASSUME ProcTypeOK, Next
    PROVE  ProcTypeOK' /\ Stable
<1> USE HookFacts DEF ProcTypeOK, Stable
<1>1. Emitting => Order[at] \in Hooks
  BY DEF Emitting, Order
<1>2. ASSUME StartHook PROVE ProcTypeOK' /\ Stable
  BY <1>1, <1>2 DEF StartHook
<1>3. ASSUME NEW h \in Hooks, HookReturns(h) PROVE ProcTypeOK' /\ Stable
  BY <1>3 DEF HookReturns
<1>4. ASSUME HookTimesOut PROVE ProcTypeOK' /\ Stable
  BY <1>1, <1>4 DEF HookTimesOut
<1>5. ASSUME SkipHook PROVE ProcTypeOK' /\ Stable
  BY <1>1, <1>5 DEF SkipHook
<1>6. ASSUME Cancel \/ StartupDone PROVE ProcTypeOK' /\ Stable
  BY <1>6 DEF Cancel, StartupDone, GoShutdown
<1>11. ASSUME BudgetOver PROVE ProcTypeOK' /\ Stable
  <2>1. UNCHANGED <<phase, at, hook, denied, stopErr>> /\ budgetOver' /\ budgetOver' \in BOOLEAN
    BY <1>11 DEF BudgetOver
  <2> QED
    BY <2>1
<1>10. ASSUME AfterStartHook PROVE ProcTypeOK' /\ Stable
  <2>1. UNCHANGED <<hook, budgetOver, denied, stopErr>>
    BY <1>10 DEF AfterStartHook
  <2>2. (phase' = "shutdown" /\ at' = 1) \/ (phase' = phase /\ at' = at + 1)
    BY <1>10 DEF AfterStartHook, GoShutdown
  <2> QED
    BY <2>1, <2>2
<1>9. ASSUME AfterStopHook PROVE ProcTypeOK' /\ Stable
  <2>1. UNCHANGED <<phase, hook, budgetOver, denied>> /\ at' = at + 1
    BY <1>9 DEF AfterStopHook
  <2>2. stopErr' \in BOOLEAN
    BY <1>9 DEF AfterStopHook, Fails
  <2> QED
    BY <2>1, <2>2
<1>7. ASSUME Rejected \/ RunCommand \/ CommandReturns \/ Exit
      PROVE  ProcTypeOK' /\ Stable
  BY <1>7 DEF Rejected, RunCommand, CommandReturns, Exit, GoShutdown
<1>8. ASSUME UNCHANGED procVars PROVE ProcTypeOK' /\ Stable
  BY <1>8 DEF procVars
<1> QED
  BY <1>2, <1>3, <1>4, <1>5, <1>6, <1>7, <1>8, <1>9, <1>10, <1>11 DEF Next, Process

\* The chain cannot move before it is entered.
LEMMA ChainRests == Untouched => ~ChainStep
BY LayerFacts DEF Untouched, ChainStep, HandlerReturns, Proceed, Calls, FactoryFails,
   FactoryReturns, NextReturns, WrapperReturns, Settle, StartAsync, NextEnters,
   NextRejected, CallsNext

LEMMA GatedIsStable == Stable /\ Gated => Gated'
BY HookFacts DEF Stable, Gated, Passes

LEMMA StartStep ==
    ASSUME ProcTypeOK, StartInv, Next
    PROVE  StartInv'
<1>1. Stable /\ ProcTypeOK'
  BY HookSteps
<1>2. /\ Gated => Gated'
      /\ \A h \in Hooks : Passes(h) => Passes(h)'
  BY <1>1, GatedIsStable DEF Stable, Passes
<1>3. \A j \in 1 .. Len(StartHooks) : Passes(StartHooks[j]) => Passes(StartHooks[j])'
  BY <1>2, HookFacts
<1>4. \A h \in Range(StartHooks) : Passes(h) => Passes(h)'
  BY <1>2, HookFacts
<1>5. UNCHANGED chainVars => (Untouched => Untouched')
  BY DEF chainVars, trackerVars, Untouched
<1>6. ASSUME StartHook \/ HookTimesOut \/ SkipHook \/ AfterStopHook \/ BudgetOver
             \/ Cancel \/ Exit \/ \E h \in Hooks : HookReturns(h)
      PROVE  StartInv'
  <2>1. UNCHANGED <<chainVars, runErr>> /\ phase' \in {phase, "exited"}
        /\ (phase' = "startup" => at' = at)
    BY <1>6 DEF StartHook, HookTimesOut, SkipHook, AfterStopHook, BudgetOver, Cancel,
       Exit, HookReturns
  <2> QED
    BY <2>1, <1>2, <1>3, <1>4, <1>5 DEF StartInv
<1>7. ASSUME AfterStartHook PROVE StartInv'
  <2>1. /\ UNCHANGED <<chainVars, hook>> /\ phase = "startup" /\ at <= Len(StartHooks)
        /\ Over(StartHooks[at]) /\ phase' \in {"startup", "shutdown"}
        /\ phase' = "startup" => at' = at + 1
        /\ runErr' = "none" => runErr = "none" /\ ~Fails(StartHooks[at])
    BY <1>7 DEF AfterStartHook, Emitting, Order, GoShutdown
  <2>2. ASSUME NEW j \in 1 .. Len(StartHooks), phase' = "startup", runErr' = "none", j < at'
        PROVE  Passes(StartHooks[j])'
    <3>1. CASE j < at
      BY <2>1, <2>2, <3>1, <1>3 DEF StartInv
    <3>2. CASE j = at
      BY <2>1, <2>2, <3>2 DEF Over, Fails, Passes
    <3> QED
      BY <2>1, <2>2, <3>1, <3>2 DEF ProcTypeOK
  <2> QED
    BY <2>1, <2>2, <1>5 DEF StartInv
<1>8. ASSUME StartupDone PROVE StartInv'
  <2>1. /\ UNCHANGED <<chainVars, hook>> /\ phase = "startup" /\ at > Len(StartHooks)
        /\ \/ phase' = "before" /\ runErr = "none"
           \/ phase' = "shutdown"
    BY <1>8 DEF StartupDone, Order, GoShutdown
  <2>2. phase' = "before" => \A j \in 1 .. Len(StartHooks) : Passes(StartHooks[j])'
    BY <2>1, <1>3, HookFacts DEF StartInv, ProcTypeOK
  <2>3. phase' = "before" => \A h \in Range(StartHooks) : Passes(h)'
    BY <2>2, HookFacts
  <2> QED
    BY <2>1, <2>3, <1>5 DEF StartInv
<1>9. ASSUME Rejected \/ CommandReturns PROVE StartInv'
  <2>1. UNCHANGED chainVars /\ phase' = "shutdown"
    BY <1>9 DEF Rejected, CommandReturns, GoShutdown
  <2> QED
    BY <2>1, <1>2, <1>5 DEF StartInv
<1>10. ASSUME RunCommand PROVE StartInv'
  <2>1. Gated' /\ phase' = "command"
    BY <1>10, <1>4 DEF RunCommand, StartInv, Gated
  <2> QED
    BY <2>1 DEF StartInv
<1>11. ASSUME ChainStep, UNCHANGED procVars PROVE StartInv'
  <2>1. ~Untouched
    BY <1>11, ChainRests
  <2> QED
    BY <2>1, <1>11, <1>2 DEF StartInv, procVars
<1> QED
  BY <1>6, <1>7, <1>8, <1>9, <1>10, <1>11 DEF Next, Process

\* The handler's success is final.
LEMMA SuccessStays ==
    ASSUME IInv, ChainStep, result[Handler] = "ok"
    PROVE  result'[Handler] = "ok"
<1>1. stage[Handler] = "done" /\ Handler \in Layers /\ Handler \notin Wrappers
  BY LayerFacts DEF IInv, ResultInv, Wrappers, Handler
<1>2. result \in [Layers -> Results \cup {"none"}] /\ \A i \in Wrappers : i \in Layers /\ i # Handler
  BY LayerFacts DEF IInv, ChainTypeOK
<1> QED
  BY <1>1, <1>2 DEF ChainStep, HandlerReturns, Proceed, Calls, FactoryFails, FactoryReturns,
     NextReturns, WrapperReturns, Settle, StartAsync, NextEnters, NextRejected

LEMMA ToldStep ==
    ASSUME IInv, ProcTypeOK, StartInv, ToldInv, Next
    PROVE  ToldInv'
<1>1. /\ Stable
      /\ Gated => Gated'
      /\ StartFailed => StartFailed'
  <2>1. Stable
    BY HookSteps
  <2> QED
    BY <2>1, GatedIsStable, HookFacts DEF Stable, StartFailed, Fails
<1>2. ASSUME UNCHANGED <<chainVars, runErr, told>>,
             phase' = phase \/ (phase = "shutdown" /\ phase' = "exited")
             \/ (phase = "startup" /\ phase' = "before")
      PROVE  ToldInv'
  BY <1>1, <1>2 DEF ToldInv, chainVars
<1>3. ASSUME StartHook \/ HookTimesOut \/ SkipHook \/ AfterStopHook \/ BudgetOver
             \/ Cancel \/ Exit \/ \E h \in Hooks : HookReturns(h)
      PROVE  ToldInv'
  BY <1>2, <1>3 DEF StartHook, HookTimesOut, SkipHook, AfterStopHook, BudgetOver,
     Cancel, Exit, HookReturns
<1>4. ASSUME AfterStartHook PROVE ToldInv'
  <2>1. /\ UNCHANGED <<chainVars, told, hook>> /\ phase = "startup" /\ phase' \in {"startup", "shutdown"}
        /\ at \in 1 .. Len(StartHooks)
        /\ runErr' = IF Fails(StartHooks[at]) THEN "hook" ELSE runErr
        /\ phase' = "shutdown" => Fails(StartHooks[at])
    BY <1>4, HookFacts DEF AfterStartHook, Emitting, Order, GoShutdown, ProcTypeOK
  <2>2. Fails(StartHooks[at]) => StartFailed
    BY <2>1, HookFacts DEF StartFailed
  <2>3. /\ runErr' \in {"none", "hook"}
        /\ runErr' = "hook" \/ phase' = "shutdown" => StartFailed'
    BY <2>1, <2>2, <1>1 DEF ToldInv
  <2> QED
    BY <2>1, <2>3 DEF ToldInv, chainVars
<1>5. ASSUME StartupDone PROVE ToldInv'
  BY <1>1, <1>5 DEF StartupDone, GoShutdown, ToldInv, chainVars
<1>6. ASSUME Rejected PROVE ToldInv'
  <2>1. /\ UNCHANGED chainVars /\ phase' = "shutdown"
        /\ runErr' = told' /\ told' \in {"observer", "denied"}
    BY <1>6 DEF Rejected, GoShutdown
  <2> QED
    BY <2>1 DEF ToldInv
<1>7. ASSUME RunCommand PROVE ToldInv'
  <2>1. UNCHANGED <<result, runErr, told>> /\ phase' = "command"
    BY <1>7 DEF RunCommand, EnterTop
  <2> QED
    BY <2>1, <1>1 DEF ToldInv
<1>8. ASSUME CommandReturns PROVE ToldInv'
  <2>1. /\ UNCHANGED chainVars /\ phase' = "shutdown" /\ phase = "command"
        /\ stage[1] = "done" /\ told' = result[1]
        /\ runErr' = result[1] \/ (runErr' = "observer")
    BY <1>8 DEF CommandReturns, GoShutdown
  <2>2. result[1] # "none" /\ (result[1] = "ok" => result[Handler] = "ok")
    BY <2>1, LayerFacts DEF IInv, ChainTypeOK, ResultInv
  <2>3. Gated'
    BY <2>1, <1>1 DEF StartInv
  <2> QED
    BY <2>1, <2>2, <2>3 DEF ToldInv, chainVars
<1>9. ASSUME ChainStep, UNCHANGED procVars PROVE ToldInv'
  BY <1>1, <1>9, SuccessStays DEF ToldInv, procVars
<1> QED
  BY <1>3, <1>4, <1>5, <1>6, <1>7, <1>8, <1>9 DEF Next, Process

LEMMA StopStep ==
    ASSUME ProcTypeOK, StopInv, Next
    PROVE  StopInv'
<1>1. Stable
  BY HookSteps
<1>2. /\ \A h \in Hooks : hook[h] # "waits" => hook'[h] # "waits"
      /\ \A h \in Hooks : Passes(h) => Passes(h)'
  BY <1>1 DEF Stable, Passes
<1>3. /\ \A j \in 1 .. Len(StopHooks) : Reverse(StopHooks)[j] \in Hooks
      /\ Range(StopHooks) \subseteq Hooks
  BY HookFacts
<1>4. ASSUME NEW h \in Range(StopHooks), hook'[h] = "skipped" PROVE budgetOver'
  <2>1. CASE hook[h] = "skipped"
    BY <1>1, <2>1 DEF StopInv, Stable
  <2>2. CASE hook[h] # "skipped"
    <3>1. h \in Hooks /\ hook \in [Hooks -> {"waits", "runs", "ok", "failed", "left", "skipped"}]
      BY <1>3 DEF ProcTypeOK
    <3>2. SkipHook
      BY <3>1, <1>4, <2>2 DEF Next, Process, StartHook, HookTimesOut, AfterStartHook,
         AfterStopHook, StartupDone, Rejected, RunCommand, CommandReturns, Exit,
         BudgetOver, Cancel, HookReturns, procVars
    <3>3. hook' = [hook EXCEPT ![Order[at]] = "skipped"] /\ Emitting /\ ContextDone /\ budgetOver' = budgetOver
      BY <3>2 DEF SkipHook
    <3>4. h = Order[at]
      BY <3>1, <3>3, <1>4, <2>2
    <3>5. phase # "startup"
      <4> SUFFICES ASSUME phase = "startup" PROVE FALSE
        OBVIOUS
      <4>1. h \in Range(StartHooks)
        BY <3>3, <3>4, HookFacts DEF Order, Emitting, ProcTypeOK
      <4> QED
        BY <4>1, <1>4, HookFacts
    <3> QED
      BY <3>3, <3>5 DEF ContextDone
  <2> QED
    BY <2>1, <2>2
<1>5. phase' # "exited" => exit' = "none"
  BY DEF Next, Process, StartHook, HookTimesOut, SkipHook, AfterStartHook,
     AfterStopHook, StartupDone, Rejected, RunCommand, CommandReturns, Exit,
     BudgetOver, Cancel, HookReturns, procVars, StopInv, GoShutdown
<1>6. ASSUME UNCHANGED <<phase, at, stopErr, runErr, exit>> PROVE StopInv'
  BY <1>2, <1>3, <1>4, <1>6 DEF StopInv
<1>7. ASSUME StartHook \/ HookTimesOut \/ SkipHook \/ BudgetOver \/ Cancel
             \/ (\E h \in Hooks : HookReturns(h)) \/ UNCHANGED procVars
      PROVE  StopInv'
  BY <1>6, <1>7 DEF StartHook, HookTimesOut, SkipHook, BudgetOver, Cancel, HookReturns, procVars
<1>8. ASSUME AfterStartHook \/ StartupDone \/ Rejected \/ RunCommand \/ CommandReturns
      PROVE  StopInv'
  <2>1. /\ phase \notin {"shutdown", "exited"} /\ phase' # "exited" /\ exit' = exit
        /\ phase' = "shutdown" => at' = 1
    BY <1>8 DEF AfterStartHook, StartupDone, Rejected, RunCommand, CommandReturns, GoShutdown
  <2>2. exit' = "none" /\ "none" # "ok"
    BY <2>1, <1>5
  <2> QED
    BY <2>1, <2>2, <1>4, HookFacts DEF StopInv
<1>9. ASSUME AfterStopHook PROVE StopInv'
  <2>1. /\ phase = "shutdown" /\ phase' = phase /\ at' = at + 1 /\ exit' = exit
        /\ Over(Reverse(StopHooks)[at]) /\ hook' = hook
        /\ stopErr' = (stopErr \/ Fails(Reverse(StopHooks)[at]))
    BY <1>9 DEF AfterStopHook, Order
  <2>2. ASSUME NEW j \in 1 .. Len(StopHooks), j < at'
        PROVE  /\ hook'[Reverse(StopHooks)[j]] # "waits"
               /\ ~stopErr' => Passes(Reverse(StopHooks)[j])'
    <3>1. CASE j < at
      <4>1. hook[Reverse(StopHooks)[j]] # "waits" /\ (~stopErr => Passes(Reverse(StopHooks)[j]))
        BY <2>1, <3>1 DEF StopInv
      <4> QED
        BY <4>1, <2>1, <1>2, <1>3
    <3>2. CASE j = at
      BY <2>1, <3>2 DEF Over, Fails, Passes
    <3> QED
      BY <2>1, <2>2, <3>1, <3>2 DEF ProcTypeOK
  <2>3. exit' = "none" /\ "none" # "ok"
    BY <2>1, <1>5
  <2> QED
    BY <2>1, <2>2, <2>3, <1>4 DEF StopInv
<1>10. ASSUME Exit PROVE StopInv'
  <2>1. /\ phase = "shutdown" /\ phase' = "exited" /\ at > Len(StopHooks)
        /\ hook' = hook /\ runErr' = runErr
        /\ exit' = "ok" => runErr = "ok" /\ ~stopErr
    BY <1>10, HookFacts DEF Exit, Order
  <2>2. \A j \in 1 .. Len(StopHooks) :
          /\ hook[Reverse(StopHooks)[j]] # "waits"
          /\ ~stopErr => Passes(Reverse(StopHooks)[j])
    BY <2>1, HookFacts DEF StopInv, ProcTypeOK
  <2>3. \A h \in Range(StopHooks) : hook[h] # "waits" /\ (~stopErr => Passes(h))
    BY <2>2, HookFacts
  <2>4. \A h \in Range(StopHooks) : hook'[h] # "waits" /\ (exit' = "ok" => Passes(h)')
    BY <2>1, <2>3, <1>2, <1>3
  <2> QED
    BY <2>1, <2>4, <1>4 DEF StopInv
<1> QED
  BY <1>7, <1>8, <1>9, <1>10 DEF Next, Process

-----------------------------------------------------------------------------
LEMMA InitProcInv == Init => ProcInv
<1> SUFFICES ASSUME Init PROVE ProcInv
  OBVIOUS
<1>1. Untouched
  BY DEF Init, ChainInit, Untouched
<1>2. ProcTypeOK
  <2>1. budgetOver \in BOOLEAN /\ denied \in BOOLEAN /\ stopErr \in BOOLEAN
    BY DEF Init
  <2>2. phase = "startup" /\ at = 1 /\ hook = [h \in Hooks |-> "waits"]
    BY DEF Init
  <2> QED
    BY <2>1, <2>2 DEF ProcTypeOK
<1>3. StartInv
  BY <1>1, HookFacts DEF Init, StartInv
<1>4. ToldInv /\ StopInv
  BY HookFacts DEF Init, ToldInv, StopInv
<1> QED
  BY <1>1, <1>2, <1>3, <1>4 DEF ProcInv

LEMMA StepProcInv == IInv /\ ProcInv /\ [Next]_vars => ProcInv'
<1>1. ASSUME IInv, ProcInv, Next PROVE ProcInv'
  BY <1>1, HookSteps, StartStep, ToldStep, StopStep DEF ProcInv
<1>2. ASSUME ProcInv, UNCHANGED vars PROVE ProcInv'
  BY <1>2, HookFacts DEF ProcInv, ProcTypeOK, StartInv, ToldInv, StopInv, Untouched, Gated,
     Passes, StartFailed, Fails, vars, procVars, chainVars, trackerVars
<1> QED
  BY <1>1, <1>2

LEMMA ProcInvariant == Spec => [](IInv /\ ProcInv)
<1>1. Spec => []IInv
  BY ImplementsChain, Inductive, PTL
<1> QED
  BY <1>1, InitProcInv, StepProcInv, PTL DEF Spec

(***************************************************************************)
(* No handler runs for a denied command, or after a fail-closed startup    *)
(* hook that did not succeed, for any hooks and wrappers.                  *)
(***************************************************************************)
THEOREM HandlerGated == Spec => []HandlerIsGated
<1>1. ProcInv => HandlerIsGated
  BY HookFacts DEF ProcInv, StartInv, Untouched, Gated, Passes, HandlerIsGated
<1> QED
  BY <1>1, ProcInvariant, PTL

(***************************************************************************)
(* A process that reports success is one in which the handler succeeded    *)
(* and every fail-closed hook at both ends did.                            *)
(***************************************************************************)
THEOREM SuccessWhole == Spec => []SuccessIsWhole
<1>1. ProcInv => SuccessIsWhole
  BY HookFacts DEF ProcInv, ToldInv, StopInv, Gated, Passes, SuccessIsWhole
<1> QED
  BY <1>1, ProcInvariant, PTL

(***************************************************************************)
(* Observers hear the truth, of every command line that was started.       *)
(***************************************************************************)
THEOREM TruthTold == Spec => []ObserversToldTruth
<1>1. ProcInv => ObserversToldTruth
  BY DEF ProcInv, ToldInv, StartFailed, ObserversToldTruth
<1> QED
  BY <1>1, ProcInvariant, PTL

(***************************************************************************)
(* Neither the exit code nor an observer is told of a success that did not *)
(* happen.                                                                 *)
(***************************************************************************)
THEOREM ReportsAreTrue == Spec => []NoFalseReport
  BY SuccessWhole, TruthTold, PTL DEF NoFalseReport

(***************************************************************************)
(* Each shutdown hook has its turn before the process ends.                *)
(***************************************************************************)
THEOREM CleanupTried == Spec => []CleanupIsTried
<1>1. ProcInv => CleanupIsTried
  BY DEF ProcInv, StopInv, CleanupIsTried
<1> QED
  BY <1>1, ProcInvariant, PTL
=============================================================================
