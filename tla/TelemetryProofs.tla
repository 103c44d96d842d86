---------------------------- MODULE TelemetryProofs ----------------------------
(***************************************************************************)
(* Proofs about telemetry: the consent (TelemetryConsent), for any         *)
(* commands, users, uploaders and any number of consent changes, and the   *)
(* way of the events (TelemetryDelivery), for any events, accounts and     *)
(* routes.  The two have no state in common.                               *)
(*                                                                         *)
(* IInv is the inductive invariant of the consent.  It says who holds the  *)
(* locks where, and carries the consent of a recorder from its check under *)
(* the shared quota lock to the rename of its event file.                  *)
(*                                                                         *)
(* ReportsAreDue rests on the upload marker: whatever was sent within the  *)
(* hour and is still queued has a fresh marker at its route.  A marker is  *)
(* only taken away when the list is empty, and the list, though older than *)
(* the queue, holds everything that was sent.                              *)
(***************************************************************************)
EXTENDS TelemetryConsent, TelemetryDelivery, FiniteSetTheorems, WellFoundedInduction, TLAPS

\* Who is where holds which lock.
LockInv ==
    /\ \A c \in Commands : cpc[c] \in Recording <=> c \in quotaSh
    /\ \A u \in Users : upc[u] = "clear" <=> quotaEx = u
    /\ \A u \in Users : upc[u] \in Clearing <=> sendLock = u
    /\ \A m \in Uploaders : mpc[m] \in Sending <=> sendLock = m
    /\ quotaEx # NoOne => quotaSh = {}

\* Generations only grow, and a disable wrote its own.
GenInv ==
    /\ cleared <= gen
    /\ \A u \in Users : ugen[u] <= gen

\* What an uploader still has to delete was accepted by the service; a recorder
\* takes its event back only when its consent is over for good.
DeleteInv ==
    /\ \A m \in Uploaders : acks[m] \subseteq accepted
    /\ \A c \in Commands : cgen[c] <= gen
    /\ \A c \in Commands : cpc[c] = "rollback" => ~ConsentHolds(c)

\* A recorder past its check, a queued event and an event of a batch have
\* consent from the latest disable that returned, or from after it.
FreshInv ==
    /\ \A c \in Commands :
          cpc[c] \in {"commit", "committed", "rollback"} => cgen[c] >= cleared
    /\ ClearedStaysCleared
    /\ NothingSentAfterDisable

IInv == TypeOK /\ LockInv /\ GenInv /\ DeleteInv /\ FreshInv

-----------------------------------------------------------------------------
LEMMA InitIInv == Init => IInv
  <1> SUFFICES ASSUME Init PROVE IInv
    OBVIOUS
  <1>1. TypeOK
    BY DEF Init, TypeOK, CmdPCs, UserPCs, UplPCs
  <1>2. LockInv
    BY ConsentAssumption DEF Init, LockInv, Recording, Clearing, Sending
  <1>3. GenInv
    BY DEF Init, GenInv
  <1>4. FreshInv
    BY DEF Init, FreshInv, ClearedStaysCleared, NothingSentAfterDisable
  <1>5. DeleteInv
    BY DEF Init, DeleteInv
  <1>6. QED
    BY <1>1, <1>2, <1>3, <1>4, <1>5 DEF IInv

\* A change of the switch keeps its type and moves the generation up.
LEMMA SetEnabledFacts ==
    ASSUME NEW value \in BOOLEAN, gen \in Nat, SetEnabled(value)
    PROVE  enabled' \in BOOLEAN /\ gen' \in Nat /\ gen' = gen + 1
  <1>1. enabled' \in BOOLEAN
    BY Zenon DEF SetEnabled
  <1>2. gen' = gen + 1
    BY Zenon DEF SetEnabled
  <1>3. QED
    BY <1>1, <1>2

LEMMA TypeStep == TypeOK /\ [Next]_vars => TypeOK'
  <1> SUFFICES ASSUME TypeOK, [Next]_vars PROVE TypeOK'
    OBVIOUS
  <1> USE DEF TypeOK, CmdPCs, UserPCs, UplPCs, settingsVars, lockVars, cmdVars,
              userVars, uplVars, histVars
  <1>1. CASE ShowDisclosure
    BY <1>1 DEF ShowDisclosure
  <1>2. ASSUME NEW c \in Commands, Command(c) PROVE TypeOK'
    BY <1>2 DEF Command, StartCommand, FinishCommand, RecordLoad, AcquireShared,
                RecordCheck, Enqueue, RecordRecheck, Rollback, EndRecord
  <1>3. ASSUME NEW c \in Commands, RecordFails(c) PROVE TypeOK'
    BY <1>3 DEF RecordFails, EndRecord
  <1>4. ASSUME NEW u \in Users, BeginDisable(u) PROVE TypeOK'
    BY <1>4, SetEnabledFacts DEF BeginDisable
  <1>5. ASSUME NEW u \in Users, Disable(u) PROVE TypeOK'
    BY <1>5 DEF Disable, AcquireSend, AcquireQuota, RemoveQueued, DisableReturns, EndUser
  <1>6. ASSUME NEW u \in Users, DisableFails(u) PROVE TypeOK'
    BY <1>6 DEF DisableFails, EndUser
  <1>7. ASSUME NEW u \in Users, BeginEnable(u) PROVE TypeOK'
    BY <1>7 DEF BeginEnable
  <1>8. ASSUME NEW u \in Users, EnableReturns(u) PROVE TypeOK'
    <2>1. enabled' \in BOOLEAN /\ gen' \in Nat
      BY <1>8, SetEnabledFacts DEF EnableReturns
    <2>2. QED
      BY <1>8, <2>1 DEF EnableReturns
  <1>9. ASSUME NEW m \in Uploaders, StartUpload(m) \/ AcquireUpload(m) \/ UploadLoad(m)
                                    \/ UploadCheck(m) \/ UploadFails(m)
        PROVE TypeOK'
    BY <1>9 DEF StartUpload, AcquireUpload, UploadLoad, UploadCheck, UploadFails, EndUpload
  <1>10. ASSUME NEW m \in Uploaders, UploadList(m) PROVE TypeOK'
    BY <1>10 DEF UploadList, EndUpload
  <1>11. ASSUME NEW m \in Uploaders, UploadPost(m) PROVE TypeOK'
    BY <1>11 DEF UploadPost
  <1>12. ASSUME NEW m \in Uploaders, AckOne(m) \/ AckDone(m) PROVE TypeOK'
    BY <1>12 DEF AckOne, AckDone, EndUpload
  <1>13. CASE UNCHANGED vars
    BY <1>13 DEF vars
  <1>14. QED
    BY <1>1, <1>2, <1>3, <1>4, <1>5, <1>6, <1>7, <1>8, <1>9, <1>10, <1>11, <1>12, <1>13
       DEF Next, Upload

(***************************************************************************)
(* The program keeps its variables in their types: in particular the       *)
(* generation of SettingsStore.SetEnabled stays a natural number.          *)
(***************************************************************************)
THEOREM TypeCorrect == Spec => []TypeOK
  <1>1. Init => TypeOK
    BY InitIInv DEF IInv
  <1>2. QED
    BY <1>1, TypeStep, PTL DEF Spec

-----------------------------------------------------------------------------
(***************************************************************************)
(* The locks.  A process changes a lock only together with its own state.  *)
(***************************************************************************)
LEMMA LockStep == TypeOK /\ LockInv /\ [Next]_vars => LockInv'
  <1> SUFFICES ASSUME TypeOK, LockInv, [Next]_vars PROVE LockInv'
    OBVIOUS
  <1> USE ConsentAssumption
      DEF TypeOK, LockInv, CmdPCs, UserPCs, UplPCs, Recording, Clearing, Sending,
          settingsVars, lockVars, cmdVars, userVars, uplVars, histVars
  <1>1. CASE ShowDisclosure
    BY <1>1 DEF ShowDisclosure
  <1>2. ASSUME NEW c \in Commands, Command(c) \/ RecordFails(c) PROVE LockInv'
    <2>1. CASE StartCommand(c) \/ FinishCommand(c) \/ RecordLoad(c) \/ Enqueue(c)
      BY <2>1 DEF StartCommand, FinishCommand, RecordLoad, Enqueue
    <2>2. CASE AcquireShared(c)
      BY <2>2 DEF AcquireShared
    <2>3. CASE RecordCheck(c) \/ RecordRecheck(c)
      BY <2>3 DEF RecordCheck, RecordRecheck, EndRecord
    <2>4. CASE Rollback(c) \/ RecordFails(c)
      BY <2>4 DEF Rollback, RecordFails, EndRecord
    <2>5. QED
      BY <1>2, <2>1, <2>2, <2>3, <2>4 DEF Command
  <1>3. ASSUME NEW u \in Users, BeginDisable(u) \/ BeginEnable(u) \/ EnableReturns(u)
        PROVE LockInv'
    BY <1>3 DEF BeginDisable, BeginEnable, EnableReturns
  <1>4. ASSUME NEW u \in Users, AcquireSend(u) PROVE LockInv'
    BY <1>4 DEF AcquireSend
  <1>5. ASSUME NEW u \in Users, AcquireQuota(u) PROVE LockInv'
    BY <1>5 DEF AcquireQuota
  <1>6. ASSUME NEW u \in Users, RemoveQueued(u) PROVE LockInv'
    BY <1>6 DEF RemoveQueued
  <1>7. ASSUME NEW u \in Users, DisableReturns(u) \/ DisableFails(u) PROVE LockInv'
    BY <1>7 DEF DisableReturns, DisableFails, EndUser
  <1>8. ASSUME NEW m \in Uploaders, EndUpload(m), mpc[m] # "idle" PROVE LockInv'
    BY <1>8 DEF EndUpload
  <1>9. ASSUME NEW m \in Uploaders, StartUpload(m) \/ AcquireUpload(m) PROVE LockInv'
    BY <1>9 DEF StartUpload, AcquireUpload
  <1>10. ASSUME NEW m \in Uploaders,
                UploadLoad(m) \/ UploadCheck(m) \/ UploadList(m) \/ UploadFails(m)
         PROVE LockInv'
    BY <1>8, <1>10 DEF UploadLoad, UploadCheck, UploadList, UploadFails
  <1>11. ASSUME NEW m \in Uploaders, UploadPost(m) \/ AckOne(m) \/ AckDone(m)
         PROVE LockInv'
    BY <1>8, <1>11 DEF UploadPost, AckOne, AckDone
  <1>12. CASE UNCHANGED vars
    BY <1>12 DEF vars
  <1>13. QED
    BY <1>1, <1>2, <1>3, <1>4, <1>5, <1>6, <1>7, <1>9, <1>10, <1>11, <1>12
       DEF Next, Disable, Upload

LEMMA GenStep == TypeOK /\ GenInv /\ [Next]_vars => GenInv'
  <1> SUFFICES ASSUME TypeOK, GenInv, [Next]_vars PROVE GenInv'
    OBVIOUS
  <1> USE DEF TypeOK, GenInv, settingsVars, lockVars, cmdVars, userVars, uplVars, histVars
  <1>1. CASE UNCHANGED <<gen, userVars, cleared>>
    BY <1>1
  <1>2. ASSUME NEW u \in Users, BeginDisable(u) \/ EnableReturns(u) PROVE GenInv'
    BY <1>2 DEF BeginDisable, EnableReturns, SetEnabled
  <1>3. ASSUME NEW u \in Users,
               BeginEnable(u) \/ AcquireSend(u) \/ AcquireQuota(u) \/ RemoveQueued(u)
        PROVE GenInv'
    BY <1>3 DEF BeginEnable, AcquireSend, AcquireQuota, RemoveQueued
  <1>4. ASSUME NEW u \in Users, DisableReturns(u) \/ DisableFails(u) PROVE GenInv'
    BY <1>4 DEF DisableReturns, DisableFails, EndUser
  <1>5. ASSUME NEW c \in Commands, Command(c) \/ RecordFails(c)
        PROVE UNCHANGED <<gen, userVars, cleared>>
    BY <1>5 DEF Command, StartCommand, FinishCommand, RecordLoad, AcquireShared, RecordCheck,
                Enqueue, RecordRecheck, Rollback, RecordFails, EndRecord
  <1>6. ASSUME NEW m \in Uploaders, StartUpload(m) \/ Upload(m) \/ UploadFails(m)
        PROVE UNCHANGED <<gen, userVars, cleared>>
    BY <1>6 DEF StartUpload, Upload, AcquireUpload, UploadLoad, UploadCheck, UploadList,
                UploadPost, AckOne, AckDone, UploadFails, EndUpload
  <1>7. QED
    BY <1>1, <1>2, <1>3, <1>4, <1>5, <1>6 DEF Next, Disable, vars, ShowDisclosure

LEMMA DeleteStep == TypeOK /\ LockInv /\ DeleteInv /\ [Next]_vars => DeleteInv'
  <1> SUFFICES ASSUME TypeOK, LockInv, DeleteInv, [Next]_vars PROVE DeleteInv'
    OBVIOUS
  <1> USE DEF TypeOK, DeleteInv, ConsentHolds, settingsVars, lockVars, cmdVars,
              userVars, uplVars, histVars
  <1>1. ASSUME NEW c \in Commands, StartCommand(c) PROVE DeleteInv'
    BY <1>1 DEF StartCommand
  <1>2. ASSUME NEW c \in Commands,
               FinishCommand(c) \/ RecordLoad(c) \/ AcquireShared(c) \/ RecordCheck(c)
               \/ Enqueue(c) \/ RecordRecheck(c) \/ Rollback(c) \/ RecordFails(c)
        PROVE DeleteInv'
    BY <1>2 DEF FinishCommand, RecordLoad, AcquireShared, RecordCheck, Enqueue,
                RecordRecheck, Rollback, RecordFails, EndRecord
  <1>3. ASSUME NEW u \in Users, NEW v \in BOOLEAN, SetEnabled(v),
               UNCHANGED <<cmdVars, uplVars, accepted>>
        PROVE DeleteInv'
    <2>1. gen' = gen + 1
      BY <1>3, SetEnabledFacts
    <2>2. QED
      BY <1>3, <2>1
  <1>4. ASSUME NEW u \in Users, BeginDisable(u) \/ EnableReturns(u) PROVE DeleteInv'
    <2>1. CASE UNCHANGED <<enabled, gen, cmdVars, uplVars, accepted>>
      BY <2>1
    <2>2. QED
      BY <1>3, <1>4, <2>1 DEF BeginDisable, EnableReturns
  <1>5. ASSUME NEW u \in Users,
               BeginEnable(u) \/ Disable(u) \/ DisableFails(u)
        PROVE UNCHANGED <<enabled, gen, cmdVars, uplVars, accepted>>
    BY <1>5 DEF BeginEnable, Disable, AcquireSend, AcquireQuota, RemoveQueued,
                DisableReturns, DisableFails, EndUser
  <1>6. ASSUME NEW m \in Uploaders, StartUpload(m) \/ AcquireUpload(m) \/ UploadLoad(m)
               \/ UploadCheck(m) \/ UploadList(m) \/ UploadFails(m) \/ AckDone(m)
        PROVE DeleteInv'
    BY <1>6 DEF StartUpload, AcquireUpload, UploadLoad, UploadCheck, UploadList,
                UploadFails, AckDone, EndUpload
  <1>7. ASSUME NEW m \in Uploaders, UploadPost(m) PROVE DeleteInv'
    BY <1>7 DEF UploadPost
  <1>8. ASSUME NEW m \in Uploaders, AckOne(m) PROVE DeleteInv'
    BY <1>8 DEF AckOne
  <1>9. CASE UNCHANGED <<enabled, gen, cmdVars, uplVars, accepted>>
    BY <1>9
  <1>10. QED
    BY <1>1, <1>2, <1>4, <1>5, <1>6, <1>7, <1>8, <1>9
       DEF Next, Command, Upload, vars, ShowDisclosure

(***************************************************************************)
(* A recorder that passes its check has the current generation; cleared    *)
(* grows only when the queue is empty and both locks are held.             *)
(***************************************************************************)
LEMMA FreshStep == IInv /\ [Next]_vars => FreshInv'
  <1> SUFFICES ASSUME IInv, [Next]_vars PROVE FreshInv'
    OBVIOUS
  <1> USE DEF IInv, TypeOK, FreshInv, ClearedStaysCleared, NothingSentAfterDisable,
              settingsVars, lockVars, cmdVars, userVars, uplVars, histVars
  <1>1. ASSUME NEW c \in Commands, StartCommand(c) PROVE FreshInv'
    <2>1. cgen'[c] = cgen[c] \/ cgen'[c] = gen
      BY <1>1 DEF StartCommand
    <2>2. cgen'[c] >= cgen[c]
      BY <1>1, <2>1 DEF StartCommand, DeleteInv
    <2>3. QED
      BY <1>1, <2>2 DEF StartCommand
  <1>2. ASSUME NEW c \in Commands,
               FinishCommand(c) \/ RecordLoad(c) \/ AcquireShared(c) \/ Enqueue(c)
               \/ RecordRecheck(c) \/ Rollback(c) \/ RecordFails(c)
        PROVE FreshInv'
    BY <1>2 DEF FinishCommand, RecordLoad, AcquireShared, Enqueue, RecordRecheck,
                Rollback, RecordFails, EndRecord
  <1>3. ASSUME NEW c \in Commands, RecordCheck(c) PROVE FreshInv'
    BY <1>3 DEF RecordCheck, EndRecord, ConsentHolds, GenInv
  <1>4. ASSUME NEW u \in Users, DisableReturns(u) PROVE FreshInv'
    <2>1. /\ \A c \in Commands : cpc[c] \notin Recording
          /\ \A m \in Uploaders : mpc[m] \notin Sending
          /\ queue = {}
      BY <1>4, ConsentAssumption DEF DisableReturns, LockInv, Clearing
    <2>2. QED
      BY <1>4, <2>1 DEF DisableReturns, EndUser, Recording, Sending
  <1>5. ASSUME NEW u \in Users, RemoveQueued(u) PROVE FreshInv'
    BY <1>5 DEF RemoveQueued
  <1>6. ASSUME NEW u \in Users,
               BeginDisable(u) \/ AcquireSend(u) \/ AcquireQuota(u) \/ DisableFails(u)
               \/ BeginEnable(u) \/ EnableReturns(u)
        PROVE UNCHANGED <<queue, cmdVars, uplVars, cleared>>
    BY <1>6 DEF BeginDisable, AcquireSend, AcquireQuota, DisableFails, EndUser,
                BeginEnable, EnableReturns
  <1>7. ASSUME NEW m \in Uploaders, StartUpload(m) \/ AcquireUpload(m) \/ UploadLoad(m)
               \/ UploadCheck(m) \/ UploadFails(m) \/ UploadPost(m) \/ AckDone(m)
        PROVE FreshInv'
    BY <1>7 DEF StartUpload, AcquireUpload, UploadLoad, UploadCheck, UploadFails,
                UploadPost, AckDone, EndUpload
  <1>8. ASSUME NEW m \in Uploaders, UploadList(m) PROVE FreshInv'
    BY <1>8 DEF UploadList, EndUpload
  <1>9. ASSUME NEW m \in Uploaders, AckOne(m) PROVE FreshInv'
    BY <1>9 DEF AckOne
  <1>10. CASE UNCHANGED <<queue, cmdVars, uplVars, cleared>>
    BY <1>10
  <1>11. QED
    BY <1>1, <1>2, <1>3, <1>4, <1>5, <1>6, <1>7, <1>8, <1>9, <1>10
       DEF Next, Command, Disable, Upload, vars, ShowDisclosure

LEMMA Inductive == Spec => []IInv
  <1>1. IInv /\ [Next]_vars => IInv'
    BY TypeStep, LockStep, GenStep, DeleteStep, FreshStep DEF IInv
  <1>2. QED
    BY InitIInv, <1>1, PTL DEF Spec

(***************************************************************************)
(* For any number of commands, shells and workers: once a disable has      *)
(* returned success, no event of an earlier command is in the queue.       *)
(***************************************************************************)
THEOREM NoEventComesBack == Spec => []ClearedStaysCleared
  <1>1. IInv => ClearedStaysCleared
    BY DEF IInv, FreshInv
  <1>2. QED
    BY Inductive, <1>1, PTL

(***************************************************************************)
(* ... and none is put into a report request.                              *)
(***************************************************************************)
THEOREM NoEventIsSentLate == Spec => []NothingSentAfterDisable
  <1>1. IInv => NothingSentAfterDisable
    BY DEF IInv, FreshInv
  <1>2. QED
    BY Inductive, <1>1, PTL

(***************************************************************************)
(* The queue is never cleared under a recorder that is between its consent *)
(* check and its re-check, nor under an upload.                            *)
(***************************************************************************)
ClearExcludesOthers ==
    \A u \in Users : upc[u] = "clear" =>
        /\ \A c \in Commands : cpc[c] \notin Recording
        /\ \A m \in Uploaders : mpc[m] \notin Sending
        /\ \A v \in Users \ {u} : upc[v] \notin Clearing

(***************************************************************************)
(* The queue is cleared with no recorder past its lock and no upload.      *)
(***************************************************************************)
THEOREM ClearIsExclusive == Spec => []ClearExcludesOthers
  <1>1. IInv => ClearExcludesOthers
    BY ConsentAssumption
       DEF IInv, TypeOK, LockInv, ClearExcludesOthers, Recording, Sending, Clearing
  <1>2. QED
    BY Inductive, <1>1, PTL

(***************************************************************************)
(* A queued event is deleted only once the service accepted it, once its   *)
(* consent is over, or by a disable.                                       *)
(***************************************************************************)
THEOREM NoEventIsLost == Spec => NoSilentLoss
  <1>1. ASSUME IInv, [Next]_vars PROVE DeletedForReason
    <2> USE <1>1 DEF IInv, TypeOK
    <2>1. ASSUME NEW c \in Commands, Command(c) \/ RecordFails(c), queue' # queue
          PROVE queue \subseteq queue' \/ (queue' = queue \ {c} /\ ~ConsentHolds(c))
      <3>1. CASE Rollback(c)
        BY <3>1 DEF Rollback, DeleteInv
      <3>2. CASE Enqueue(c)
        BY <3>2 DEF Enqueue
      <3>3. QED
        BY <2>1, <3>1, <3>2
           DEF Command, StartCommand, FinishCommand, RecordLoad, AcquireShared, RecordCheck,
               RecordRecheck, RecordFails, EndRecord
    <2>2. ASSUME NEW u \in Users, RemoveQueued(u) PROVE quotaEx # NoOne
      BY <2>2, ConsentAssumption DEF RemoveQueued, LockInv
    <2>3. ASSUME NEW u \in Users, BeginDisable(u) \/ Disable(u) \/ DisableFails(u)
                 \/ BeginEnable(u) \/ EnableReturns(u), queue' # queue
          PROVE quotaEx # NoOne
      BY <2>2, <2>3 DEF BeginDisable, Disable, AcquireSend, AcquireQuota, DisableReturns,
         DisableFails, EndUser, BeginEnable, EnableReturns
    <2>4. ASSUME NEW m \in Uploaders, StartUpload(m) \/ Upload(m) \/ UploadFails(m),
                 queue' # queue
          PROVE queue \ queue' \subseteq accepted
      <3>1. CASE AckOne(m)
        BY <3>1 DEF AckOne, DeleteInv
      <3>2. QED
        BY <2>4, <3>1 DEF StartUpload, Upload, AcquireUpload, UploadLoad, UploadCheck,
           UploadList, UploadPost, AckDone, UploadFails, EndUpload
    <2>5. QED
      BY <2>1, <2>3, <2>4 DEF Next, ShowDisclosure, vars, DeletedForReason
  <1>2. IInv /\ [Next]_vars => [DeletedForReason]_queue
    BY <1>1
  <1>3. QED
    BY Inductive, <1>2, PTL DEF NoSilentLoss, Spec

\* With the switch off and no disable under way no recorder is past its check.
QuietInv ==
    (~enabled /\ ~aborted /\ \A u \in Users : upc[u] \in {"idle", "enable"})
        => queue = {} /\ \A c \in Commands : cpc[c] # "commit"

LEMMA QuietStep == IInv /\ QuietInv /\ [Next]_vars => QuietInv'
  <1> SUFFICES ASSUME IInv, QuietInv, [Next]_vars PROVE QuietInv'
    OBVIOUS
  <1> USE DEF IInv, TypeOK, QuietInv, settingsVars, lockVars, cmdVars, userVars,
              uplVars, histVars
  <1>1. ASSUME NEW c \in Commands, Command(c) \/ RecordFails(c) PROVE QuietInv'
    <2>1. UNCHANGED <<enabled, aborted, upc>>
      BY <1>1 DEF Command, StartCommand, FinishCommand, RecordLoad, AcquireShared,
         RecordCheck, Enqueue, RecordRecheck, Rollback, RecordFails, EndRecord
    <2>2. CASE RecordCheck(c)
      BY <2>1, <2>2 DEF RecordCheck, EndRecord, ConsentHolds
    <2>3. CASE Enqueue(c)
      BY <2>1, <2>3 DEF Enqueue
    <2>4. CASE RecordRecheck(c) \/ Rollback(c) \/ RecordFails(c)
      BY <2>1, <2>4 DEF RecordRecheck, Rollback, RecordFails, EndRecord
    <2>5. CASE StartCommand(c) \/ FinishCommand(c) \/ RecordLoad(c) \/ AcquireShared(c)
      BY <2>1, <2>5 DEF StartCommand, FinishCommand, RecordLoad, AcquireShared
    <2>6. QED
      BY <1>1, <2>2, <2>3, <2>4, <2>5 DEF Command
  <1>2. ASSUME NEW u \in Users, DisableReturns(u) PROVE QuietInv'
    <2>1. \A c \in Commands : cpc[c] \notin Recording
      BY <1>2, ConsentAssumption DEF DisableReturns, LockInv
    <2>2. QED
      BY <1>2, <2>1 DEF DisableReturns, EndUser, Recording
  <1>3. ASSUME NEW u \in Users, DisableFails(u) PROVE QuietInv'
    BY <1>3 DEF DisableFails, EndUser
  <1>4. ASSUME NEW u \in Users, BeginDisable(u) \/ AcquireSend(u) \/ AcquireQuota(u)
        PROVE QuietInv'
    BY <1>4 DEF BeginDisable, AcquireSend, AcquireQuota
  <1>5. ASSUME NEW u \in Users, RemoveQueued(u) PROVE QuietInv'
    BY <1>5 DEF RemoveQueued
  <1>6. ASSUME NEW u \in Users, BeginEnable(u) PROVE QuietInv'
    BY <1>6 DEF BeginEnable
  <1>7. ASSUME NEW u \in Users, EnableReturns(u) PROVE QuietInv'
    <2>1. CASE SetEnabled(TRUE)
      <3>1. enabled'
        BY <2>1, Zenon DEF SetEnabled
      <3>2. QED
        BY <3>1, Zenon
    <2>2. CASE UNCHANGED <<enabled, gen>>
      BY <1>7, <2>2 DEF EnableReturns
    <2>3. QED
      BY <1>7, <2>1, <2>2 DEF EnableReturns
  <1>8. ASSUME NEW m \in Uploaders, StartUpload(m) \/ Upload(m) \/ UploadFails(m)
        PROVE QuietInv'
    <2>1. UNCHANGED <<enabled, aborted, upc, cpc>> /\ queue' \subseteq queue
      BY <1>8 DEF StartUpload, Upload, AcquireUpload, UploadLoad, UploadCheck,
         UploadList, UploadPost, AckOne, AckDone, UploadFails, EndUpload
    <2>2. QED
      BY <2>1
  <1>9. CASE ShowDisclosure \/ UNCHANGED vars
    BY <1>9 DEF ShowDisclosure, vars
  <1>10. QED
    BY <1>1, <1>2, <1>3, <1>4, <1>5, <1>6, <1>7, <1>8, <1>9 DEF Next, Disable

(***************************************************************************)
(* Disabled means empty, for any number of concurrent disables, enables,   *)
(* recorders and uploads.                                                  *)
(***************************************************************************)
THEOREM DisabledIsEmpty == Spec => []DisabledQueueIsEmpty
  <1>1. Init => QuietInv
    BY DEF Init, QuietInv
  <1>2. QuietInv => DisabledQueueIsEmpty
    BY DEF QuietInv, DisabledQueueIsEmpty
  <1>3. QED
    BY <1>1, <1>2, Inductive, QuietStep, PTL DEF Spec

(***************************************************************************)
(* So a disable that returned success is final.                            *)
(***************************************************************************)
THEOREM DisableIsFinal == Spec => []DisabledIsSilent
  BY NoEventComesBack, NoEventIsSentLate, DisabledIsEmpty, PTL DEF DisabledIsSilent

-----------------------------------------------------------------------------
(***************************************************************************)
(* Refinement.  Every step is a step of ConsentPromise or leaves its       *)
(* variables alone: the return of a disable is Withdraw, a rename is       *)
(* Accept, listing and posting are Send.                                   *)
(***************************************************************************)
\* A command that has not started has no event anywhere.
UnknownInv ==
    \A c \in Commands : cpc[c] = "idle" =>
        c \notin queue /\ \A m \in Uploaders : c \notin batch[m]

LEMMA UnknownStep == IInv /\ UnknownInv /\ [Next]_vars => UnknownInv'
  <1> SUFFICES ASSUME IInv, UnknownInv, [Next]_vars PROVE UnknownInv'
    OBVIOUS
  <1> USE DEF IInv, TypeOK, UnknownInv, settingsVars, lockVars, cmdVars, userVars,
              uplVars, histVars
  <1>1. ASSUME NEW c \in Commands, Command(c) \/ RecordFails(c) PROVE UnknownInv'
    BY <1>1 DEF Command, StartCommand, FinishCommand, RecordLoad, AcquireShared,
       RecordCheck, Enqueue, RecordRecheck, Rollback, RecordFails, EndRecord
  <1>2. ASSUME NEW u \in Users, BeginDisable(u) \/ Disable(u) \/ DisableFails(u)
               \/ BeginEnable(u) \/ EnableReturns(u)
        PROVE UnknownInv'
    BY <1>2 DEF BeginDisable, Disable, AcquireSend, AcquireQuota, RemoveQueued,
       DisableReturns, DisableFails, EndUser, BeginEnable, EnableReturns
  <1>3. ASSUME NEW m \in Uploaders, StartUpload(m) \/ AcquireUpload(m) \/ UploadLoad(m)
               \/ UploadCheck(m) \/ UploadFails(m) \/ AckDone(m) \/ AckOne(m)
        PROVE UnknownInv'
    BY <1>3 DEF StartUpload, AcquireUpload, UploadLoad, UploadCheck, UploadFails,
       AckOne, AckDone, EndUpload
  <1>4. ASSUME NEW m \in Uploaders, UploadList(m) PROVE UnknownInv'
    BY <1>4 DEF UploadList, EndUpload
  <1>5. ASSUME NEW m \in Uploaders, UploadPost(m) PROVE UnknownInv'
    BY <1>5 DEF UploadPost
  <1>6. CASE ShowDisclosure \/ UNCHANGED vars
    BY <1>6 DEF ShowDisclosure, vars
  <1>7. QED
    BY <1>1, <1>2, <1>3, <1>4, <1>5, <1>6 DEF Next, Upload

LEMMA PromiseStep ==
    IInv /\ UnknownInv /\ [Next]_vars => [Promise!Next]_(Promise!promiseVars)
  <1> SUFFICES ASSUME IInv, UnknownInv, [Next]_vars
               PROVE  [Promise!Next]_(Promise!promiseVars)
    OBVIOUS
  <1> USE DEF IInv, TypeOK, settingsVars, lockVars, cmdVars, userVars, uplVars, histVars,
              Promise!promiseVars
  <1>1. ASSUME NEW c \in Commands, StartCommand(c) PROVE [Promise!Next]_(Promise!promiseVars)
    <2>1. UNCHANGED <<queue, Outgoing, cleared>>
      BY <1>1 DEF StartCommand, Outgoing
    <2>2. c \notin queue \cup Outgoing
      BY <1>1 DEF StartCommand, UnknownInv, Outgoing
    <2>3. cgen'[c] \in Nat /\ cgen' = [cgen EXCEPT ![c] = cgen'[c]]
      BY <1>1 DEF StartCommand
    <2>4. QED
      BY <2>1, <2>2, <2>3 DEF Promise!Next, Promise!Tag
  <1>2. ASSUME NEW c \in Commands, Command(c) \/ RecordFails(c), ~StartCommand(c)
        PROVE [Promise!Next]_(Promise!promiseVars)
    <2>1. UNCHANGED <<Outgoing, cleared, cgen>>
      BY <1>2 DEF Command, FinishCommand, RecordLoad, AcquireShared, RecordCheck, Enqueue,
         RecordRecheck, Rollback, RecordFails, EndRecord, Outgoing
    <2>2. CASE Enqueue(c)
      BY <2>1, <2>2 DEF Enqueue, FreshInv, Promise!Next, Promise!Accept
    <2>3. CASE Rollback(c)
      BY <2>1, <2>3 DEF Rollback, Promise!Next, Promise!Drop
    <2>4. CASE UNCHANGED queue
      BY <2>1, <2>4
    <2>5. QED
      BY <1>2, <2>2, <2>3, <2>4 DEF Command, FinishCommand, RecordLoad, AcquireShared,
         RecordCheck, RecordRecheck, RecordFails, EndRecord
  <1>3. ASSUME NEW u \in Users, RemoveQueued(u) PROVE [Promise!Next]_(Promise!promiseVars)
    <2>1. UNCHANGED <<Outgoing, cleared, cgen>>
      BY <1>3 DEF RemoveQueued, Outgoing
    <2>2. QED
      BY <1>3, <2>1 DEF RemoveQueued, Promise!Next, Promise!Drop
  <1>4. ASSUME NEW u \in Users, DisableReturns(u) PROVE [Promise!Next]_(Promise!promiseVars)
    <2>1. UNCHANGED <<queue, Outgoing, cgen>>
      BY <1>4 DEF DisableReturns, EndUser, Outgoing
    <2>2. \A m \in Uploaders : mpc[m] # "post"
      BY <1>4, ConsentAssumption DEF DisableReturns, LockInv, Clearing, Sending
    <2>3. queue = {} /\ Outgoing = {}
      BY <1>4, <2>2 DEF DisableReturns, Outgoing
    <2>4. cleared' = cleared \/ (cleared' \in Nat /\ cleared' > cleared)
      BY <1>4 DEF DisableReturns
    <2>5. QED
      BY <2>1, <2>3, <2>4 DEF Promise!Next, Promise!Withdraw
  <1>5. ASSUME NEW u \in Users, BeginDisable(u) \/ AcquireSend(u) \/ AcquireQuota(u)
               \/ DisableFails(u) \/ BeginEnable(u) \/ EnableReturns(u)
        PROVE UNCHANGED <<queue, Outgoing, cgen, cleared>>
    BY <1>5 DEF BeginDisable, AcquireSend, AcquireQuota, DisableFails, EndUser,
       BeginEnable, EnableReturns, Outgoing
  <1>6. ASSUME NEW m \in Uploaders, StartUpload(m) \/ AcquireUpload(m) \/ UploadLoad(m)
               \/ UploadCheck(m) \/ UploadFails(m) \/ AckDone(m) \/ UploadPost(m)
        PROVE [Promise!Next]_(Promise!promiseVars)
    <2>1. UNCHANGED <<queue, cgen, cleared>>
      BY <1>6 DEF StartUpload, AcquireUpload, UploadLoad, UploadCheck, UploadFails,
         AckDone, UploadPost, EndUpload
    <2>2. Outgoing' \subseteq Outgoing
      BY <1>6 DEF StartUpload, AcquireUpload, UploadLoad, UploadCheck, UploadFails,
         AckDone, UploadPost, EndUpload, Outgoing
    <2>3. QED
      BY <2>1, <2>2 DEF Promise!Next, Promise!Send
  <1>7. ASSUME NEW m \in Uploaders, UploadList(m) PROVE [Promise!Next]_(Promise!promiseVars)
    <2>1. UNCHANGED <<queue, cgen, cleared>>
      BY <1>7 DEF UploadList, EndUpload
    <2>2. Outgoing' \subseteq Outgoing \cup queue
      BY <1>7 DEF UploadList, EndUpload, Outgoing
    <2>3. QED
      BY <2>1, <2>2 DEF Promise!Next, Promise!Send
  <1>8. ASSUME NEW m \in Uploaders, AckOne(m) PROVE [Promise!Next]_(Promise!promiseVars)
    <2>1. UNCHANGED <<Outgoing, cgen, cleared>>
      BY <1>8 DEF AckOne, Outgoing
    <2>2. QED
      BY <1>8, <2>1 DEF AckOne, Promise!Next, Promise!Drop
  <1>9. CASE ShowDisclosure \/ UNCHANGED vars
    BY <1>9 DEF ShowDisclosure, vars, Outgoing
  <1>10. QED
    BY <1>1, <1>2, <1>3, <1>4, <1>5, <1>6, <1>7, <1>8, <1>9 DEF Next, Disable, Upload

(***************************************************************************)
(* The processes and their locks implement the promise in which a disable  *)
(* is one atomic step.                                                     *)
(***************************************************************************)
THEOREM Refinement == Spec => DisableIsAtomic
  <1>1. Init => Promise!Init /\ UnknownInv
    BY DEF Init, Promise!Init, Outgoing, UnknownInv
  <1>2. QED
    BY <1>1, Inductive, UnknownStep, PromiseStep, PTL DEF Spec, DisableIsAtomic, Promise!Spec

-----------------------------------------------------------------------------
(***************************************************************************)
(* TelemetryDelivery.                                                      *)
(***************************************************************************)

R(e) == RouteOf[AccountOf[e]]

\* Where the process is, and what it has in its hands there.
PlaceInv ==
    /\ pc \in {"idle", "clean", "prune", "resolve", "list", "ready", "sent", "ack"}
    /\ pc # "idle" => me \in Accounts
    /\ pc = "idle" => me = None
    /\ pc \in {"list", "ready", "sent", "ack"} => job = "upload"
    /\ tried => job = "upload" /\ me \in Accounts
    /\ report # {} => pc \in {"sent", "ack"}
    /\ pc \in {"clean", "resolve", "idle"} => job = "clean"
    /\ \A e \in report : AccountOf[e] = me
    /\ ackIDs \subseteq report /\ report \subseteq Events
    /\ recent \subseteq queued /\ queued \subseteq Events
    /\ snap \subseteq queued
    /\ snap # {} => pc \in {"prune", "ready"}

\* The marker of everything that was sent and is still there.
MarkInv ==
    /\ attempt \in [Routes -> {"none", "recent", "due"}]
    /\ \A e \in recent : attempt[R(e)] = "recent"
    /\ tried => attempt[MyRoute] = "recent"

\* What of that the process knows about.
KnownInv ==
    \A e \in recent : R(e) = MyRoute =>
        /\ job = "upload" /\ pc \in {"prune", "ready"} => e \in snap
        /\ tried => pc \notin {"list", "prune", "ready"}
        /\ pc \in {"sent", "ack"} => e \in report
        /\ pc = "ack" /\ ~partial => e \in ackIDs

DeliveryInv == PlaceInv /\ MarkInv /\ KnownInv

-----------------------------------------------------------------------------
LEMMA RouteFacts ==
    /\ \A e \in Events : AccountOf[e] \in Accounts /\ R(e) \in Routes
    /\ \A a \in Accounts : RouteOf[a] \in Routes
    /\ None \notin Accounts
  BY TelemetryDeliveryAssumption DEF R

LEMMA EndStep ==
    ASSUME DeliveryInv, End, UNCHANGED <<queued, recent>>,
           attempt' \in [Routes -> {"none", "recent", "due"}],
           \A e \in recent : attempt'[R(e)] = "recent"
    PROVE  DeliveryInv'
  BY DEF DeliveryInv, PlaceInv, MarkInv, KnownInv, End, R

LEMMA InitDelivery == DeliveryInit => DeliveryInv
  BY DEF DeliveryInit, DeliveryInv, PlaceInv, MarkInv, KnownInv

LEMMA SendIsLate ==
    ASSUME DeliveryInv, Send
    PROVE  \A e \in recent : R(e) # MyRoute
<1>1. pc = "ready" /\ me \in Accounts /\ (tried \/ attempt[MyRoute] # "recent")
  BY DEF DeliveryInv, PlaceInv, Send, Due
<1> QED
  BY <1>1 DEF DeliveryInv, MarkInv, KnownInv

LEMMA NextDelivery ==
    ASSUME DeliveryInv, DeliveryNext
    PROVE  DeliveryInv'
<1> USE RouteFacts
<1>1. ASSUME NEW e \in Events, EnqueueEvent(e) PROVE DeliveryInv'
  BY <1>1 DEF DeliveryInv, PlaceInv, MarkInv, KnownInv, EnqueueEvent, localVars, R, MyRoute
<1>2. ASSUME NEW e \in Events, Age(e) PROVE DeliveryInv'
  BY <1>2 DEF DeliveryInv, PlaceInv, MarkInv, KnownInv, Age, localVars, R, MyRoute
<1>3. ASSUME Tick PROVE DeliveryInv'
  <2>1. recent' = {} /\ pc = "idle" /\ UNCHANGED <<queued, pc, localVars>>
        /\ attempt' \in [Routes -> {"none", "recent", "due"}]
    BY <1>3 DEF Tick
  <2> QED
    BY <2>1 DEF DeliveryInv, PlaceInv, MarkInv, KnownInv, localVars
<1>4. ASSUME NEW a \in Accounts, Start(a) PROVE DeliveryInv'
  BY <1>4 DEF DeliveryInv, PlaceInv, MarkInv, KnownInv, Start, queueVars, R, MyRoute
<1>5. ASSUME Stop \/ Lost \/ NotDue PROVE DeliveryInv'
  BY <1>5, EndStep DEF Stop, Lost, NotDue, queueVars, DeliveryInv, MarkInv
<1>6. ASSUME List PROVE DeliveryInv'
  <2>1. /\ pc' = "prune" /\ UNCHANGED <<queued, recent, attempt, me, job, tried, report, ackIDs, partial>>
        /\ snap' \subseteq queued
        /\ pc = "list" => snap' = Queued(MyRoute)
        /\ pc \in {"clean", "list"}
    BY <1>6 DEF List, Queued, queueVars
  <2>2. \A e \in recent : pc = "list" /\ R(e) = MyRoute => e \in snap'
    BY <2>1 DEF DeliveryInv, PlaceInv, Queued, R
  <2> QED
    BY <2>1, <2>2 DEF DeliveryInv, PlaceInv, MarkInv, KnownInv, R, MyRoute
<1>7. ASSUME DropOld \/ DropOldest PROVE DeliveryInv'
  <2>1. PICK x : Remove(x) /\ snap' = snap \ {x}
    BY <1>7 DEF DropOld, DropOldest
  <2>2. UNCHANGED <<attempt, pc, me, job, tried, report, ackIDs, partial>> /\ pc = "prune"
    BY <1>7 DEF DropOld, DropOldest
  <2> QED
    BY <2>1, <2>2 DEF DeliveryInv, PlaceInv, MarkInv, KnownInv, Remove, R, MyRoute
<1>8. ASSUME PruneDone PROVE DeliveryInv'
  <2>1. /\ UNCHANGED <<queued, recent, attempt, me, job, tried, report, ackIDs, partial>> /\ pc = "prune"
        /\ \/ job = "clean" /\ pc' = "clean" /\ snap' = {}
           \/ job = "upload" /\ pc' = "ready" /\ snap' = snap
    BY <1>8 DEF PruneDone, queueVars
  <2> QED
    BY <2>1 DEF DeliveryInv, PlaceInv, MarkInv, KnownInv, R, MyRoute
<1>9. ASSUME DropOldestOfAll PROVE DeliveryInv'
  <2>1. PICK x : Remove(x)
    BY <1>9 DEF DropOldestOfAll
  <2>2. UNCHANGED <<attempt, pc, me, job, snap, tried, report, ackIDs, partial>> /\ pc = "clean"
    BY <1>9 DEF DropOldestOfAll
  <2> QED
    BY <2>1, <2>2 DEF DeliveryInv, PlaceInv, MarkInv, KnownInv, Remove, R, MyRoute
<1>10. ASSUME CleanupDone PROVE DeliveryInv'
  <2>1. /\ UNCHANGED <<queued, recent, attempt, me, job, tried, report, ackIDs, partial>>
        /\ pc \in {"clean", "prune"} /\ job = "clean" /\ pc' = "resolve" /\ snap' = {}
    BY <1>10 DEF CleanupDone, queueVars
  <2> QED
    BY <2>1 DEF DeliveryInv, PlaceInv, MarkInv, KnownInv, R, MyRoute
<1>11. ASSUME Unresolved PROVE DeliveryInv'
  <2>1. UNCHANGED <<queued, recent>> /\ End
    BY <1>11 DEF Unresolved, queueVars
  <2>2. /\ attempt' \in [Routes -> {"none", "recent", "due"}]
        /\ \A r \in Routes : attempt[r] = "recent" => attempt'[r] = "recent"
    BY <1>11 DEF Unresolved, DeliveryInv, MarkInv
  <2> QED
    BY <2>1, <2>2, EndStep DEF DeliveryInv, MarkInv, PlaceInv
<1>12. ASSUME Resolved PROVE DeliveryInv'
  BY <1>12 DEF DeliveryInv, PlaceInv, MarkInv, KnownInv, Resolved, queueVars, R, MyRoute
<1>13. ASSUME Drained PROVE DeliveryInv'
  <2>1. /\ pc = "ready" /\ snap = {} /\ End /\ UNCHANGED <<queued, recent>>
        /\ attempt' = [attempt EXCEPT ![MyRoute] = "none"]
    BY <1>13 DEF Drained, queueVars
  <2>2. \A e \in recent : R(e) # MyRoute
    BY <2>1 DEF DeliveryInv, PlaceInv, KnownInv
  <2>3. /\ attempt' \in [Routes -> {"none", "recent", "due"}]
        /\ \A e \in recent : attempt'[R(e)] = "recent"
    BY <2>1, <2>2 DEF DeliveryInv, MarkInv, PlaceInv
  <2> QED
    BY <2>1, <2>3, EndStep
<1>14. ASSUME NothingMine PROVE DeliveryInv'
  <2>1. UNCHANGED <<queued, recent>> /\ End
    BY <1>14 DEF NothingMine, queueVars
  <2>2. /\ attempt' \in [Routes -> {"none", "recent", "due"}]
        /\ \A r \in Routes : attempt[r] = "recent" => attempt'[r] = "recent"
    BY <1>14 DEF NothingMine, DeliveryInv, MarkInv
  <2> QED
    BY <2>1, <2>2, EndStep DEF DeliveryInv, MarkInv, PlaceInv
<1>15. ASSUME Send PROVE DeliveryInv'
  <2>1. /\ pc = "ready" /\ pc' = "sent" /\ tried' = TRUE /\ snap' = {}
        /\ UNCHANGED <<queued, me, job, ackIDs, partial>>
        /\ report' \subseteq Mine /\ recent' = recent \cup report'
        /\ attempt' = [attempt EXCEPT ![MyRoute] = IF tried THEN @ ELSE "recent"]
    BY <1>15 DEF Send, FirstOf
  <2>2. me \in Accounts /\ MyRoute \in Routes /\ job = "upload" /\ MyRoute' = MyRoute
    BY <2>1 DEF DeliveryInv, PlaceInv, MyRoute
  <2>3. \A e \in report' : AccountOf[e] = me /\ R(e) = MyRoute /\ e \in queued
    BY <2>1 DEF DeliveryInv, PlaceInv, Mine, R, MyRoute
  <2>4. \A e \in recent : R(e) # MyRoute
    BY <1>15, SendIsLate
  <2>5. PlaceInv'
    BY <2>1, <2>2, <2>3 DEF DeliveryInv, PlaceInv
  <2>6. attempt[MyRoute] = "recent" \/ ~tried
    BY <2>2 DEF DeliveryInv, MarkInv
  <2>7. /\ attempt' \in [Routes -> {"none", "recent", "due"}]
        /\ attempt'[MyRoute] = "recent"
        /\ \A r \in Routes : r # MyRoute => attempt'[r] = attempt[r]
    BY <2>1, <2>2, <2>6 DEF DeliveryInv, MarkInv
  <2>8. MarkInv'
    <3>1. \A e \in recent' : attempt'[R(e)] = "recent"
      BY <2>1, <2>3, <2>4, <2>7 DEF DeliveryInv, MarkInv, PlaceInv
    <3> QED
      BY <3>1, <2>2, <2>7 DEF MarkInv
  <2>9. KnownInv'
    BY <2>1, <2>2, <2>4 DEF KnownInv
  <2> QED
    BY <2>5, <2>8, <2>9 DEF DeliveryInv
<1>16. ASSUME NEW failed \in SUBSET report, Answered(failed) PROVE DeliveryInv'
  <2>1. /\ UNCHANGED <<queued, recent, attempt, me, job, snap, tried, report>>
        /\ pc = "sent" /\ pc' = "ack" /\ ackIDs' = report \ failed /\ (~partial' => failed = {})
    BY <1>16 DEF Answered
  <2> QED
    BY <2>1 DEF DeliveryInv, PlaceInv, MarkInv, KnownInv, R, MyRoute
<1>17. ASSUME Ack PROVE DeliveryInv'
  <2>1. PICK x : Remove(x) /\ ackIDs' = ackIDs \ {x}
    BY <1>17 DEF Ack
  <2>2. UNCHANGED <<attempt, pc, me, job, snap, tried, report, partial>> /\ pc = "ack"
    BY <1>17 DEF Ack
  <2> QED
    BY <2>1, <2>2 DEF DeliveryInv, PlaceInv, MarkInv, KnownInv, Remove, R, MyRoute
<1>18. ASSUME ReportDone PROVE DeliveryInv'
  <2>1. /\ UNCHANGED <<queued, recent, attempt>> /\ pc = "ack" /\ ackIDs = {}
        /\ \/ End
           \/ /\ ~partial /\ pc' = "list" /\ report' = {}
              /\ UNCHANGED <<me, job, snap, tried, ackIDs, partial>>
    BY <1>18 DEF ReportDone, queueVars
  <2>2. CASE End
    BY <2>1, <2>2, EndStep DEF DeliveryInv, MarkInv
  <2>3. CASE ~End
    BY <2>1, <2>3 DEF DeliveryInv, PlaceInv, MarkInv, KnownInv, R, MyRoute
  <2> QED
    BY <2>2, <2>3
<1> QED
  BY <1>1, <1>2, <1>3, <1>4, <1>5, <1>6, <1>7, <1>8, <1>9, <1>10, <1>11, <1>12, <1>13,
     <1>14, <1>15, <1>16, <1>17, <1>18 DEF DeliveryNext, Proceed

-----------------------------------------------------------------------------
(***************************************************************************)
(* What is invariant: the whereabouts of the process, the markers, and     *)
(* what the lists hold of the queue.                                       *)
(***************************************************************************)
THEOREM DeliveryInductive == DeliverySpec => []DeliveryInv
<1>1. DeliveryInv /\ UNCHANGED deliveryVars => DeliveryInv'
  BY DEF DeliveryInv, PlaceInv, MarkInv, KnownInv, MyRoute, deliveryVars, queueVars, localVars
<1> QED
  BY <1>1, InitDelivery, NextDelivery, PTL DEF DeliverySpec

(***************************************************************************)
(* A report holds the account's own events, and nothing that was reported  *)
(* and is still queued is reported again within the hour: a report is sent *)
(* when the marker of the route is not fresh, and then nothing of the      *)
(* route was sent within the hour, or it is one more of the same process,  *)
(* which has removed what it sent before.                                  *)
(***************************************************************************)
THEOREM Rested == DeliverySpec => ReportsAreDue
<1>1. ASSUME DeliveryInv, [DeliveryNext]_deliveryVars, pc' = "sent", pc # "sent"
      PROVE  \A e \in report' : AccountOf[e] = me /\ e \notin recent
  <2>1. Send
    BY <1>1 DEF DeliveryNext, Proceed, EnqueueEvent, Age, Tick, Start, Stop, List, DropOld,
         DropOldest, PruneDone, DropOldestOfAll, CleanupDone, Unresolved, Resolved,
         Drained, NotDue, NothingMine, Lost, Answered, Ack, ReportDone, End, deliveryVars, localVars
  <2>2. \A e \in report' : AccountOf[e] = me
    BY <2>1 DEF Send, FirstOf, Mine
  <2>3. \A e \in recent : R(e) # MyRoute
    BY <1>1, <2>1, SendIsLate
  <2> QED
    BY <2>2, <2>3 DEF R, MyRoute
<1>2. DeliveryInv /\ [DeliveryNext]_deliveryVars =>
        [pc' = "sent" /\ pc # "sent" =>
           \A e \in report' : AccountOf[e] = me /\ e \notin recent]_deliveryVars
  BY <1>1
<1> QED
  BY <1>2, DeliveryInductive, PTL DEF DeliverySpec, ReportsAreDue

-----------------------------------------------------------------------------
(***************************************************************************)
(* The quota.  The lists that the process holds are part of the queue, and *)
(* what it takes for acknowledged was acknowledged.                        *)
(***************************************************************************)
CauseInv ==
    /\ all \subseteq queued
    /\ all # {} => job = "clean" /\ pc \in {"clean", "prune"}
    /\ \A e \in all : R(e) \notin todo
    /\ pc = "prune" /\ job = "clean" => at \in todo /\ \A e \in snap : R(e) = at
    /\ ackIDs \subseteq acknowledged
    /\ ackIDs # {} => pc = "ack"

Less == {p \in Nat \X Nat : p[1] < p[2]}

LEMMA LessWellFounded == IsWellFoundedOn(Less, Nat)
<1>1. Less = OpToRel(<, Nat)
  BY Zenon DEF Less, OpToRel
<1> QED
  BY <1>1, NatLessThanWellFounded, Zenon

LEMMA OldestIn ==
    ASSUME NEW S \in SUBSET Events, S # {}
    PROVE  Oldest(S) \in S /\ \A f \in S : Oldest(S) <= f
<1>1. S \subseteq Nat
  BY TelemetryDeliveryAssumption
<1>2. PICK x \in S : \A y \in S : ~(<<y, x>> \in Less)
  BY <1>1, WFMin, LessWellFounded, Zenon
<1>3. \A y \in S : x <= y
  <2>1. TAKE y \in S
  <2>2. x \in Nat /\ y \in Nat
    BY <1>1
  <2>3. y < x => <<y, x>> \in Less
    BY <2>2 DEF Less
  <2> QED
    BY <1>2, <2>2, <2>3
<1> QED
  BY <1>3 DEF Oldest

\* Where more than the quota is listed, the quota is left without the oldest of the list.
LEMMA EnoughLeft ==
    ASSUME NEW S \in SUBSET queued, queued \subseteq Events, NEW e \in S,
           \A f \in S : e <= f, Cardinality(S) > Quota
    PROVE  Cardinality({f \in queued \ {e} : f > e}) >= Quota
<1> DEFINE newer == {f \in queued \ {e} : f > e}
<1>1. IsFiniteSet(S) /\ IsFiniteSet(newer)
  <2>1. IsFiniteSet(queued)
    BY TelemetryDeliveryAssumption, FS_Subset
  <2>2. newer \subseteq queued
    OBVIOUS
  <2> QED
    BY <2>1, <2>2, FS_Subset
<1>2. S \ {e} \subseteq newer
  <2>1. \A f \in S : f \in Nat
    BY TelemetryDeliveryAssumption
  <2> QED
    BY <2>1
<1>3. Cardinality(S \ {e}) = Cardinality(S) - 1
  BY <1>1, FS_RemoveElement
<1>4. Cardinality(S \ {e}) <= Cardinality(newer)
  BY <1>1, <1>2, FS_Subset
<1>5. Cardinality(S) \in Nat /\ Cardinality(newer) \in Nat /\ Quota \in Nat
  BY <1>1, FS_CardinalityType, TelemetryDeliveryAssumption
<1> HIDE DEF newer
<1>6. Cardinality(newer) >= Quota
  BY <1>3, <1>4, <1>5
<1> QED
  BY <1>6 DEF newer

LEMMA EmptyCard == Cardinality({}) = 0
  BY FS_EmptySet

LEMMA QuotaPositive == Quota \in Nat /\ Quota > 0
  BY TelemetryDeliveryAssumption

\* Each step that removes an event: which one, and why.
LEMMA Removal ==
    ASSUME DeliveryInv, CauseInv
    PROVE  /\ DropOld => \E e \in snap : e \in old /\ Remove(e) /\ snap' = snap \ {e}
           /\ DropOldest => \E e \in snap : /\ Remove(e) /\ snap' = snap \ {e}
                                           /\ Cardinality({f \in queued \ {e} : f > e}) >= Quota
           /\ DropOldestOfAll => \E e \in all : /\ Remove(e) /\ all' = all \ {e}
                                               /\ Cardinality({f \in queued \ {e} : f > e}) >= Quota
           /\ Ack => \E e \in ackIDs : Remove(e) /\ ackIDs' = ackIDs \ {e}
<1> USE QuotaPositive, EmptyCard
<1>1. snap \subseteq queued /\ all \subseteq queued /\ queued \subseteq Events
      /\ ackIDs \subseteq report /\ report \subseteq Events
  BY DEF DeliveryInv, PlaceInv, CauseInv
<1>2. ASSUME DropOld PROVE \E e \in snap : e \in old /\ Remove(e) /\ snap' = snap \ {e}
  <2>1. Oldest(snap \cap old) \in snap \cap old
    BY <1>1, <1>2, OldestIn DEF DropOld
  <2> QED
    BY <1>2, <2>1 DEF DropOld
<1>3. ASSUME DropOldest
      PROVE  \E e \in snap : /\ Remove(e) /\ snap' = snap \ {e}
                            /\ Cardinality({f \in queued \ {e} : f > e}) >= Quota
  <2>1. snap # {} /\ Cardinality(snap) > Quota
    BY <1>3 DEF DropOldest
  <2>2. Oldest(snap) \in snap /\ \A f \in snap : Oldest(snap) <= f
    BY <1>1, <2>1, OldestIn
  <2> QED
    BY <1>1, <1>3, <2>1, <2>2, EnoughLeft DEF DropOldest
<1>4. ASSUME DropOldestOfAll
      PROVE  \E e \in all : /\ Remove(e) /\ all' = all \ {e}
                           /\ Cardinality({f \in queued \ {e} : f > e}) >= Quota
  <2>1. all # {} /\ Cardinality(all) > Quota
    BY <1>4 DEF DropOldestOfAll
  <2>2. Oldest(all) \in all /\ \A f \in all : Oldest(all) <= f
    BY <1>1, <2>1, OldestIn
  <2> QED
    BY <1>1, <1>4, <2>1, <2>2, EnoughLeft DEF DropOldestOfAll
<1>5. ASSUME Ack PROVE \E e \in ackIDs : Remove(e) /\ ackIDs' = ackIDs \ {e}
  <2>1. Oldest(ackIDs) \in ackIDs
    BY <1>1, <1>5, OldestIn DEF Ack
  <2> QED
    BY <1>5, <2>1 DEF Ack
<1> QED
  BY <1>2, <1>3, <1>4, <1>5

LEMMA InitCause == DeliveryInit => CauseInv
  BY DEF DeliveryInit, CauseInv

LEMMA NextCause ==
    ASSUME DeliveryInv, CauseInv, DeliveryNext
    PROVE  CauseInv'
<1>1. ASSUME UNCHANGED <<pc, localVars>>, queued \subseteq queued', acknowledged \subseteq acknowledged'
      PROVE  CauseInv'
  BY <1>1 DEF CauseInv, localVars, R
<1>2. ASSUME (\E e \in Events : EnqueueEvent(e) \/ Age(e)) \/ Tick PROVE CauseInv'
  BY <1>1, <1>2 DEF EnqueueEvent, Age, Tick
<1>3. ASSUME End PROVE CauseInv'
  BY <1>3 DEF End, CauseInv
<1>4. ASSUME Stop \/ Lost \/ Unresolved \/ Drained \/ NotDue \/ NothingMine PROVE CauseInv'
  BY <1>3, <1>4 DEF Stop, Lost, Unresolved, Drained, NotDue, NothingMine
<1>5. ASSUME NEW a \in Accounts, Start(a) PROVE CauseInv'
  BY <1>5 DEF DeliveryInv, PlaceInv, CauseInv, Start, queueVars, R
<1>6. ASSUME List PROVE CauseInv'
  <2>1. UNCHANGED <<queued, acknowledged, job, todo, all, ackIDs>> /\ pc' = "prune"
        /\ pc \in {"clean", "list"}
    BY <1>6 DEF List, queueVars
  <2>2. job = "clean" => pc = "clean"
    BY <2>1 DEF DeliveryInv, PlaceInv
  <2>3. ASSUME pc = "clean" PROVE at' \in todo /\ \A e \in snap' : R(e) = at'
    <3>1. PICK r \in todo : at' = r /\ snap' = Queued(r)
      BY <1>6, <2>3 DEF List
    <3> QED
      BY <3>1 DEF Queued, R
  <2>4. job' = "clean" => at' \in todo' /\ \A e \in snap' : R(e) = at'
    BY <2>1, <2>2, <2>3
  <2>5. ackIDs' = {}
    BY <2>1 DEF CauseInv
  <2>6. all' # {} => job' = "clean"
    BY <2>1 DEF CauseInv
  <2> QED
    BY <2>1, <2>4, <2>5, <2>6 DEF CauseInv, R
<1>7. ASSUME DropOld \/ DropOldest PROVE CauseInv'
  <2>1. PICK x \in snap : Remove(x) /\ snap' = snap \ {x}
    BY <1>7, Removal
  <2>2. UNCHANGED <<pc, job, todo, at, all, ackIDs>> /\ pc = "prune"
    BY <1>7 DEF DropOld, DropOldest
  <2>3. x \notin all
    BY <2>2 DEF CauseInv
  <2> QED
    BY <2>1, <2>2, <2>3 DEF CauseInv, Remove, R
<1>8. ASSUME PruneDone PROVE CauseInv'
  <2>1. UNCHANGED <<queued, acknowledged, job, ackIDs>> /\ pc = "prune"
        /\ \/ /\ job = "clean" /\ pc' = "clean" /\ all' = all \cup snap
              /\ todo' = todo \ {at} /\ snap' = {}
           \/ job = "upload" /\ pc' = "ready" /\ UNCHANGED <<all, todo, snap>>
    BY <1>8 DEF PruneDone, queueVars
  <2> QED
    BY <2>1 DEF DeliveryInv, PlaceInv, CauseInv, R
<1>9. ASSUME DropOldestOfAll PROVE CauseInv'
  <2>1. PICK x \in all : Remove(x) /\ all' = all \ {x}
    BY <1>9, Removal
  <2>2. UNCHANGED <<pc, job, todo, at, snap, ackIDs>> /\ pc = "clean"
    BY <1>9 DEF DropOldestOfAll
  <2> QED
    BY <2>1, <2>2 DEF CauseInv, Remove, R
<1>10. ASSUME CleanupDone PROVE CauseInv'
  <2>1. UNCHANGED <<queued, acknowledged, job, ackIDs>> /\ all' = {} /\ pc' = "resolve"
        /\ pc \in {"clean", "prune"}
    BY <1>10 DEF CleanupDone, queueVars
  <2> QED
    BY <2>1 DEF CauseInv
<1>11. ASSUME Resolved PROVE CauseInv'
  BY <1>11 DEF CauseInv, Resolved, queueVars
<1>12. ASSUME Send PROVE CauseInv'
  <2>1. UNCHANGED <<queued, acknowledged, all, todo, ackIDs>> /\ pc = "ready" /\ pc' = "sent"
    BY <1>12 DEF Send
  <2> QED
    BY <2>1 DEF CauseInv
<1>13. ASSUME NEW failed \in SUBSET report, Answered(failed) PROVE CauseInv'
  <2>1. UNCHANGED <<queued, all, todo, job>> /\ pc = "sent" /\ pc' = "ack"
        /\ acknowledged' = acknowledged \cup ackIDs'
    BY <1>13 DEF Answered
  <2> QED
    BY <2>1 DEF CauseInv
<1>14. ASSUME Ack PROVE CauseInv'
  <2>1. PICK x \in ackIDs : Remove(x) /\ ackIDs' = ackIDs \ {x}
    BY <1>14, Removal
  <2>2. UNCHANGED <<pc, job, todo, at, snap, all>> /\ pc = "ack"
    BY <1>14 DEF Ack
  <2> QED
    BY <2>1, <2>2 DEF CauseInv, Remove
<1>15. ASSUME ReportDone PROVE CauseInv'
  <2>1. CASE End
    BY <1>3, <2>1
  <2>2. CASE ~End
    <3>1. UNCHANGED <<queued, acknowledged, job, todo, all, ackIDs>> /\ pc' = "list" /\ pc = "ack"
          /\ ackIDs = {}
      BY <1>15, <2>2 DEF ReportDone, queueVars
    <3> QED
      BY <3>1 DEF CauseInv
  <2> QED
    BY <2>1, <2>2
<1> QED
  BY <1>2, <1>4, <1>5, <1>6, <1>7, <1>8, <1>9, <1>10, <1>11, <1>12, <1>13, <1>14, <1>15
     DEF DeliveryNext, Proceed

(***************************************************************************)
(* An event leaves the queue because it was acknowledged, because it is    *)
(* past its retention, or because it is the oldest of more than the quota: *)
(* newer ones fill it, whatever was recorded since the lists were taken.   *)
(***************************************************************************)
THEOREM Causes == DeliverySpec => LeavesForCause
<1> DEFINE A == \A e \in queued \ queued' :
                  \/ e \in acknowledged \cup old
                  \/ Cardinality({f \in queued' : f > e}) >= Quota
<1>1. ASSUME DeliveryInv, CauseInv, DeliveryNext, ~(DropOld \/ DropOldest \/ DropOldestOfAll \/ Ack)
      PROVE  queued \subseteq queued'
  BY <1>1 DEF DeliveryNext, Proceed, EnqueueEvent, Age, Tick, Start, Stop, List, PruneDone,
       CleanupDone, Unresolved, Resolved, Drained, NotDue, NothingMine, Send, Lost,
       Answered, ReportDone, queueVars
<1>2. ASSUME DeliveryInv, CauseInv, DeliveryNext PROVE A
  <2>1. CASE DropOld
    BY <1>2, <2>1, Removal DEF Remove
  <2>2. CASE DropOldest
    <3>1. PICK x \in snap : Remove(x) /\ Cardinality({f \in queued \ {x} : f > x}) >= Quota
      BY <1>2, <2>2, Removal
    <3>2. queued' = queued \ {x}
      BY <3>1 DEF Remove
    <3>3. \A e \in queued \ queued' : e = x
      BY <3>2
    <3>4. Cardinality({f \in queued' : f > x}) >= Quota
      BY <3>1, <3>2
    <3> QED
      BY <3>3, <3>4
  <2>3. CASE DropOldestOfAll
    <3>1. PICK x \in all : Remove(x) /\ Cardinality({f \in queued \ {x} : f > x}) >= Quota
      BY <1>2, <2>3, Removal
    <3>2. queued' = queued \ {x}
      BY <3>1 DEF Remove
    <3>3. \A e \in queued \ queued' : e = x
      BY <3>2
    <3>4. Cardinality({f \in queued' : f > x}) >= Quota
      BY <3>1, <3>2
    <3> QED
      BY <3>3, <3>4
  <2>4. CASE Ack
    BY <1>2, <2>4, Removal DEF Remove, CauseInv
  <2> QED
    BY <1>1, <1>2, <2>1, <2>2, <2>3, <2>4
<1>3. CauseInv /\ UNCHANGED deliveryVars => CauseInv'
  BY DEF CauseInv, deliveryVars, queueVars, localVars, R
<1>4. DeliverySpec => []CauseInv
  BY <1>3, InitCause, NextCause, DeliveryInductive, PTL DEF DeliverySpec
<1>5. DeliveryInv /\ CauseInv /\ [DeliveryNext]_deliveryVars => [A]_deliveryVars
  BY <1>2
<1> QED
  BY <1>4, <1>5, DeliveryInductive, PTL DEF DeliverySpec, LeavesForCause
=============================================================================
