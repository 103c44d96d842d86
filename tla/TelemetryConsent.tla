--------------------------- MODULE TelemetryConsent ---------------------------
(***************************************************************************)
(* Consent over the failed-command diagnostics of the CLI.                 *)
(*                                                                         *)
(* Every command is a process of its own.  A failing one hands its event   *)
(* to a detached worker that commits it to the local queue                 *)
(* (Reporter.recordContext); the same workers upload the queue             *)
(* (Uploader.Run); `telemetry disable` withdraws consent and clears the    *)
(* queue, `telemetry enable` gives it again (SetTelemetryEnabled).  They   *)
(* share files and coordinate by flock-based process locks only:           *)
(*                                                                         *)
(*   send lock    one uploader, or one disable at a time                   *)
(*   quota lock   shared by recorders, exclusive for a disable             *)
(*                                                                         *)
(* A lock is released by the kernel when its process exits, so a crash     *)
(* releases it.  Waiting for a lock ends with a context deadline.          *)
(***************************************************************************)
EXTENDS Integers, FiniteSets

CONSTANTS Commands,     \* commands that fail; each has one call ID, so one event
          Users,        \* shells that run `telemetry enable` and `telemetry disable`
          Uploaders,    \* detached maintenance workers
          MaxGen,       \* bound: how often the consent changes
          MayFail,      \* TRUE: processes crash, lock waits time out, requests fail
          NoOne         \* the holder of a free lock

ASSUME ConsentAssumption ==
    /\ MaxGen \in Nat
    /\ MayFail \in BOOLEAN
    /\ NoOne \notin Users \cup Uploaders
    /\ Users \cap Uploaders = {}

VARIABLES
    enabled,     \* settings.json: the local switch ...
    gen,         \* ... and its generation, which every change increments
    disclosed,   \* disclosure.json: the notice was shown and persisted
    queue,       \* commands whose event file is in the queue directory
    sendLock,    \* holder of .send-lock
    quotaEx,     \* exclusive holder of .quota-lock
    quotaSh,     \* shared holders of .quota-lock
    cpc, cgen,   \* a command: where it is, the generation it started under
    upc, ugen,   \* a user's process: where it is, the generation its disable wrote
    mpc, mgen, batch, acks   \* an uploader: where it is, its settings snapshot,
                             \* the events it sends (once answered: the ones that
                             \* failed), the ones it still has to delete

(***************************************************************************)
(* History, read by no action: events the service accepted, the highest    *)
(* generation of a disable that returned success, and whether some disable *)
(* ended without success.                                                  *)
(***************************************************************************)
VARIABLES accepted, cleared, aborted

settingsVars == <<enabled, gen, disclosed>>
lockVars == <<sendLock, quotaEx, quotaSh>>
cmdVars  == <<cpc, cgen>>
userVars == <<upc, ugen>>
uplVars  == <<mpc, mgen, batch, acks>>
histVars == <<accepted, cleared, aborted>>
vars == <<settingsVars, queue, lockVars, cmdVars, userVars, uplVars, histVars>>

CmdPCs  == {"idle", "running", "spawned", "waiting", "locked", "commit",
            "committed", "rollback", "done"}
UserPCs == {"idle", "enable", "send", "quota", "clear"}
UplPCs  == {"idle", "lock", "load", "check", "list", "post", "ack"}

\* A recorder holds the quota lock in these states, a process the send lock in those.
Recording == {"locked", "commit", "committed", "rollback"}
Clearing  == {"quota", "clear"}
Sending   == {"load", "check", "list", "post", "ack"}

TypeOK ==
    /\ enabled \in BOOLEAN
    /\ gen \in Nat
    /\ disclosed \in BOOLEAN
    /\ queue \subseteq Commands
    /\ sendLock \in Users \cup Uploaders \cup {NoOne}
    /\ quotaEx \in Users \cup {NoOne}
    /\ quotaSh \subseteq Commands
    /\ cpc \in [Commands -> CmdPCs]
    /\ cgen \in [Commands -> Nat]
    /\ upc \in [Users -> UserPCs]
    /\ ugen \in [Users -> Nat]
    /\ mpc \in [Uploaders -> UplPCs]
    /\ mgen \in [Uploaders -> Nat]
    /\ batch \in [Uploaders -> SUBSET Commands]
    /\ acks \in [Uploaders -> SUBSET Commands]
    /\ accepted \subseteq Commands
    /\ cleared \in Nat
    /\ aborted \in BOOLEAN

\* No settings.json yet: enabled, generation 0 (SettingsStore.Load).
Init ==
    /\ enabled = TRUE /\ gen = 0 /\ disclosed = FALSE
    /\ queue = {}
    /\ sendLock = NoOne /\ quotaEx = NoOne /\ quotaSh = {}
    /\ cpc = [c \in Commands |-> "idle"] /\ cgen = [c \in Commands |-> 0]
    /\ upc = [u \in Users |-> "idle"] /\ ugen = [u \in Users |-> 0]
    /\ mpc = [m \in Uploaders |-> "idle"] /\ mgen = [m \in Uploaders |-> 0]
    /\ batch = [m \in Uploaders |-> {}] /\ acks = [m \in Uploaders |-> {}]
    /\ accepted = {} /\ cleared = 0 /\ aborted = FALSE

-----------------------------------------------------------------------------
(***************************************************************************)
(* A failing command.                                                      *)
(***************************************************************************)

\* The notice of the current version goes to stderr and is then persisted.
ShowDisclosure ==
    /\ ~disclosed
    /\ disclosed' = TRUE
    /\ UNCHANGED <<enabled, gen, queue, lockVars, cmdVars, userVars, uplVars, histVars>>

\* Collection starts only with the notice persisted and the switch on; the
\* generation of that moment goes with the event.
StartCommand(c) ==
    /\ cpc[c] = "idle"
    /\ IF disclosed /\ enabled
       THEN /\ cpc' = [cpc EXCEPT ![c] = "running"]
            /\ cgen' = [cgen EXCEPT ![c] = gen]
       ELSE /\ cpc' = [cpc EXCEPT ![c] = "done"]
            /\ UNCHANGED cgen
    /\ UNCHANGED <<settingsVars, queue, lockVars, userVars, uplVars, histVars>>

\* The command failed and its event was sampled: it goes to a detached worker.
FinishCommand(c) ==
    /\ cpc[c] = "running"
    /\ cpc' = [cpc EXCEPT ![c] = "spawned"]
    /\ UNCHANGED <<settingsVars, queue, lockVars, cgen, userVars, uplVars, histVars>>

\* What the recorder asks of the settings file, three times.
ConsentHolds(c) == enabled /\ gen = cgen[c]

RecordLoad(c) ==
    /\ cpc[c] = "spawned"
    /\ cpc' = [cpc EXCEPT ![c] = IF ConsentHolds(c) THEN "waiting" ELSE "done"]
    /\ UNCHANGED <<settingsVars, queue, lockVars, cgen, userVars, uplVars, histVars>>

AcquireShared(c) ==
    /\ cpc[c] = "waiting"
    /\ quotaEx = NoOne
    /\ quotaSh' = quotaSh \cup {c}
    /\ cpc' = [cpc EXCEPT ![c] = "locked"]
    /\ UNCHANGED <<settingsVars, queue, sendLock, quotaEx, cgen, userVars, uplVars, histVars>>

\* The worker is done, or it died: its shared lock is gone either way.
EndRecord(c) ==
    /\ cpc' = [cpc EXCEPT ![c] = "done"]
    /\ quotaSh' = quotaSh \ {c}
    /\ UNCHANGED <<settingsVars, sendLock, quotaEx, cgen, userVars, uplVars, histVars>>

\* Fault: the settings are not read again under the lock.
RecordCheckOnce(c) ==
    /\ cpc[c] = "locked"
    /\ cpc' = [cpc EXCEPT ![c] = "commit"]
    /\ UNCHANGED <<settingsVars, queue, lockVars, cgen, userVars, uplVars, histVars>>

RecordCheck(c) ==
    /\ cpc[c] = "locked"
    /\ \/ /\ ConsentHolds(c)
          /\ cpc' = [cpc EXCEPT ![c] = "commit"]
          /\ UNCHANGED <<settingsVars, queue, lockVars, cgen, userVars, uplVars, histVars>>
       \/ /\ ~ConsentHolds(c)
          /\ EndRecord(c)
          /\ UNCHANGED queue

\* The rename that makes the event file visible.
Enqueue(c) ==
    /\ cpc[c] = "commit"
    /\ queue' = queue \cup {c}
    /\ cpc' = [cpc EXCEPT ![c] = "committed"]
    /\ UNCHANGED <<settingsVars, lockVars, cgen, userVars, uplVars, histVars>>

RecordRecheck(c) ==
    /\ cpc[c] = "committed"
    /\ \/ /\ ConsentHolds(c)
          /\ EndRecord(c)
          /\ UNCHANGED queue
       \/ /\ ~ConsentHolds(c)
          /\ cpc' = [cpc EXCEPT ![c] = "rollback"]
          /\ UNCHANGED <<settingsVars, queue, lockVars, cgen, userVars, uplVars, histVars>>

Rollback(c) ==
    /\ cpc[c] = "rollback"
    /\ queue' = queue \ {c}
    /\ EndRecord(c)

\* A crash, an expired lock wait, a busy sequence or queue lock, a rollback whose
\* error is ignored: the worker ends, the queue stays as it is.
RecordFails(c) ==
    /\ MayFail
    /\ cpc[c] \notin {"idle", "done"}
    /\ EndRecord(c)
    /\ UNCHANGED queue

Command(c) ==
    \/ StartCommand(c) \/ FinishCommand(c) \/ RecordLoad(c) \/ AcquireShared(c)
    \/ RecordCheck(c) \/ Enqueue(c) \/ RecordRecheck(c) \/ Rollback(c)

-----------------------------------------------------------------------------
(***************************************************************************)
(* `telemetry disable` and `telemetry enable`.                             *)
(***************************************************************************)

SetEnabled(value) ==
    /\ gen < MaxGen
    /\ enabled' = value
    /\ gen' = gen + 1

\* disable: the switch goes off first ...
BeginDisable(u) ==
    /\ upc[u] = "idle"
    /\ SetEnabled(FALSE)
    /\ upc' = [upc EXCEPT ![u] = "send"]
    /\ ugen' = [ugen EXCEPT ![u] = gen + 1]
    /\ UNCHANGED <<disclosed, queue, lockVars, cmdVars, uplVars, histVars>>

\* Fault: disable does not wait for a running upload.
AcquireSendNot(u) ==
    /\ upc[u] = "send"
    /\ upc' = [upc EXCEPT ![u] = "quota"]
    /\ UNCHANGED <<settingsVars, queue, lockVars, cmdVars, ugen, uplVars, histVars>>

\* ... then no upload is running ...
AcquireSend(u) ==
    /\ upc[u] = "send"
    /\ sendLock = NoOne
    /\ sendLock' = u
    /\ upc' = [upc EXCEPT ![u] = "quota"]
    /\ UNCHANGED <<settingsVars, queue, quotaEx, quotaSh, cmdVars, ugen, uplVars, histVars>>

\* ... and no recorder is committing ...
AcquireQuota(u) ==
    /\ upc[u] = "quota"
    /\ quotaEx = NoOne
    /\ quotaSh = {}
    /\ quotaEx' = u
    /\ upc' = [upc EXCEPT ![u] = "clear"]
    /\ UNCHANGED <<settingsVars, queue, sendLock, quotaSh, cmdVars, ugen, uplVars, histVars>>

\* ... while RemoveAll takes the files away one by one.
RemoveQueued(u) ==
    /\ upc[u] = "clear"
    /\ \E c \in queue : queue' = queue \ {c}
    /\ UNCHANGED <<settingsVars, lockVars, cmdVars, userVars, uplVars, histVars>>

\* The process of u ends and with it the locks it holds.
EndUser(u) ==
    /\ upc' = [upc EXCEPT ![u] = "idle"]
    /\ sendLock' = IF sendLock = u THEN NoOne ELSE sendLock
    /\ quotaEx' = IF quotaEx = u THEN NoOne ELSE quotaEx
    /\ UNCHANGED <<settingsVars, queue, quotaSh, cmdVars, ugen, uplVars, accepted>>

DisableReturns(u) ==
    /\ upc[u] = "clear"
    /\ queue = {}
    /\ EndUser(u)
    /\ cleared' = IF cleared < ugen[u] THEN ugen[u] ELSE cleared
    /\ UNCHANGED aborted

\* A crash, a lock wait over its deadline, or an error of RemoveAll.
DisableFails(u) ==
    /\ MayFail
    /\ upc[u] \in {"send", "quota", "clear"}
    /\ EndUser(u)
    /\ aborted' = TRUE
    /\ UNCHANGED cleared

\* enable: the notice is shown and persisted before the switch goes on; a busy
\* settings lock makes the command fail without a change.
BeginEnable(u) ==
    /\ upc[u] = "idle"
    /\ gen < MaxGen
    /\ disclosed' = TRUE
    /\ upc' = [upc EXCEPT ![u] = "enable"]
    /\ UNCHANGED <<enabled, gen, queue, lockVars, cmdVars, ugen, uplVars, histVars>>

EnableReturns(u) ==
    /\ upc[u] = "enable"
    /\ \/ SetEnabled(TRUE)
       \/ (MayFail \/ gen = MaxGen) /\ UNCHANGED <<enabled, gen>>
    /\ upc' = [upc EXCEPT ![u] = "idle"]
    /\ UNCHANGED <<disclosed, queue, lockVars, cmdVars, ugen, uplVars, histVars>>

Disable(u) ==
    \/ AcquireSend(u) \/ AcquireQuota(u) \/ RemoveQueued(u) \/ DisableReturns(u)

-----------------------------------------------------------------------------
(***************************************************************************)
(* A maintenance worker that uploads the queue.                            *)
(***************************************************************************)

\* A worker starts only while the switch is on (telemetryMaintenanceDue).
StartUpload(m) ==
    /\ mpc[m] = "idle"
    /\ enabled
    /\ mpc' = [mpc EXCEPT ![m] = "lock"]
    /\ UNCHANGED <<settingsVars, queue, lockVars, cmdVars, userVars, mgen, batch, acks, histVars>>

AcquireUpload(m) ==
    /\ mpc[m] = "lock"
    /\ sendLock = NoOne
    /\ sendLock' = m
    /\ mpc' = [mpc EXCEPT ![m] = "load"]
    /\ UNCHANGED <<settingsVars, queue, quotaEx, quotaSh, cmdVars, userVars, mgen, batch, acks, histVars>>

\* Fault: an early return keeps the send lock.
EndUploadLocked(m) ==
    /\ mpc' = [mpc EXCEPT ![m] = "idle"]
    /\ batch' = [batch EXCEPT ![m] = {}]
    /\ acks' = [acks EXCEPT ![m] = {}]
    /\ UNCHANGED <<settingsVars, queue, lockVars, cmdVars, userVars, mgen, histVars>>

\* Uploader.Run returns, or its process dies.
EndUpload(m) ==
    /\ mpc' = [mpc EXCEPT ![m] = "idle"]
    /\ batch' = [batch EXCEPT ![m] = {}]
    /\ acks' = [acks EXCEPT ![m] = {}]
    /\ sendLock' = IF sendLock = m THEN NoOne ELSE sendLock
    /\ UNCHANGED <<settingsVars, queue, quotaEx, quotaSh, cmdVars, userVars, mgen, histVars>>

UploadLoad(m) ==
    /\ mpc[m] = "load"
    /\ \/ /\ enabled
          /\ mgen' = [mgen EXCEPT ![m] = gen]
          /\ mpc' = [mpc EXCEPT ![m] = "check"]
          /\ UNCHANGED <<settingsVars, queue, lockVars, cmdVars, userVars, batch, acks, histVars>>
       \/ ~enabled /\ EndUpload(m)

\* The head of the loop: the settings must not have changed since the snapshot.
UploadCheck(m) ==
    /\ mpc[m] = "check"
    /\ \/ /\ enabled /\ gen = mgen[m]
          /\ mpc' = [mpc EXCEPT ![m] = "list"]
          /\ UNCHANGED <<settingsVars, queue, lockVars, cmdVars, userVars, mgen, batch, acks, histVars>>
       \/ ~(enabled /\ gen = mgen[m]) /\ EndUpload(m)

\* The directory is read without a lock.  There is nothing to do when it is empty,
\* when the last attempt is too recent, or when no event has the identity of this
\* worker; the batch is a prefix of those that have: any nonempty part of the queue.
UploadList(m) ==
    /\ mpc[m] = "list"
    /\ \/ EndUpload(m)
       \/ \E b \in SUBSET queue \ {{}} :
            /\ batch' = [batch EXCEPT ![m] = b]
            /\ mpc' = [mpc EXCEPT ![m] = "post"]
            /\ UNCHANGED <<settingsVars, queue, lockVars, cmdVars, userVars, mgen, acks, histVars>>

\* Fault: failed_call_ids is ignored and the whole batch is deleted.
UploadPostAll(m) ==
    /\ mpc[m] = "post"
    /\ \E failed \in SUBSET batch[m] :
         /\ MayFail \/ failed = {}
         /\ acks' = [acks EXCEPT ![m] = batch[m]]
         /\ batch' = [batch EXCEPT ![m] = failed]
         /\ accepted' = accepted \cup (batch[m] \ failed)
    /\ mpc' = [mpc EXCEPT ![m] = "ack"]
    /\ UNCHANGED <<settingsVars, queue, lockVars, cmdVars, userVars, mgen, cleared, aborted>>

\* The report request leaves; the answer names the events that failed.
UploadPost(m) ==
    /\ mpc[m] = "post"
    /\ \E failed \in SUBSET batch[m] :
         /\ MayFail \/ failed = {}
         /\ acks' = [acks EXCEPT ![m] = batch[m] \ failed]
         /\ batch' = [batch EXCEPT ![m] = failed]
         /\ accepted' = accepted \cup (batch[m] \ failed)
    /\ mpc' = [mpc EXCEPT ![m] = "ack"]
    /\ UNCHANGED <<settingsVars, queue, lockVars, cmdVars, userVars, mgen, cleared, aborted>>

AckOne(m) ==
    /\ mpc[m] = "ack"
    /\ \E c \in acks[m] :
         /\ queue' = queue \ {c}
         /\ acks' = [acks EXCEPT ![m] = @ \ {c}]
    /\ UNCHANGED <<settingsVars, lockVars, cmdVars, userVars, mpc, mgen, batch, histVars>>

\* All deleted: the loop goes on, unless the answer named failed events.
AckDone(m) ==
    /\ mpc[m] = "ack"
    /\ acks[m] = {}
    /\ \/ /\ batch[m] = {}
          /\ mpc' = [mpc EXCEPT ![m] = "check"]
          /\ UNCHANGED <<settingsVars, queue, lockVars, cmdVars, userVars, mgen, batch, acks, histVars>>
       \/ batch[m] # {} /\ EndUpload(m)

\* A crash, an expired flow deadline, a busy queue lock, or a request without a
\* usable answer: an error, an unreadable body, an invalid acknowledgement.  The
\* service may have accepted the events of such a request; they stay queued.
UploadFails(m) ==
    /\ MayFail
    /\ mpc[m] # "idle"
    /\ EndUpload(m)

Upload(m) ==
    \/ AcquireUpload(m) \/ UploadLoad(m) \/ UploadCheck(m) \/ UploadList(m)
    \/ UploadPost(m) \/ AckOne(m) \/ AckDone(m)

-----------------------------------------------------------------------------
Next ==
    \/ ShowDisclosure
    \/ \E c \in Commands : Command(c) \/ RecordFails(c)
    \/ \E u \in Users : BeginDisable(u) \/ Disable(u) \/ DisableFails(u)
                        \/ BeginEnable(u) \/ EnableReturns(u)
    \/ \E m \in Uploaders : StartUpload(m) \/ Upload(m) \/ UploadFails(m)

Spec == Init /\ [][Next]_vars

(***************************************************************************)
(* A process that runs keeps running.  Nobody has to start a command, an   *)
(* upload or a disable, and failures stay optional.  Weak fairness is      *)
(* enough for the locks: with the switch off no new holder arrives.        *)
(***************************************************************************)
Fairness ==
    /\ \A c \in Commands : WF_vars(Command(c) /\ cpc[c] # "idle")
    /\ \A u \in Users : WF_vars(Disable(u)) /\ WF_vars(EnableReturns(u))
    /\ \A m \in Uploaders : WF_vars(Upload(m))

FairSpec == Spec /\ Fairness

-----------------------------------------------------------------------------
(***************************************************************************)
(* Properties.                                                             *)
(***************************************************************************)

(***************************************************************************)
(* Once a disable has returned success, no event of a command that started *)
(* before it is in the queue, now or later: a worker delayed across the    *)
(* disable, and across a later enable, cannot bring its event back.        *)
(***************************************************************************)
ClearedStaysCleared == \A c \in queue : cgen[c] >= cleared

(***************************************************************************)
(* No event of a command that started before a successful disable leaves   *)
(* the machine after that disable returned: an upload under way is waited  *)
(* for, and a later one does not know the event.                           *)
(***************************************************************************)
NothingSentAfterDisable ==
    \A m \in Uploaders : mpc[m] = "post" => \A c \in batch[m] : cgen[c] >= cleared

(***************************************************************************)
(* With the switch off and every disable finished successfully, the queue  *)
(* is empty, whatever recorders, uploaders and enables were running.       *)
(***************************************************************************)
DisabledQueueIsEmpty ==
    (~enabled /\ ~aborted /\ \A u \in Users : upc[u] \in {"idle", "enable"})
        => queue = {}

(***************************************************************************)
(* A disable that returned success is final: no event of a command before  *)
(* it is kept or sent, whoever was at work when it began.                  *)
(***************************************************************************)
DisabledIsSilent == ClearedStaysCleared /\ NothingSentAfterDisable /\ DisabledQueueIsEmpty

(***************************************************************************)
(* An event leaves the queue because the service accepted it, because the  *)
(* consent it was recorded under is over, or because a disable clears the  *)
(* queue: a partial answer, a failed request or a stale listing loses none.*)
(***************************************************************************)
DeletedForReason ==
    \A c \in queue \ queue' : c \in accepted \/ ~ConsentHolds(c) \/ quotaEx # NoOne

NoSilentLoss == [][DeletedForReason]_queue

(***************************************************************************)
(* Every disable that began ends, and with success unless some process     *)
(* failed it, or the switch is turned on again while it waits (then upload *)
(* workers may keep arriving): the order send lock before quota lock       *)
(* leaves no cycle of waits, and every holder lets go.                     *)
(***************************************************************************)
DisableEnds ==
    \A u \in Users :
        (upc[u] = "send") ~> (enabled \/ (upc[u] = "idle" /\ (aborted \/ cleared >= ugen[u])))

(***************************************************************************)
(* Recorders, uploaders and disables together look like a specification in *)
(* which a disable is one atomic step.                                     *)
(***************************************************************************)
Outgoing == UNION {batch[m] : m \in {n \in Uploaders : mpc[n] = "post"}}

Promise == INSTANCE ConsentPromise WITH
    pending <- queue, outgoing <- Outgoing, epoch <- cgen

DisableIsAtomic == Promise!Spec
=============================================================================
