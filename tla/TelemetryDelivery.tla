--------------------------- MODULE TelemetryDelivery ---------------------------
(***************************************************************************)
(* The way of a telemetry event from the command that recorded it to the   *)
(* service: the numbered queue files of each route, and the one            *)
(* maintenance process at a time (the maintenance lock) that prunes the    *)
(* queues and uploads those of its route.  It may stop anywhere.  Consent  *)
(* is the subject of TelemetryConsent: the switch stays on here.           *)
(***************************************************************************)
EXTENDS Integers, Functions, FiniteSets

CONSTANTS Events,               \* by the number each one got
          Accounts, AccountOf,  \* who each event belongs to: an identity at a route
          Routes, RouteOf,      \* of each account
          Quota,                \* events kept, in one route and in all
          BatchMax,             \* events of one report
          None

ASSUME TelemetryDeliveryAssumption ==
    /\ Events \subseteq Nat /\ IsFiniteSet(Events)
    /\ AccountOf \in [Events -> Accounts] /\ RouteOf \in [Accounts -> Routes]
    /\ {Quota, BatchMax} \subseteq Nat \ {0}
    /\ None \notin Routes \cup Accounts

VARIABLES
    queued,   \* events whose file is there
    gone,     \* events whose file was removed
    old,      \* queued events past their retention
    attempt,  \* route -> its upload marker: none, less than an hour ago, or due
    pc,       \* what the maintenance process does
    me,       \* the account it works for
    job,      \* what it lists a queue for
    todo,     \* routes its cleanup has still to list
    at,       \* the route it has listed
    snap,     \* what is left of that list
    all,      \* what is left of the lists of the cleanup
    tried,    \* this upload has written its marker
    report,   \* the report on its way
    ackIDs,   \* acknowledged events whose files are to be removed
    partial,  \* the service refused some events of the report
    recent,   \* history: queued events that were sent less than an hour ago
    acknowledged \* history: queued events that the service acknowledged

queueVars == <<queued, gone, old, recent, acknowledged>>
localVars == <<me, job, todo, at, snap, all, tried, report, ackIDs, partial>>
deliveryVars == <<queueVars, attempt, pc, localVars>>

DeliveryTypeOK ==
    /\ queued \subseteq Events /\ gone \subseteq Events \ queued
    /\ old \subseteq queued /\ recent \subseteq queued /\ acknowledged \subseteq queued
    /\ attempt \in [Routes -> {"none", "recent", "due"}]
    /\ pc \in {"idle", "clean", "prune", "resolve", "list", "ready", "sent", "ack"}
    /\ me \in Accounts \cup {None}
    /\ job \in {"clean", "upload"} /\ todo \subseteq Routes /\ at \in Routes \cup {None}
    /\ snap \subseteq queued \cup gone /\ all \subseteq queued \cup gone
    /\ tried \in BOOLEAN /\ partial \in BOOLEAN
    /\ ackIDs \subseteq report /\ report \subseteq Events /\ Cardinality(report) <= BatchMax
    /\ pc = "sent" => report # {} /\ report \subseteq queued

DeliveryInit ==
    /\ queued = {} /\ gone = {} /\ old = {} /\ recent = {} /\ acknowledged = {}
    /\ attempt = [r \in Routes |-> "none"]
    /\ pc = "idle" /\ me = None
    /\ job = "clean" /\ todo = {} /\ at = None /\ snap = {} /\ all = {}
    /\ tried = FALSE /\ report = {} /\ ackIDs = {} /\ partial = FALSE

-----------------------------------------------------------------------------
Queued(r) == {e \in queued : RouteOf[AccountOf[e]] = r}

MyRoute == RouteOf[me]

Oldest(S) == CHOOSE e \in S : \A f \in S : e <= f

\* The n oldest of S.
FirstOf(S, n) == {e \in S : Cardinality({f \in S : f <= e}) <= n}

\* Numbers are taken under a lock of their own; the files appear in any order,
\* and some never.
EnqueueEvent(e) ==
    /\ e \notin queued \cup gone
    /\ queued' = queued \cup {e}
    /\ UNCHANGED <<gone, old, recent, acknowledged, attempt, pc, localVars>>

Remove(e) ==
    /\ queued' = queued \ {e} /\ gone' = gone \cup {e}
    /\ old' = old \ {e} /\ recent' = recent \ {e} /\ acknowledged' = acknowledged \ {e}

\* Time passes between the processes: one lasts for seconds.
Age(e) ==
    /\ e \in queued \ old
    /\ pc = "idle"
    /\ old' = old \cup {e}
    /\ UNCHANGED <<queued, gone, recent, acknowledged, attempt, pc, localVars>>

\* An hour passes.
Tick ==
    /\ pc = "idle"
    /\ "recent" \in Range(attempt)
    /\ attempt' = [r \in Routes |-> IF attempt[r] = "none" THEN "none" ELSE "due"]
    /\ recent' = {}
    /\ UNCHANGED <<queued, gone, old, acknowledged, pc, localVars>>

-----------------------------------------------------------------------------
(***************************************************************************)
(* The maintenance process.                                                *)
(***************************************************************************)
End ==
    /\ pc' = "idle" /\ me' = None
    /\ job' = "clean" /\ todo' = {} /\ at' = None /\ snap' = {} /\ all' = {}
    /\ tried' = FALSE /\ report' = {} /\ ackIDs' = {} /\ partial' = FALSE

Start(a) ==
    /\ pc = "idle"
    /\ pc' = "clean"
    /\ me' = a
    /\ todo' = Routes
    /\ UNCHANGED <<queueVars, attempt, job, at, snap, all, tried, report, ackIDs,
                   partial>>

\* It is killed, its time is over, or it cannot get a lock.
Stop ==
    /\ pc # "idle"
    /\ End
    /\ UNCHANGED <<queueVars, attempt>>

\* A list is taken without the lock of the queue: recorders may add to it meanwhile.
List ==
    /\ \/ pc = "clean" /\ \E r \in todo : at' = r /\ snap' = Queued(r)
       \/ pc = "list" /\ at' = MyRoute /\ snap' = Queued(MyRoute)
    /\ pc' = "prune"
    /\ UNCHANGED <<queueVars, attempt, me, job, todo, all, tried, report, ackIDs,
                   partial>>

DropOld ==
    /\ pc = "prune" /\ snap \cap old # {}
    /\ LET e == Oldest(snap \cap old) IN Remove(e) /\ snap' = snap \ {e}
    /\ UNCHANGED <<attempt, pc, me, job, todo, at, all, tried, report, ackIDs, partial>>

\* Fault: the end of the list is cut off.
DropNewest ==
    /\ pc = "prune" /\ snap \cap old = {}
    /\ Cardinality(snap) > Quota
    /\ \E e \in snap : (\A f \in snap : f <= e) /\ Remove(e) /\ snap' = snap \ {e}
    /\ UNCHANGED <<attempt, pc, me, job, todo, at, all, tried, report, ackIDs, partial>>

DropOldest ==
    /\ pc = "prune" /\ snap \cap old = {}
    /\ Cardinality(snap) > Quota
    /\ LET e == Oldest(snap) IN Remove(e) /\ snap' = snap \ {e}
    /\ UNCHANGED <<attempt, pc, me, job, todo, at, all, tried, report, ackIDs, partial>>

PruneDone ==
    /\ pc = "prune" /\ snap \cap old = {} /\ Cardinality(snap) <= Quota
    /\ \/ /\ job = "clean" /\ pc' = "clean"
          /\ all' = all \cup snap /\ todo' = todo \ {at} /\ snap' = {}
       \/ job = "upload" /\ pc' = "ready" /\ UNCHANGED <<all, todo, snap>>
    /\ at' = None
    /\ UNCHANGED <<queueVars, attempt, me, job, tried, report, ackIDs, partial>>

DropOldestOfAll ==
    /\ pc = "clean" /\ todo = {}
    /\ Cardinality(all) > Quota
    /\ LET e == Oldest(all) IN Remove(e) /\ all' = all \ {e}
    /\ UNCHANGED <<attempt, pc, me, job, todo, at, snap, tried, report, ackIDs, partial>>

\* A cleanup that fails is reported at the end: the upload goes on.
CleanupDone ==
    /\ job = "clean"
    /\ \/ pc = "clean" /\ todo = {} /\ Cardinality(all) <= Quota
       \/ pc \in {"clean", "prune"}
    /\ pc' = "resolve"
    /\ todo' = {} /\ at' = None /\ snap' = {} /\ all' = {}
    /\ UNCHANGED <<queueVars, attempt, me, job, tried, report, ackIDs, partial>>

\* Fault: the marker never gets old.
DueOnce(r) == attempt[r] = "none"

Due(r) == attempt[r] # "recent"

\* Without a host or a token the attempt counts, so that the next command does not
\* start a process again.
Unresolved ==
    /\ pc = "resolve"
    /\ attempt' = [attempt EXCEPT ![MyRoute] =
                     IF Queued(MyRoute) # {} /\ Due(MyRoute) THEN "recent" ELSE @]
    /\ End
    /\ UNCHANGED <<queueVars>>

Resolved ==
    /\ pc = "resolve"
    /\ pc' = "list" /\ job' = "upload"
    /\ UNCHANGED <<queueVars, attempt, me, todo, at, snap, all, tried, report,
                   ackIDs, partial>>

\* The marker goes, and the next failure is reported at once.
Drained ==
    /\ pc = "ready" /\ snap = {}
    /\ attempt' = [attempt EXCEPT ![MyRoute] = "none"]
    /\ End
    /\ UNCHANGED <<queueVars>>

NotDue ==
    /\ pc = "ready" /\ snap # {}
    /\ ~tried /\ ~Due(MyRoute)
    /\ End
    /\ UNCHANGED <<queueVars, attempt>>

Mine == {e \in snap : AccountOf[e] = me}

\* The marker counts although there is nothing to send for this account.
NothingMine ==
    /\ pc = "ready" /\ snap # {}
    /\ tried \/ Due(MyRoute)
    /\ Mine = {}
    /\ attempt' = [attempt EXCEPT ![MyRoute] = IF tried THEN @ ELSE "recent"]
    /\ End
    /\ UNCHANGED <<queueVars>>

\* The marker is written before the first report, and not again for the others.
Send ==
    /\ pc = "ready"
    /\ tried \/ Due(MyRoute)
    /\ Mine # {}
    /\ attempt' = [attempt EXCEPT ![MyRoute] = IF tried THEN @ ELSE "recent"]
    /\ tried' = TRUE
    /\ report' = FirstOf(Mine, BatchMax)
    /\ recent' = recent \cup report'
    /\ pc' = "sent" /\ snap' = {}
    /\ UNCHANGED <<queued, gone, old, acknowledged, me, job, todo, at, all, ackIDs, partial>>

\* No answer, an error, or an acknowledgement that makes no sense.
Lost ==
    /\ pc = "sent"
    /\ End
    /\ UNCHANGED <<queueVars, attempt>>

Answered(failed) ==
    /\ pc = "sent"
    /\ ackIDs' = report \ failed
    /\ partial' = (failed # {})
    /\ acknowledged' = acknowledged \cup ackIDs'
    /\ pc' = "ack"
    /\ UNCHANGED <<queued, gone, old, recent, attempt, me, job, todo, at, snap, all,
                   tried, report>>

\* The files go one by one.
Ack ==
    /\ pc = "ack" /\ ackIDs # {}
    /\ LET e == Oldest(ackIDs) IN Remove(e) /\ ackIDs' = ackIDs \ {e}
    /\ UNCHANGED <<attempt, pc, me, job, todo, at, snap, all, tried, report, partial>>

\* Fault: events that were refused are sent again at once.
ReportDoneAgain ==
    /\ pc = "ack" /\ ackIDs = {}
    /\ pc' = "list" /\ report' = {} /\ partial' = FALSE
    /\ UNCHANGED <<queueVars, attempt, me, job, todo, at, snap, all, tried, ackIDs>>

\* The next report follows at once, unless events were refused: they wait.
ReportDone ==
    /\ pc = "ack" /\ ackIDs = {}
    /\ \/ partial /\ End
       \/ /\ ~partial
          /\ pc' = "list" /\ report' = {}
          /\ UNCHANGED <<me, job, todo, at, snap, all, tried, ackIDs, partial>>
    /\ UNCHANGED <<queueVars, attempt>>

\* Its steps, as long as nothing fails.
Proceed ==
    \/ List \/ DropOld \/ DropOldest \/ PruneDone \/ DropOldestOfAll \/ CleanupDone
    \/ Resolved \/ Drained \/ NotDue \/ NothingMine \/ Send \/ Answered({})
    \/ Ack \/ ReportDone

DeliveryNext ==
    \/ \E e \in Events : EnqueueEvent(e) \/ Age(e)
    \/ Tick
    \/ \E a \in Accounts : Start(a)
    \/ Proceed \/ Unresolved \/ Lost \/ Stop
    \/ \E failed \in SUBSET report : Answered(failed)

DeliverySpec == DeliveryInit /\ [][DeliveryNext]_deliveryVars

\* Commands keep starting a process for their account, and time passes: each process
\* is over in seconds, so an hour cannot be kept off by one after the other.
DeliveryFairSpec ==
    /\ DeliverySpec
    /\ WF_deliveryVars(Proceed) /\ SF_deliveryVars(Tick)
    /\ \A a \in Accounts : WF_deliveryVars(Start(a))

-----------------------------------------------------------------------------
(***************************************************************************)
(* Properties.                                                             *)
(***************************************************************************)

(***************************************************************************)
(* A report holds events of the process's own account only, and none that  *)
(* was reported within the hour and is still queued, whatever became of    *)
(* the process that did, of its answer and of the rest of the queue.       *)
(***************************************************************************)
ReportsAreDue ==
    [][pc' = "sent" /\ pc # "sent" =>
         \A e \in report' : AccountOf[e] = me /\ e \notin recent]_deliveryVars

(***************************************************************************)
(* An event leaves the queue because the service acknowledged it, because  *)
(* it is past its retention, or because the quota is taken by events that  *)
(* are newer and stay, although the lists are older than that moment.      *)
(***************************************************************************)
LeavesForCause ==
    [][\A e \in queued \ queued' :
         \/ e \in acknowledged \cup old
         \/ Cardinality({f \in queued' : f > e}) >= Quota]_deliveryVars

\* Only this account starts processes, nothing stops them and the service accepts
\* what it gets.
Smooth(a) == Proceed \/ Tick \/ Start(a) \/ \E e \in Events : EnqueueEvent(e) \/ Age(e)

(***************************************************************************)
(* If from some time on the processes of an account work, its events do    *)
(* not stay: no marker, refused event or event of another account holds    *)
(* them back for ever.                                                     *)
(***************************************************************************)
EventsLeave ==
    \A a \in Accounts : <>[][Smooth(a)]_deliveryVars =>
        \A e \in {f \in Events : AccountOf[f] = a} : [](e \in queued => <>(e \notin queued))
=============================================================================
