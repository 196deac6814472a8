--------------------------- MODULE OrderRecompute ---------------------------
(***************************************************************************)
(* Orders and the events that delay them: process_one of                   *)
(* services/storage_pipeline.py with recompute_for_user_orders and         *)
(* maybe_alert (one worker process, one event at a time) against           *)
(* create_order and delete_order of routers/orders.py (request handlers of *)
(* the API process), over Postgres at READ COMMITTED and the Redis cache   *)
(* of active events.                                                       *)
(*                                                                         *)
(* A row is what one order's status and delay columns hold; the two ETA    *)
(* columns follow from them.  An UPDATE writes only the columns the        *)
(* session has changed since it loaded them, and holds the row's lock up   *)
(* to the commit.  A transaction's work from the moment it holds its lock  *)
(* is one step where nobody else can see or disturb it (the handlers'); it *)
(* is kept apart where others can (the worker's, which goes over several   *)
(* orders).  An impact row is known by its event and its writer: nothing   *)
(* makes the pair of order and event unique.                               *)
(*                                                                         *)
(* Neo4j, the users' own impact rows and the broadcast of the event itself *)
(* leave the state below alone; when they raise, the worker gives up.      *)
(***************************************************************************)
EXTENDS Naturals, FiniteSets

CONSTANTS
  Orders,
  Events,
  Analyses,      \* Analyses[o][A]: what analyse_order can return for o and active events A
  None,          \* no row, no event, no analysis
  MaxFaults,     \* bound: things that go wrong
  MaxExpiries    \* bound: alert keys that expire, per order

Statuses == {"ON_SCHEDULE", "MONITOR", "DELAY_RISK", "CRITICAL_DELAY"}
Row == [status : Statuses, min : Nat, max : Nat]
Analysis == [status : Statuses, min : Nat, max : Nat, matched : SUBSET Events]

\* What a row of the orders table is born with.
NewRow == [status |-> "ON_SCHEDULE", min |-> 0, max |-> 0]
RowOf(a) == [status |-> a.status, min |-> a.min, max |-> a.max]

\* An analysis exists, and it is the one of a new order exactly when no event matched.
ASSUME AnalysesAssumption ==
  \A o \in Orders, active \in SUBSET Events :
    /\ Analyses[o][active] \subseteq Analysis
    /\ Analyses[o][active] # {}
    /\ \A a \in Analyses[o][active] :
         a.matched \subseteq active /\ (a.matched = {} <=> RowOf(a) = NewRow)

ASSUME BoundsAssumption ==
  MaxFaults \in Nat /\ MaxExpiries \in Nat /\ None \notin Row \cup Analysis \cup Events \cup Orders

\* Who wrote an impact row: the recompute for an event, or the create request.
Writers == Events \cup {"create"}

VARIABLES
  row,       \* orders: row[o], or None before the insert and after the delete
  impacts,   \* order_event_impacts: the rows <<event, writer>> of o
  stored,    \* events: the event rows in Postgres
  cache,     \* Redis event:*: the active events
  done,      \* the events the worker has taken from the stream
  worker,    \* the storage worker
  creator,   \* creator[o]: the request that creates o
  alerted,   \* Redis alert:order:*: the orders with a live key
  lastUpdate,\* lastUpdate[o]: the last order_delay_update published for o
  written,   \* written[o]: the analyses committed for o (history)
  touched,   \* the orders a request wrote since the worker last read the table (history)
  owed,      \* the orders that have become critical and no e-mail has gone out (history)
  emails,    \* emails[o]: how many e-mails have gone out (history)
  expiries,  \* expiries[o]: how often o's alert key expired (history)
  faults

database == <<row, impacts, written, touched, owed>>
alerts == <<alerted, emails, expiries>>
vars == <<row, impacts, stored, cache, done, worker, creator, alerted, lastUpdate,
          written, touched, owed, emails, expiries, faults>>

\* event: the one being processed; before: the cache when the scan began; active: what
\* it returned; loaded: the rows selected; todo: those not looked at yet; changes: the
\* analyses flushed, then committed and not yet told; replaced: the impact rows deleted;
\* order: the one being told; outcome: how the last recompute ended.
WorkerState ==
  [pc : {"idle", "taken", "stored", "cached", "fetching", "selecting", "writing",
         "telling", "checking", "sending", "marking"},
   event : Events \cup {None}, before : SUBSET Events, active : SUBSET Events,
   loaded : [Orders -> Row \cup {None}], todo : SUBSET Orders,
   changes : [Orders -> Analysis \cup {None}],
   replaced : [Orders -> SUBSET (Events \X Writers)],
   order : Orders \cup {None}, outcome : {"none", "failed", "done"}]

CreatorState ==
  [pc : {"none", "inserted", "loaded", "fetching", "writing", "blocked", "committed",
         "telling", "over"},
   loaded : Row, before : SUBSET Events, analysis : Analysis \cup {None},
   replaced : SUBSET (Events \X Writers)]

TypeOK ==
  /\ row \in [Orders -> Row \cup {None}]
  /\ impacts \in [Orders -> SUBSET (Events \X Writers)]
  /\ stored \subseteq Events
  /\ cache \subseteq Events
  /\ done \subseteq Events
  /\ worker \in WorkerState
  /\ creator \in [Orders -> CreatorState]
  /\ alerted \subseteq Orders
  /\ lastUpdate \in [Orders -> Analysis \cup {None}]
  /\ written \in [Orders -> SUBSET Analysis]
  /\ touched \subseteq Orders
  /\ owed \subseteq Orders
  /\ emails \in [Orders -> Nat]
  /\ expiries \in [Orders -> 0..MaxExpiries]
  /\ faults \in 0..MaxFaults

\* What the worker keeps of an event here is only for the properties.
Idle(event, active, outcome) ==
  [pc |-> "idle", event |-> event, before |-> {}, active |-> active,
   loaded |-> [o \in Orders |-> None], todo |-> {},
   changes |-> [o \in Orders |-> None], replaced |-> [o \in Orders |-> {}],
   order |-> None, outcome |-> outcome]

Request(at) ==
  [pc |-> at, loaded |-> NewRow, before |-> {}, analysis |-> None, replaced |-> {}]

Init ==
  /\ row = [o \in Orders |-> None]
  /\ impacts = [o \in Orders |-> {}]
  /\ stored = {}
  /\ cache = {}
  /\ done = {}
  /\ worker = Idle(None, {}, "none")
  /\ creator = [o \in Orders |-> Request("none")]
  /\ alerted = {}
  /\ lastUpdate = [o \in Orders |-> None]
  /\ written = [o \in Orders |-> {}]
  /\ touched = {}
  /\ owed = {}
  /\ emails = [o \in Orders |-> 0]
  /\ expiries = [o \in Orders |-> 0]
  /\ faults = 0

\* Faulty variant: a key whose value is gone is not skipped.
FetchedUnchecked(before) == {X \cup {None} : X \in SUBSET (before \cup cache)}

\* A value not read before the scan began, or one expired before its get, may be missed.
Fetched(before) == {X \in SUBSET (before \cup cache) : before \cap cache \subseteq X}

\* A session's UPDATE: the columns that changed since it loaded them.
Column(loaded, new, current) == IF new = loaded THEN current ELSE new
Updated(current, loaded, a) ==
  [status |-> Column(loaded.status, a.status, current.status),
   min |-> Column(loaded.min, a.min, current.min),
   max |-> Column(loaded.max, a.max, current.max)]

\* The impact rows inserted for an analysis: events that Postgres knows.
NewImpacts(a, writer) == (a.matched \cap stored) \X {writer}

Fault == faults < MaxFaults /\ faults' = faults + 1

-----------------------------------------------------------------------------
(* The storage worker: process_one *)

WorkerGoesTo(next) == worker' = [worker EXCEPT !.pc = next]

TakeEvent(e) ==
  /\ worker.pc = "idle"
  /\ e \notin done
  /\ done' = done \cup {e}
  /\ worker' = [Idle(e, {}, "none") EXCEPT !.pc = "taken"]
  /\ UNCHANGED <<database, stored, cache, creator, alerts, lastUpdate, faults>>

\* insert_event: ON CONFLICT DO NOTHING, a transaction of its own.
StoreEvent ==
  /\ worker.pc = "taken"
  /\ stored' = stored \cup {worker.event}
  /\ WorkerGoesTo("stored")
  /\ UNCHANGED <<database, cache, done, creator, alerts, lastUpdate, faults>>

CacheEvent ==
  /\ worker.pc = "stored"
  /\ cache' = cache \cup {worker.event}
  /\ WorkerGoesTo("cached")
  /\ UNCHANGED <<database, stored, done, creator, alerts, lastUpdate, faults>>

BeginFetch ==
  /\ worker.pc = "cached"
  /\ worker' = [worker EXCEPT !.pc = "fetching", !.before = cache]
  /\ UNCHANGED <<database, stored, cache, done, creator, alerts, lastUpdate, faults>>

EndFetch ==
  /\ worker.pc = "fetching"
  /\ \E active \in Fetched(worker.before) :
       worker' = [worker EXCEPT !.pc = "selecting", !.before = {}, !.active = active]
  /\ UNCHANGED <<database, stored, cache, done, creator, alerts, lastUpdate, faults>>

MayStillWrite(o) == creator[o].pc \in {"inserted", "loaded", "fetching", "writing", "blocked"}

SelectOrders ==
  /\ worker.pc = "selecting"
  /\ worker' = [worker EXCEPT !.pc = "writing", !.loaded = row,
                              !.todo = {o \in Orders : row[o] # None}]
  /\ touched' = {o \in Orders : MayStillWrite(o)}
  /\ UNCHANGED <<row, impacts, written, owed, stored, cache, done, creator, alerts,
                 lastUpdate, faults>>

\* Faulty variant: only a new status counts.
StatusChanged(a, loaded) == a.status # loaded.status

Changed(a, loaded) == a.status # loaded.status \/ a.min # loaded.min

KeepOrder(o) ==
  /\ worker.pc = "writing" /\ o \in worker.todo
  /\ \E a \in Analyses[o][worker.active] : ~Changed(a, worker.loaded[o])
  /\ worker' = [worker EXCEPT !.todo = @ \ {o}]
  /\ UNCHANGED <<database, stored, cache, done, creator, alerts, lastUpdate, faults>>

\* _persist_analysis: the flush of the UPDATE takes the row's lock, then the DELETE.
WriteOrder(o) ==
  /\ worker.pc = "writing" /\ o \in worker.todo
  /\ row[o] # None
  /\ \E a \in Analyses[o][worker.active] :
       /\ Changed(a, worker.loaded[o])
       /\ worker' = [worker EXCEPT !.todo = @ \ {o}, !.changes[o] = a,
                                   !.replaced[o] = impacts[o]]
  /\ UNCHANGED <<database, stored, cache, done, creator, alerts, lastUpdate, faults>>

\* Faulty variant: the UPDATE is tried again.
OrderGoneRetried(o) ==
  /\ worker.pc = "writing" /\ o \in worker.todo
  /\ row[o] = None
  /\ \E a \in Analyses[o][worker.active] : Changed(a, worker.loaded[o])
  /\ UNCHANGED vars

\* The UPDATE finds no row (StaleDataError): the whole transaction is rolled back.
OrderGone(o) ==
  /\ worker.pc = "writing" /\ o \in worker.todo
  /\ row[o] = None
  /\ \E a \in Analyses[o][worker.active] : Changed(a, worker.loaded[o])
  /\ worker' = Idle(worker.event, worker.active, "failed")
  /\ UNCHANGED <<database, stored, cache, done, creator, alerts, lastUpdate, faults>>

ChangedOrders == {o \in Orders : worker.changes[o] # None}

\* The worker holds the row's lock, and those of the impact rows it replaces.
Locked(o) == worker.pc = "writing" /\ o \in ChangedOrders

Commit ==
  /\ worker.pc = "writing" /\ worker.todo = {}
  /\ row' = [o \in Orders |->
       IF o \in ChangedOrders
       THEN Updated(row[o], worker.loaded[o], worker.changes[o]) ELSE row[o]]
  /\ impacts' = [o \in Orders |->
       IF o \in ChangedOrders
       THEN (impacts[o] \ worker.replaced[o]) \cup NewImpacts(worker.changes[o], worker.event)
       ELSE impacts[o]]
  /\ written' = [o \in Orders |->
       IF o \in ChangedOrders THEN written[o] \cup {worker.changes[o]} ELSE written[o]]
  /\ owed' = owed \cup {o \in ChangedOrders :
       row[o].status # "CRITICAL_DELAY" /\ row'[o].status = "CRITICAL_DELAY"}
  /\ worker' = IF ChangedOrders = {} THEN Idle(worker.event, worker.active, "done")
               ELSE [Idle(worker.event, worker.active, "none") EXCEPT
                       !.pc = "telling", !.changes = worker.changes]
  /\ UNCHANGED <<touched, stored, cache, done, creator, alerts, lastUpdate, faults>>

\* publish_to_users; an error is logged and the loop goes on to the alert.
TellUser(o) ==
  /\ worker.pc = "telling" /\ o \in ChangedOrders
  /\ worker' = [worker EXCEPT !.pc = "checking", !.order = o]
  /\ \/ lastUpdate' = [lastUpdate EXCEPT ![o] = worker.changes[o]] /\ UNCHANGED faults
     \/ Fault /\ UNCHANGED lastUpdate
  /\ UNCHANGED <<database, stored, cache, done, creator, alerts>>

\* The order being told is done with.
NextOrder ==
  worker' = IF ChangedOrders = {worker.order} THEN Idle(worker.event, worker.active, "done")
            ELSE [worker EXCEPT !.pc = "telling", !.changes[worker.order] = None,
                                !.order = None]

\* maybe_alert: not critical, or its key is there.
NoAlert ==
  /\ worker.pc = "checking"
  /\ worker.changes[worker.order].status # "CRITICAL_DELAY" \/ worker.order \in alerted
  /\ NextOrder
  /\ UNCHANGED <<database, stored, cache, done, creator, alerts, lastUpdate, faults>>

Alert ==
  /\ worker.pc = "checking"
  /\ worker.changes[worker.order].status = "CRITICAL_DELAY" /\ worker.order \notin alerted
  /\ WorkerGoesTo("sending")
  /\ UNCHANGED <<database, stored, cache, done, creator, alerts, lastUpdate, faults>>

SendMail ==
  /\ worker.pc = "sending"
  /\ emails' = [emails EXCEPT ![worker.order] = @ + 1]
  /\ owed' = owed \ {worker.order}
  /\ WorkerGoesTo("marking")
  /\ UNCHANGED <<row, impacts, written, touched, stored, cache, done, creator, alerted,
                 expiries, lastUpdate, faults>>

\* Faulty variant: the key is not set.
AlertUnmarked ==
  /\ worker.pc = "marking"
  /\ NextOrder
  /\ UNCHANGED <<database, stored, cache, done, creator, alerts, lastUpdate, faults>>

MarkAlerted ==
  /\ worker.pc = "marking"
  /\ alerted' = alerted \cup {worker.order}
  /\ NextOrder
  /\ UNCHANGED <<database, stored, cache, done, creator, emails, expiries, lastUpdate, faults>>

\* The mail is not sent, or its key not set: logged, and the loop goes on.
AlertFails ==
  /\ worker.pc \in {"checking", "sending", "marking"}
  /\ Fault
  /\ NextOrder
  /\ UNCHANGED <<database, stored, cache, done, creator, alerts, lastUpdate>>

\* An exception out of process_one or its recompute, or a crash: an open transaction is
\* rolled back, and nobody takes the event up again.
WorkerStops ==
  /\ worker.pc # "idle"
  /\ Fault
  /\ worker' = Idle(worker.event, worker.active, "failed")
  /\ UNCHANGED <<database, stored, cache, done, creator, alerts, lastUpdate>>

-----------------------------------------------------------------------------
(* The API: create_order and delete_order *)

others == <<stored, cache, done, worker, alerts, owed>>

\* The first commit of create_order.
InsertOrder(o) ==
  /\ creator[o].pc = "none"
  /\ creator' = [creator EXCEPT ![o] = [@ EXCEPT !.pc = "inserted"]]
  /\ row' = [row EXCEPT ![o] = NewRow]
  /\ touched' = touched \cup {o}
  /\ UNCHANGED <<others, impacts, written, lastUpdate, faults>>

\* session.refresh: what others have made of the row since.
LoadOrder(o) ==
  /\ creator[o].pc = "inserted"
  /\ row[o] # None
  /\ creator' = [creator EXCEPT ![o] = [@ EXCEPT !.pc = "loaded", !.loaded = row[o]]]
  /\ UNCHANGED <<others, row, impacts, written, touched, lastUpdate, faults>>

BeginAnalysis(o) ==
  /\ creator[o].pc = "loaded"
  /\ creator' = [creator EXCEPT ![o] = [@ EXCEPT !.pc = "fetching", !.before = cache]]
  /\ UNCHANGED <<others, row, impacts, written, touched, lastUpdate, faults>>

EndAnalysis(o) ==
  /\ creator[o].pc = "fetching"
  /\ \E active \in Fetched(creator[o].before) : \E a \in Analyses[o][active] :
       creator' = [creator EXCEPT
         ![o] = [@ EXCEPT !.pc = "writing", !.before = {}, !.analysis = a]]
  /\ UNCHANGED <<others, row, impacts, written, touched, lastUpdate, faults>>

NothingToUpdate(o) == RowOf(creator[o].analysis) = creator[o].loaded

\* The request's transaction commits with the impact rows it saw replaced.
CreateCommits(o, replaced) ==
  /\ row[o] # None
  /\ impacts' = [impacts EXCEPT
       ![o] = (@ \ replaced) \cup NewImpacts(creator[o].analysis, "create")]
  /\ written' = [written EXCEPT ![o] = @ \cup {creator[o].analysis}]
  /\ creator' = [creator EXCEPT
       ![o] = [@ EXCEPT !.pc = "committed", !.loaded = NewRow, !.replaced = {}]]

\* UPDATE, which waits for the row's lock, then DELETE and INSERT under it.
UpdateOrder(o) ==
  /\ creator[o].pc = "writing" /\ ~NothingToUpdate(o)
  /\ ~Locked(o)
  /\ CreateCommits(o, impacts[o])
  /\ row' = [row EXCEPT ![o] = Updated(@, creator[o].loaded, creator[o].analysis)]
  /\ UNCHANGED <<others, touched, lastUpdate, faults>>

\* No column changed, so no UPDATE and no lock on the row.
ReplaceImpacts(o) ==
  /\ creator[o].pc = "writing" /\ NothingToUpdate(o)
  /\ Locked(o) => worker.replaced[o] \cap impacts[o] = {}
  /\ CreateCommits(o, impacts[o])
  /\ UNCHANGED <<others, row, touched, lastUpdate, faults>>

\* The DELETE waits for impact rows the worker is deleting; it has chosen its rows.
WaitForImpacts(o) ==
  /\ creator[o].pc = "writing" /\ NothingToUpdate(o)
  /\ Locked(o) /\ worker.replaced[o] \cap impacts[o] # {}
  /\ creator' = [creator EXCEPT ![o] = [@ EXCEPT !.pc = "blocked", !.replaced = impacts[o]]]
  /\ UNCHANGED <<others, row, impacts, written, touched, lastUpdate, faults>>

ReplaceAfterWait(o) ==
  /\ creator[o].pc = "blocked"
  /\ ~Locked(o)
  /\ CreateCommits(o, creator[o].replaced)
  /\ UNCHANGED <<others, row, touched, lastUpdate, faults>>

LoadCommitted(o) ==
  /\ creator[o].pc = "committed"
  /\ row[o] # None
  /\ creator' = [creator EXCEPT ![o] = [@ EXCEPT !.pc = "telling"]]
  /\ UNCHANGED <<others, row, impacts, written, touched, lastUpdate, faults>>

\* A publish that fails is passed over.
TellCreated(o) ==
  /\ creator[o].pc = "telling"
  /\ creator' = [creator EXCEPT ![o] = Request("over")]
  /\ \/ lastUpdate' = [lastUpdate EXCEPT ![o] = creator[o].analysis] /\ UNCHANGED faults
     \/ Fault /\ UNCHANGED lastUpdate
  /\ UNCHANGED <<others, row, impacts, written, touched>>

\* Faulty variant: the error is swallowed and the user told all the same.
CreateTellsAnyway(o) ==
  /\ creator[o].pc \in {"writing", "blocked", "committed"}
  /\ row[o] = None
  /\ creator' = [creator EXCEPT ![o] = [@ EXCEPT !.pc = "telling"]]
  /\ UNCHANGED <<others, row, impacts, written, touched, lastUpdate, faults>>

\* The order was deleted meanwhile: refresh, UPDATE or the foreign key of an INSERT raises
\* (with no impact to insert, the refresh after the commit does).
CreateFindsNoRow(o) ==
  /\ creator[o].pc \in {"inserted", "writing", "blocked", "committed"}
  /\ row[o] = None
  /\ creator' = [creator EXCEPT ![o] = Request("over")]
  /\ UNCHANGED <<others, row, impacts, written, touched, lastUpdate, faults>>

\* An error or a crash of the API: what was not committed is rolled back.
CreateStops(o) ==
  /\ creator[o].pc \notin {"none", "over"}
  /\ Fault
  /\ creator' = [creator EXCEPT ![o] = Request("over")]
  /\ UNCHANGED <<others, row, impacts, written, touched, lastUpdate>>

\* Faulty variant: the impact rows stay.
DeleteWithoutCascade(o) ==
  /\ row[o] # None
  /\ ~Locked(o)
  /\ row' = [row EXCEPT ![o] = None]
  /\ UNCHANGED <<others, impacts, written, touched, creator, lastUpdate, faults>>

\* delete_order; the impact rows go with the order (ON DELETE CASCADE).
DeleteOrder(o) ==
  /\ row[o] # None
  /\ ~Locked(o)
  /\ row' = [row EXCEPT ![o] = None]
  /\ impacts' = [impacts EXCEPT ![o] = {}]
  /\ UNCHANGED <<others, written, touched, creator, lastUpdate, faults>>

-----------------------------------------------------------------------------
(* Redis: keys run out *)

ExpireEvent(e) ==
  /\ e \in cache
  /\ cache' = cache \ {e}
  /\ UNCHANGED <<database, stored, done, worker, creator, alerts, lastUpdate, faults>>

ExpireAlert(o) ==
  /\ o \in alerted /\ expiries[o] < MaxExpiries
  /\ alerted' = alerted \ {o}
  /\ expiries' = [expiries EXCEPT ![o] = @ + 1]
  /\ UNCHANGED <<database, stored, cache, done, worker, creator, emails, lastUpdate, faults>>

-----------------------------------------------------------------------------

WorkerStep ==
  \/ StoreEvent \/ CacheEvent \/ BeginFetch \/ EndFetch \/ SelectOrders \/ Commit
  \/ \E o \in Orders : KeepOrder(o) \/ WriteOrder(o) \/ OrderGone(o) \/ TellUser(o)
  \/ NoAlert \/ Alert \/ SendMail \/ MarkAlerted

CreateStep(o) ==
  \/ LoadOrder(o) \/ BeginAnalysis(o) \/ EndAnalysis(o)
  \/ UpdateOrder(o) \/ ReplaceImpacts(o) \/ WaitForImpacts(o) \/ ReplaceAfterWait(o)
  \/ LoadCommitted(o) \/ TellCreated(o) \/ CreateFindsNoRow(o)

Next ==
  \/ \E e \in Events : TakeEvent(e) \/ ExpireEvent(e)
  \/ WorkerStep \/ WorkerStops \/ AlertFails
  \/ \E o \in Orders :
       InsertOrder(o) \/ CreateStep(o) \/ CreateStops(o) \/ DeleteOrder(o) \/ ExpireAlert(o)

Spec == Init /\ [][Next]_vars

\* The two event loops run what is ready.  No event need arrive, no user need act.
FairSpec == Spec /\ WF_vars(WorkerStep) /\ \A o \in Orders : WF_vars(CreateStep(o))

-----------------------------------------------------------------------------
(* Properties *)

\* What a user is told of an order has been committed by whoever tells it.
ToldOnlyCommitted == \A o \in Orders : lastUpdate[o] \in written[o] \cup {None}

\* After a recompute that went through, every order no request wrote to meanwhile has the
\* status and the delay that follow from the events the recompute found active, and those
\* include the event it ran for, unless that has expired.
SettledReflectsActive ==
  worker.pc = "idle" /\ worker.outcome = "done" =>
    /\ worker.event \in worker.active \cup (Events \ cache)
    /\ \A o \in Orders \ touched :
         row[o] # None =>
           \E a \in Analyses[o][worker.active] : row[o].status = a.status /\ row[o].min = a.min

\* An order is mailed about once, and once more at most each time its key expires or
\* something fails between the mail and the key.
EmailsBounded == \A o \in Orders : emails[o] <= 1 + expiries[o] + faults

\* A deleted order stays deleted, and its impacts with it, whatever a recompute or the
\* request that created it has under way.
DeletedStaysDeleted ==
  [][\A o \in Orders : creator[o].pc # "none" /\ row[o] = None =>
       row'[o] = None /\ impacts'[o] = {}]_vars

\* The worker and every request come to an end: nobody waits for ever for a lock, or for a
\* row that is gone.
EverybodyFinishes ==
  /\ worker.pc # "idle" ~> worker.pc = "idle"
  /\ \A o \in Orders : creator[o].pc = "inserted" ~> creator[o].pc = "over"

AtRest == worker.pc = "idle" /\ \A o \in Orders : creator[o].pc \in {"none", "over"}

\* Each delay shown can be traced to an event that caused it.
DelayedHasCause ==
  AtRest /\ faults = 0 =>
    \A o \in Orders : row[o] # None => (row[o].min > 0 => impacts[o] # {})

\* A row's columns are those of one analysis, or of none yet.
RowIsOneAnalysis ==
  \A o \in Orders : row[o] # None => row[o] \in {RowOf(a) : a \in written[o]} \cup {NewRow}

\* The recompute for an event reaches every order no request has written to meanwhile,
\* whether or not other orders are deleted under way.
RecomputeReachesEveryOrder ==
  AtRest /\ faults = 0 /\ worker.event # None =>
    \A o \in Orders \ touched :
      row[o] # None =>
        \E a \in Analyses[o][worker.active] : row[o].status = a.status /\ row[o].min = a.min

\* An order that a recompute turned critical has been mailed about.
CriticalIsMailed == AtRest /\ faults = 0 => owed = {}

\* Once no event is active any more, no order stays delayed.
DelayEndsWithItsEvents ==
  \A o \in Orders :
    cache = {} /\ row[o] # None /\ row[o] # NewRow ~> cache # {} \/ row[o] \in {None, NewRow}
=============================================================================
