----------------------- MODULE OrderRecompute_proofs -----------------------
(***************************************************************************)
(* Proofs about OrderRecompute, for every set of orders and events, every  *)
(* analysis that AnalysesAssumption allows and every number of faults.     *)
(*                                                                         *)
(* TypeInv: types, and what the worker and the requests have in hand.      *)
(* ToldInv, GoneInv, MailInv and SettleInv: one inductive invariant for    *)
(* each property, each proved from TypeInv step by step.                   *)
(***************************************************************************)
EXTENDS OrderRecompute, TLAPS

-----------------------------------------------------------------------------
(* Types *)

\* The worker has the event and the order it works on, and a row it has locked stays.
WorkerInv ==
  /\ worker.pc # "idle" => worker.event \in Events
  /\ worker.pc \in {"idle", "taken", "stored", "cached", "fetching", "selecting"} =>
       ChangedOrders = {}
  /\ worker.pc \in {"checking", "sending", "marking"} => worker.order \in ChangedOrders
  /\ worker.pc = "writing" =>
       /\ \A o \in ChangedOrders : row[o] # None /\ worker.loaded[o] # None
       /\ \A o \in worker.todo : worker.loaded[o] # None

\* A request that is about to write has an analysis.
Analysed(r) == r.pc \in {"writing", "blocked", "committed", "telling"} => r.analysis # None
RequestInv == \A o \in Orders : Analysed(creator[o])

TypeInv == TypeOK /\ WorkerInv /\ RequestInv

LEMMA RowTypes ==
  /\ NewRow \in Row
  /\ \A a \in Analysis : RowOf(a) \in Row
  /\ \A current, loaded \in Row, a \in Analysis : Updated(current, loaded, a) \in Row
BY DEF NewRow, Row, RowOf, Analysis, Updated, Column, Statuses

LEMMA NewImpactsTypes ==
  ASSUME NEW a \in Analysis, NEW w \in Writers, stored \subseteq Events
  PROVE  NewImpacts(a, w) \subseteq Events \X Writers
BY DEF NewImpacts, Analysis

LEMMA NoneIsNothing ==
  None \notin Row /\ None \notin Analysis /\ None \notin Events /\ None \notin Orders
BY BoundsAssumption

\* What a scan may return.
LEMMA FetchedTypes ==
  ASSUME NEW before \in SUBSET Events, cache \subseteq Events, NEW active \in Fetched(before)
  PROVE  active \subseteq Events
BY DEF Fetched

LEMMA AnalysisTypes ==
  ASSUME NEW o \in Orders, NEW active \in SUBSET Events, NEW a \in Analyses[o][active]
  PROVE  a \in Analysis /\ a # None
BY AnalysesAssumption, NoneIsNothing

\* A step of a request for o.
LEMMA OneRequest ==
  ASSUME TypeInv, NEW o \in Orders, NEW r \in CreatorState, Analysed(r),
         creator' = [creator EXCEPT ![o] = r]
  PROVE  creator' \in [Orders -> CreatorState] /\ RequestInv'
BY DEF TypeInv, TypeOK, RequestInv, Analysed

\* The worker is not disturbed by a step that lets the rows it has locked stand.
LEMMA WorkerUndisturbed ==
  ASSUME TypeInv, worker' = worker,
         \A o \in Orders : Locked(o) /\ row[o] # None => row'[o] # None
  PROVE  WorkerInv'
BY DEF TypeInv, WorkerInv, Locked, ChangedOrders

LEMMA OneRow ==
  ASSUME TypeInv, NEW o \in Orders, NEW r \in Row \cup {None}, row' = [row EXCEPT ![o] = r]
  PROVE  /\ row' \in [Orders -> Row \cup {None}]
         /\ row'[o] = r
         /\ \A p \in Orders \ {o} : row'[p] = row[p]
BY DEF TypeInv, TypeOK

LEMMA TypeInit == Init => TypeInv
<1>1. ASSUME Init PROVE TypeOK
  BY <1>1, RowTypes, BoundsAssumption
     DEF Init, TypeOK, Idle, Request, WorkerState, CreatorState
<1>2. ASSUME Init PROVE WorkerInv /\ RequestInv
  BY <1>2 DEF Init, WorkerInv, ChangedOrders, RequestInv, Analysed, Idle, Request
<1>3. QED
  BY <1>1, <1>2 DEF TypeInv

\* The request's record after each of its steps.
LEMMA RequestRecords ==
  ASSUME NEW r \in CreatorState
  PROVE  /\ Request("over") \in CreatorState
         /\ [r EXCEPT !.pc = "inserted"] \in CreatorState
         /\ [r EXCEPT !.pc = "telling"] \in CreatorState
         /\ \A l \in Row : [r EXCEPT !.pc = "loaded", !.loaded = l] \in CreatorState
         /\ \A b \in SUBSET Events :
              [r EXCEPT !.pc = "fetching", !.before = b] \in CreatorState
         /\ \A a \in Analysis :
              [r EXCEPT !.pc = "writing", !.before = {}, !.analysis = a] \in CreatorState
         /\ \A i \in SUBSET (Events \X Writers) :
              [r EXCEPT !.pc = "blocked", !.replaced = i] \in CreatorState
         /\ [r EXCEPT !.pc = "committed", !.loaded = NewRow, !.replaced = {}] \in CreatorState
<1> USE RowTypes DEF CreatorState
<1>1. Request("over") \in CreatorState
  BY DEF Request
<1>2. /\ [r EXCEPT !.pc = "inserted"] \in CreatorState
      /\ [r EXCEPT !.pc = "telling"] \in CreatorState
  OBVIOUS
<1>3. \A l \in Row : [r EXCEPT !.pc = "loaded", !.loaded = l] \in CreatorState
  OBVIOUS
<1>4. \A b \in SUBSET Events : [r EXCEPT !.pc = "fetching", !.before = b] \in CreatorState
  OBVIOUS
<1>5. \A a \in Analysis :
        [r EXCEPT !.pc = "writing", !.before = {}, !.analysis = a] \in CreatorState
  OBVIOUS
<1>6. \A i \in SUBSET (Events \X Writers) :
        [r EXCEPT !.pc = "blocked", !.replaced = i] \in CreatorState
  OBVIOUS
<1>7. [r EXCEPT !.pc = "committed", !.loaded = NewRow, !.replaced = {}] \in CreatorState
  OBVIOUS
<1>8. QED
  BY <1>1, <1>2, <1>3, <1>4, <1>5, <1>6, <1>7

\* Committing the impact rows of a request.
LEMMA CommitTypes ==
  ASSUME TypeInv, NEW o \in Orders, NEW replaced, creator[o].pc \in {"writing", "blocked"},
         CreateCommits(o, replaced)
  PROVE  /\ impacts' \in [Orders -> SUBSET (Events \X Writers)]
         /\ written' \in [Orders -> SUBSET Analysis]
         /\ creator' \in [Orders -> CreatorState]
         /\ RequestInv'
<1>1. creator[o] \in CreatorState /\ creator[o].analysis \in Analysis
  BY DEF TypeInv, TypeOK, RequestInv, Analysed, CreatorState
<1>2. NewImpacts(creator[o].analysis, "create") \subseteq Events \X Writers
  BY <1>1, NewImpactsTypes DEF TypeInv, TypeOK, Writers
<1>3. impacts' \in [Orders -> SUBSET (Events \X Writers)]
  BY <1>2 DEF TypeInv, TypeOK, CreateCommits
<1>4. written' \in [Orders -> SUBSET Analysis]
  BY <1>1 DEF TypeInv, TypeOK, CreateCommits
<1>5. creator' \in [Orders -> CreatorState] /\ RequestInv'
  <2> DEFINE r == [creator[o] EXCEPT !.pc = "committed", !.loaded = NewRow, !.replaced = {}]
  <2>1. r \in CreatorState
    BY <1>1, RequestRecords
  <2>2. Analysed(r)
    BY <1>1, NoneIsNothing DEF Analysed, CreatorState
  <2>3. creator' = [creator EXCEPT ![o] = r]
    BY DEF CreateCommits
  <2>4. QED
    BY <2>1, <2>2, <2>3, OneRequest
<1>6. QED
  BY <1>3, <1>4, <1>5

LEMMA RequestKeepsTypes ==
  ASSUME TypeInv, NEW o \in Orders, InsertOrder(o) \/ CreateStep(o) \/ CreateStops(o)
  PROVE  TypeInv'
<1> DEFINE r == creator[o]
<1>1. /\ r \in CreatorState
      /\ creator \in [Orders -> CreatorState]
      /\ row[o] \in Row \cup {None}
      /\ cache \subseteq Events
      /\ impacts[o] \in SUBSET (Events \X Writers)
  BY DEF TypeInv, TypeOK
<1>2. Analysed(Request("over"))
  BY DEF Analysed, Request
<1> USE DEF others, alerts
<1>3. CASE InsertOrder(o)
  <2>1. creator' \in [Orders -> CreatorState] /\ RequestInv'
    <3>1. Analysed([r EXCEPT !.pc = "inserted"])
      BY <1>1 DEF Analysed, CreatorState
    <3>2. QED
      BY <1>1, <1>3, <3>1, RequestRecords, OneRequest DEF InsertOrder
  <2>2. row' \in [Orders -> Row \cup {None}] /\ WorkerInv'
    BY <1>3, OneRow, RowTypes, NoneIsNothing, WorkerUndisturbed DEF InsertOrder
  <2>3. QED
    BY <1>3, <2>1, <2>2 DEF TypeInv, TypeOK, InsertOrder
<1>4. CASE LoadOrder(o)
  <2>1. creator' \in [Orders -> CreatorState] /\ RequestInv'
    <3>1. Analysed([r EXCEPT !.pc = "loaded", !.loaded = row[o]])
      BY <1>1 DEF Analysed, CreatorState
    <3>2. QED
      BY <1>1, <1>4, <3>1, RequestRecords, OneRequest DEF LoadOrder
  <2>2. WorkerInv'
    BY <1>4, WorkerUndisturbed DEF LoadOrder
  <2>3. QED
    BY <1>4, <2>1, <2>2 DEF TypeInv, TypeOK, LoadOrder
<1>5. CASE BeginAnalysis(o)
  <2>1. creator' \in [Orders -> CreatorState] /\ RequestInv'
    <3>1. Analysed([r EXCEPT !.pc = "fetching", !.before = cache])
      BY <1>1 DEF Analysed, CreatorState
    <3>2. QED
      BY <1>1, <1>5, <3>1, RequestRecords, OneRequest DEF BeginAnalysis
  <2>2. WorkerInv'
    BY <1>5, WorkerUndisturbed DEF BeginAnalysis
  <2>3. QED
    BY <1>5, <2>1, <2>2 DEF TypeInv, TypeOK, BeginAnalysis
<1>6. CASE EndAnalysis(o)
  <2>1. PICK active \in Fetched(creator[o].before) : \E a \in Analyses[o][active] :
          creator' = [creator EXCEPT
            ![o] = [r EXCEPT !.pc = "writing", !.before = {}, !.analysis = a]]
    BY <1>6 DEF EndAnalysis
  <2>2. PICK a \in Analyses[o][active] :
          creator' = [creator EXCEPT
            ![o] = [r EXCEPT !.pc = "writing", !.before = {}, !.analysis = a]]
    BY <2>1
  <2>3. active \subseteq Events
    BY <1>1, FetchedTypes DEF CreatorState
  <2>4. a \in Analysis /\ a # None
    BY <2>3, AnalysisTypes
  <2>5. creator' \in [Orders -> CreatorState] /\ RequestInv'
    <3>1. Analysed([r EXCEPT !.pc = "writing", !.before = {}, !.analysis = a])
      BY <1>1, <2>4 DEF Analysed, CreatorState
    <3>2. QED
      BY <1>1, <2>2, <2>4, <3>1, RequestRecords, OneRequest
  <2>6. WorkerInv'
    BY <1>6, WorkerUndisturbed DEF EndAnalysis
  <2>7. QED
    BY <1>6, <2>5, <2>6 DEF TypeInv, TypeOK, EndAnalysis
<1>7. CASE UpdateOrder(o)
  <2>1. /\ impacts' \in [Orders -> SUBSET (Events \X Writers)]
        /\ written' \in [Orders -> SUBSET Analysis]
        /\ creator' \in [Orders -> CreatorState]
        /\ RequestInv'
    BY <1>7, CommitTypes DEF UpdateOrder
  <2>2. Updated(row[o], r.loaded, r.analysis) \in Row
    <3>1. row[o] \in Row
      BY <1>1, <1>7 DEF UpdateOrder, CreateCommits
    <3>2. r.loaded \in Row /\ r.analysis \in Analysis
      BY <1>1, <1>7 DEF UpdateOrder, TypeInv, RequestInv, Analysed, CreatorState
    <3>3. QED
      BY <3>1, <3>2, RowTypes
  <2>3. row' \in [Orders -> Row \cup {None}] /\ WorkerInv'
    BY <1>7, <2>2, OneRow, NoneIsNothing, WorkerUndisturbed DEF UpdateOrder
  <2>4. QED
    BY <1>7, <2>1, <2>3 DEF TypeInv, TypeOK, UpdateOrder
<1>8. CASE ReplaceImpacts(o)
  <2>1. /\ impacts' \in [Orders -> SUBSET (Events \X Writers)]
        /\ written' \in [Orders -> SUBSET Analysis]
        /\ creator' \in [Orders -> CreatorState]
        /\ RequestInv'
    BY <1>8, CommitTypes DEF ReplaceImpacts
  <2>2. WorkerInv'
    BY <1>8, WorkerUndisturbed DEF ReplaceImpacts
  <2>3. QED
    BY <1>8, <2>1, <2>2 DEF TypeInv, TypeOK, ReplaceImpacts
<1>9. CASE WaitForImpacts(o)
  <2>1. creator' \in [Orders -> CreatorState] /\ RequestInv'
    <3>1. Analysed([r EXCEPT !.pc = "blocked", !.replaced = impacts[o]])
      BY <1>1, <1>9 DEF WaitForImpacts, TypeInv, RequestInv, Analysed, CreatorState
    <3>2. QED
      BY <1>1, <1>9, <3>1, RequestRecords, OneRequest DEF WaitForImpacts
  <2>2. WorkerInv'
    BY <1>9, WorkerUndisturbed DEF WaitForImpacts
  <2>3. QED
    BY <1>9, <2>1, <2>2 DEF TypeInv, TypeOK, WaitForImpacts
<1>10. CASE ReplaceAfterWait(o)
  <2>1. /\ impacts' \in [Orders -> SUBSET (Events \X Writers)]
        /\ written' \in [Orders -> SUBSET Analysis]
        /\ creator' \in [Orders -> CreatorState]
        /\ RequestInv'
    BY <1>10, CommitTypes DEF ReplaceAfterWait
  <2>2. WorkerInv'
    BY <1>10, WorkerUndisturbed DEF ReplaceAfterWait
  <2>3. QED
    BY <1>10, <2>1, <2>2 DEF TypeInv, TypeOK, ReplaceAfterWait
<1>11. CASE LoadCommitted(o)
  <2>1. creator' \in [Orders -> CreatorState] /\ RequestInv'
    <3>1. Analysed([r EXCEPT !.pc = "telling"])
      BY <1>1, <1>11 DEF LoadCommitted, TypeInv, RequestInv, Analysed, CreatorState
    <3>2. QED
      BY <1>1, <1>11, <3>1, RequestRecords, OneRequest DEF LoadCommitted
  <2>2. WorkerInv'
    BY <1>11, WorkerUndisturbed DEF LoadCommitted
  <2>3. QED
    BY <1>11, <2>1, <2>2 DEF TypeInv, TypeOK, LoadCommitted
<1>12. CASE TellCreated(o)
  <2>1. creator' \in [Orders -> CreatorState] /\ RequestInv'
    BY <1>1, <1>2, <1>12, RequestRecords, OneRequest DEF TellCreated
  <2>2. lastUpdate' \in [Orders -> Analysis \cup {None}]
    BY <1>1, <1>12 DEF TellCreated, TypeInv, TypeOK, CreatorState
  <2>3. faults' \in 0..MaxFaults
    BY <1>12, BoundsAssumption DEF TellCreated, Fault, TypeInv, TypeOK
  <2>4. WorkerInv'
    BY <1>12, WorkerUndisturbed DEF TellCreated
  <2>5. QED
    BY <1>12, <2>1, <2>2, <2>3, <2>4 DEF TypeInv, TypeOK, TellCreated
<1>13. CASE CreateFindsNoRow(o)
  <2>1. creator' \in [Orders -> CreatorState] /\ RequestInv'
    BY <1>1, <1>2, <1>13, RequestRecords, OneRequest DEF CreateFindsNoRow
  <2>2. WorkerInv'
    BY <1>13, WorkerUndisturbed DEF CreateFindsNoRow
  <2>3. QED
    BY <1>13, <2>1, <2>2 DEF TypeInv, TypeOK, CreateFindsNoRow
<1>14. CASE CreateStops(o)
  <2>1. creator' \in [Orders -> CreatorState] /\ RequestInv'
    BY <1>1, <1>2, <1>14, RequestRecords, OneRequest DEF CreateStops
  <2>2. faults' \in 0..MaxFaults
    BY <1>14, BoundsAssumption DEF CreateStops, Fault, TypeInv, TypeOK
  <2>3. WorkerInv'
    BY <1>14, WorkerUndisturbed DEF CreateStops
  <2>4. QED
    BY <1>14, <2>1, <2>2, <2>3 DEF TypeInv, TypeOK, CreateStops
<1>15. QED
  BY <1>3, <1>4, <1>5, <1>6, <1>7, <1>8, <1>9, <1>10, <1>11, <1>12, <1>13, <1>14
     DEF CreateStep

\* The worker's record after each of its steps.
LEMMA IdleTypes ==
  ASSUME NEW e \in Events \cup {None}, NEW active \in SUBSET Events,
         NEW outcome \in {"none", "failed", "done"}
  PROVE  /\ Idle(e, active, outcome) \in WorkerState
         /\ [Idle(e, active, outcome) EXCEPT !.pc = "taken"] \in WorkerState
         /\ \A c \in [Orders -> Analysis \cup {None}] :
              [Idle(e, active, outcome) EXCEPT !.pc = "telling", !.changes = c] \in WorkerState
BY DEF Idle, WorkerState

LEMMA WorkerRecords ==
  ASSUME NEW w \in WorkerState
  PROVE  /\ \A p \in {"stored", "cached", "sending", "marking"} :
              [w EXCEPT !.pc = p] \in WorkerState
         /\ \A b \in SUBSET Events :
              [w EXCEPT !.pc = "fetching", !.before = b] \in WorkerState
         /\ \A active \in SUBSET Events :
              [w EXCEPT !.pc = "selecting", !.before = {}, !.active = active] \in WorkerState
         /\ \A l \in [Orders -> Row \cup {None}], todo \in SUBSET Orders :
              [w EXCEPT !.pc = "writing", !.loaded = l, !.todo = todo] \in WorkerState
         /\ \A o \in Orders : [w EXCEPT !.todo = @ \ {o}] \in WorkerState
         /\ \A o \in Orders : [w EXCEPT !.pc = "checking", !.order = o] \in WorkerState
<1> USE DEF WorkerState
<1>1. \A p \in {"stored", "cached", "sending", "marking"} : [w EXCEPT !.pc = p] \in WorkerState
  OBVIOUS
<1>2. \A b \in SUBSET Events : [w EXCEPT !.pc = "fetching", !.before = b] \in WorkerState
  OBVIOUS
<1>3. \A active \in SUBSET Events :
        [w EXCEPT !.pc = "selecting", !.before = {}, !.active = active] \in WorkerState
  OBVIOUS
<1>4. \A l \in [Orders -> Row \cup {None}], todo \in SUBSET Orders :
        [w EXCEPT !.pc = "writing", !.loaded = l, !.todo = todo] \in WorkerState
  OBVIOUS
<1>5. \A o \in Orders : [w EXCEPT !.todo = @ \ {o}] \in WorkerState
  OBVIOUS
<1>6. \A o \in Orders : [w EXCEPT !.pc = "checking", !.order = o] \in WorkerState
  OBVIOUS
<1>7. QED
  BY <1>1, <1>2, <1>3, <1>4, <1>5, <1>6

\* The record after an order has been written.
LEMMA WrittenTypes ==
  ASSUME NEW w \in WorkerState, NEW o \in Orders, NEW a \in Analysis,
         NEW i \in SUBSET (Events \X Writers)
  PROVE  [w EXCEPT !.todo = @ \ {o}, !.changes[o] = a, !.replaced[o] = i] \in WorkerState
<1>1. [w.changes EXCEPT ![o] = a] \in [Orders -> Analysis \cup {None}]
  BY DEF WorkerState
<1>2. [w.replaced EXCEPT ![o] = i] \in [Orders -> SUBSET (Events \X Writers)]
  BY DEF WorkerState
<1>3. QED
  BY <1>1, <1>2 DEF WorkerState

\* Going on to the next order.
LEMMA NextOrderTypes ==
  ASSUME TypeInv, worker.pc \in {"checking", "sending", "marking"}, NextOrder
  PROVE  worker' \in WorkerState /\ WorkerInv'
<1>1. worker \in WorkerState /\ worker.event \in Events /\ worker.active \in SUBSET Events
  BY DEF TypeInv, TypeOK, WorkerInv, WorkerState
<1>2. CASE ChangedOrders = {worker.order}
  <2>1. worker' = Idle(worker.event, worker.active, "done")
    BY <1>2 DEF NextOrder
  <2>2. worker' \in WorkerState
    BY <1>1, <2>1, IdleTypes
  <2>3. WorkerInv'
    BY <2>1 DEF WorkerInv, Idle, ChangedOrders
  <2>4. QED
    BY <2>2, <2>3
<1>3. CASE ChangedOrders # {worker.order}
  <2>1. worker' = [worker EXCEPT !.pc = "telling", !.changes[worker.order] = None,
                                 !.order = None]
    BY <1>3 DEF NextOrder
  <2>2. [worker.changes EXCEPT ![worker.order] = None] \in [Orders -> Analysis \cup {None}]
    BY <1>1 DEF WorkerState
  <2>3. worker' \in WorkerState
    BY <1>1, <2>1, <2>2 DEF WorkerState
  <2>4. worker'.pc = "telling" /\ worker'.event = worker.event
    BY <1>1, <2>1 DEF WorkerState
  <2>5. QED
    BY <1>1, <2>3, <2>4 DEF WorkerInv
<1>4. QED
  BY <1>2, <1>3

\* Only the worker's record and what is not listed may change in most of its steps.
WorkerAlone == UNCHANGED <<database, creator, expiries>>

LEMMA WorkerAloneTypes ==
  ASSUME TypeInv, WorkerAlone, worker' \in WorkerState,
         stored' \subseteq Events, cache' \subseteq Events, done' \subseteq Events,
         alerted' \subseteq Orders, emails' \in [Orders -> Nat],
         lastUpdate' \in [Orders -> Analysis \cup {None}], faults' \in 0..MaxFaults
  PROVE  TypeOK' /\ RequestInv'
BY DEF TypeInv, TypeOK, RequestInv, WorkerAlone, database


LEMMA WorkerKeepsTypes ==
  ASSUME TypeInv,
         WorkerStep \/ WorkerStops \/ AlertFails \/ \E e \in Events : TakeEvent(e)
  PROVE  TypeInv'
<1>1. /\ worker \in WorkerState
      /\ worker.pc # "idle" => worker.event \in Events
      /\ worker.event \in Events \cup {None}
      /\ worker.active \in SUBSET Events
      /\ worker.changes \in [Orders -> Analysis \cup {None}]
  BY DEF TypeInv, TypeOK, WorkerInv, WorkerState
<1>2. /\ row \in [Orders -> Row \cup {None}]
      /\ impacts \in [Orders -> SUBSET (Events \X Writers)]
      /\ stored \subseteq Events /\ cache \subseteq Events /\ done \subseteq Events
      /\ alerted \subseteq Orders
      /\ lastUpdate \in [Orders -> Analysis \cup {None}]
      /\ emails \in [Orders -> Nat]
      /\ faults \in 0..MaxFaults
  BY DEF TypeInv, TypeOK
<1>3. ASSUME Fault PROVE faults' \in 0..MaxFaults
  BY <1>2, <1>3, BoundsAssumption DEF Fault
<1> USE DEF database, alerts, WorkerAlone
<1>4. ASSUME NEW e \in Events, TakeEvent(e) PROVE TypeInv'
  <2>1. worker' = [Idle(e, {}, "none") EXCEPT !.pc = "taken"]
    BY <1>4 DEF TakeEvent
  <2>2. worker' \in WorkerState
    BY <2>1, IdleTypes
  <2>3. WorkerInv'
    BY <2>1 DEF WorkerInv, Idle, ChangedOrders
  <2>4. QED
    BY <1>2, <1>4, <2>2, <2>3, WorkerAloneTypes DEF TypeInv, TakeEvent
<1>5. CASE StoreEvent
  <2>1. worker' \in WorkerState
    BY <1>1, <1>5, WorkerRecords DEF StoreEvent, WorkerGoesTo
  <2>2. WorkerInv'
    BY <1>1, <1>5 DEF TypeInv, WorkerInv, ChangedOrders, WorkerState, StoreEvent, WorkerGoesTo
  <2>3. QED
    BY <1>1, <1>2, <1>5, <2>1, <2>2, WorkerAloneTypes DEF TypeInv, StoreEvent
<1>6. CASE CacheEvent
  <2>1. worker' \in WorkerState
    BY <1>1, <1>6, WorkerRecords DEF CacheEvent, WorkerGoesTo
  <2>2. WorkerInv'
    BY <1>1, <1>6 DEF TypeInv, WorkerInv, ChangedOrders, WorkerState, CacheEvent, WorkerGoesTo
  <2>3. QED
    BY <1>1, <1>2, <1>6, <2>1, <2>2, WorkerAloneTypes DEF TypeInv, CacheEvent
<1>7. CASE BeginFetch
  <2>1. worker' \in WorkerState
    BY <1>1, <1>2, <1>7, WorkerRecords DEF BeginFetch
  <2>2. WorkerInv'
    BY <1>1, <1>7 DEF TypeInv, WorkerInv, ChangedOrders, WorkerState, BeginFetch
  <2>3. QED
    BY <1>2, <1>7, <2>1, <2>2, WorkerAloneTypes DEF TypeInv, BeginFetch
<1>8. CASE EndFetch
  <2>1. PICK active \in Fetched(worker.before) :
          worker' = [worker EXCEPT !.pc = "selecting", !.before = {}, !.active = active]
    BY <1>8 DEF EndFetch
  <2>2. active \in SUBSET Events
    BY <1>1, <1>2, FetchedTypes DEF WorkerState
  <2>3. worker' \in WorkerState
    BY <1>1, <2>1, <2>2, WorkerRecords
  <2>4. WorkerInv'
    BY <1>1, <1>8, <2>1 DEF TypeInv, WorkerInv, ChangedOrders, WorkerState, EndFetch
  <2>5. QED
    BY <1>2, <1>8, <2>3, <2>4, WorkerAloneTypes DEF TypeInv, EndFetch
<1>9. CASE SelectOrders
  <2> DEFINE todo == {o \in Orders : row[o] # None}
  <2>1. worker' = [worker EXCEPT !.pc = "writing", !.loaded = row, !.todo = todo]
    BY <1>9 DEF SelectOrders
  <2>2. worker' \in WorkerState
    BY <1>1, <1>2, <2>1, WorkerRecords
  <2>3. /\ worker'.pc = "writing"
        /\ worker'.event = worker.event
        /\ worker'.loaded = row
        /\ worker'.todo = todo
        /\ worker'.changes = worker.changes
    BY <1>1, <2>1 DEF WorkerState
  <2>4. ChangedOrders = {}
    BY <1>9 DEF SelectOrders, TypeInv, WorkerInv
  <2>5. WorkerInv'
    BY <1>1, <1>9, <2>3, <2>4 DEF WorkerInv, SelectOrders, ChangedOrders
  <2>6. QED
    BY <1>9, <2>2, <2>5 DEF TypeInv, TypeOK, RequestInv, SelectOrders
<1>10. ASSUME NEW o \in Orders, KeepOrder(o) PROVE TypeInv'
  <2>1. worker' = [worker EXCEPT !.todo = @ \ {o}]
    BY <1>10 DEF KeepOrder
  <2>2. worker' \in WorkerState
    BY <1>1, <2>1, WorkerRecords
  <2>3. WorkerInv'
    BY <1>1, <1>10, <2>1 DEF TypeInv, WorkerInv, ChangedOrders, WorkerState, KeepOrder
  <2>4. QED
    BY <1>2, <1>10, <2>2, <2>3, WorkerAloneTypes DEF TypeInv, KeepOrder
<1>11. ASSUME NEW o \in Orders, WriteOrder(o) PROVE TypeInv'
  <2>1. PICK a \in Analyses[o][worker.active] :
          worker' = [worker EXCEPT !.todo = @ \ {o}, !.changes[o] = a,
                                   !.replaced[o] = impacts[o]]
    BY <1>11 DEF WriteOrder
  <2>2. a \in Analysis /\ a # None
    BY <1>1, AnalysisTypes
  <2>3. worker' \in WorkerState
    BY <1>1, <1>2, <2>1, <2>2, WrittenTypes
  <2>4. /\ worker'.pc = "writing"
        /\ worker'.event = worker.event
        /\ worker'.loaded = worker.loaded
        /\ worker'.todo = worker.todo \ {o}
        /\ worker'.changes = [worker.changes EXCEPT ![o] = a]
    BY <1>1, <1>11, <2>1 DEF WorkerState, WriteOrder
  <2>5. ChangedOrders' \subseteq ChangedOrders \cup {o}
    BY <1>1, <2>4 DEF ChangedOrders
  <2>6. o \in worker.todo /\ row[o] # None /\ row' = row /\ worker.pc = "writing"
    BY <1>11 DEF WriteOrder
  <2>7. WorkerInv'
    BY <1>1, <2>4, <2>5, <2>6 DEF TypeInv, WorkerInv
  <2>8. QED
    BY <1>2, <1>11, <2>3, <2>7, WorkerAloneTypes DEF TypeInv, WriteOrder
<1>12. ASSUME worker' = Idle(worker.event, worker.active, "failed")
       PROVE  worker' \in WorkerState /\ WorkerInv'
  <2>1. worker' \in WorkerState
    BY <1>1, <1>12, IdleTypes
  <2>2. WorkerInv'
    BY <1>12 DEF WorkerInv, Idle, ChangedOrders
  <2>3. QED
    BY <2>1, <2>2
<1>13. ASSUME NEW o \in Orders, OrderGone(o) PROVE TypeInv'
  BY <1>2, <1>12, <1>13, WorkerAloneTypes DEF TypeInv, OrderGone
<1>14. CASE Commit
  <2>1. /\ worker.pc = "writing"
        /\ worker.event \in Writers
        /\ \A o \in ChangedOrders :
             row[o] \in Row /\ worker.loaded[o] \in Row /\ worker.changes[o] \in Analysis
    BY <1>1, <1>2, <1>14
       DEF Commit, TypeInv, WorkerInv, ChangedOrders, WorkerState, Writers
  <2>2. row' \in [Orders -> Row \cup {None}]
    <3>1. \A o \in ChangedOrders :
            Updated(row[o], worker.loaded[o], worker.changes[o]) \in Row
      BY <2>1, RowTypes
    <3>2. QED
      BY <1>2, <1>14, <3>1 DEF Commit
  <2>3. impacts' \in [Orders -> SUBSET (Events \X Writers)]
    <3>1. \A o \in ChangedOrders :
            NewImpacts(worker.changes[o], worker.event) \subseteq Events \X Writers
      BY <1>2, <2>1, NewImpactsTypes
    <3>2. QED
      BY <1>2, <1>14, <3>1 DEF Commit
  <2>4. written' \in [Orders -> SUBSET Analysis] /\ owed' \subseteq Orders
    BY <1>14, <2>1 DEF Commit, TypeInv, TypeOK, ChangedOrders
  <2>5. worker' \in WorkerState /\ WorkerInv'
    <3>1. CASE ChangedOrders = {}
      <4>1. worker' = Idle(worker.event, worker.active, "done")
        BY <1>14, <3>1 DEF Commit
      <4>2. worker' \in WorkerState
        BY <1>1, <4>1, IdleTypes
      <4>3. WorkerInv'
        BY <4>1 DEF WorkerInv, Idle, ChangedOrders
      <4>4. QED
        BY <4>2, <4>3
    <3>2. CASE ChangedOrders # {}
      <4>1. worker' = [Idle(worker.event, worker.active, "none") EXCEPT
                         !.pc = "telling", !.changes = worker.changes]
        BY <1>14, <3>2 DEF Commit
      <4>2. worker' \in WorkerState
        BY <1>1, <4>1, IdleTypes
      <4>3. WorkerInv'
        BY <1>1, <2>1, <4>1 DEF WorkerInv, Idle
      <4>4. QED
        BY <4>2, <4>3
    <3>3. QED
      BY <3>1, <3>2
  <2>6. QED
    BY <1>14, <2>2, <2>3, <2>4, <2>5 DEF TypeInv, TypeOK, RequestInv, Commit
<1>15. ASSUME NEW o \in Orders, TellUser(o) PROVE TypeInv'
  <2>1. worker' = [worker EXCEPT !.pc = "checking", !.order = o] /\ o \in ChangedOrders
    BY <1>15 DEF TellUser
  <2>2. worker' \in WorkerState
    BY <1>1, <2>1, WorkerRecords
  <2>3. WorkerInv'
    BY <1>1, <1>15, <2>1 DEF WorkerInv, ChangedOrders, WorkerState, TellUser
  <2>4. lastUpdate' \in [Orders -> Analysis \cup {None}] /\ faults' \in 0..MaxFaults
    BY <1>1, <1>2, <1>3, <1>15 DEF TellUser
  <2>5. QED
    BY <1>2, <1>15, <2>2, <2>3, <2>4, WorkerAloneTypes DEF TypeInv, TellUser
<1>16. CASE NoAlert
  <2>1. worker' \in WorkerState /\ WorkerInv'
    BY <1>16, NextOrderTypes DEF NoAlert
  <2>2. QED
    BY <1>2, <1>16, <2>1, WorkerAloneTypes DEF TypeInv, NoAlert
<1>17. CASE Alert
  <2>1. worker' \in WorkerState
    BY <1>1, <1>17, WorkerRecords DEF Alert, WorkerGoesTo
  <2>2. WorkerInv'
    BY <1>1, <1>17 DEF TypeInv, WorkerInv, ChangedOrders, WorkerState, Alert, WorkerGoesTo
  <2>3. QED
    BY <1>2, <1>17, <2>1, <2>2, WorkerAloneTypes DEF TypeInv, Alert
<1>18. CASE SendMail
  <2>1. worker' \in WorkerState
    BY <1>1, <1>18, WorkerRecords DEF SendMail, WorkerGoesTo
  <2>2. WorkerInv'
    BY <1>1, <1>18 DEF TypeInv, WorkerInv, ChangedOrders, WorkerState, SendMail, WorkerGoesTo
  <2>3. owed' \subseteq Orders
    BY <1>18 DEF SendMail, TypeInv, TypeOK
  <2>4. emails' \in [Orders -> Nat]
    <3>1. emails \in [Orders -> Nat] /\ worker.order \in Orders
      BY <1>2, <1>18 DEF SendMail, TypeInv, WorkerInv, ChangedOrders
    <3>2. emails' = [emails EXCEPT ![worker.order] = @ + 1]
      BY <1>18 DEF SendMail
    <3>3. emails[worker.order] + 1 \in Nat
      BY <3>1
    <3>4. QED
      BY <3>1, <3>2, <3>3
  <2>5. QED
    BY <1>18, <2>1, <2>2, <2>3, <2>4 DEF TypeInv, TypeOK, RequestInv, SendMail
<1>19. CASE MarkAlerted
  <2>1. worker' \in WorkerState /\ WorkerInv'
    BY <1>19, NextOrderTypes DEF MarkAlerted
  <2>2. alerted' \subseteq Orders
    BY <1>2, <1>19 DEF MarkAlerted, TypeInv, WorkerInv, ChangedOrders
  <2>3. QED
    BY <1>2, <1>19, <2>1, <2>2, WorkerAloneTypes DEF TypeInv, MarkAlerted
<1>20. CASE AlertFails
  <2>1. worker' \in WorkerState /\ WorkerInv'
    BY <1>20, NextOrderTypes DEF AlertFails
  <2>2. QED
    BY <1>2, <1>3, <1>20, <2>1, WorkerAloneTypes DEF TypeInv, AlertFails
<1>21. CASE WorkerStops
  BY <1>2, <1>3, <1>12, <1>21, WorkerAloneTypes DEF TypeInv, WorkerStops
<1>22. QED
  BY <1>4, <1>5, <1>6, <1>7, <1>8, <1>9, <1>10, <1>11, <1>13, <1>14, <1>15, <1>16, <1>17,
     <1>18, <1>19, <1>20, <1>21 DEF WorkerStep

LEMMA OtherStepsKeepTypes ==
  ASSUME TypeInv,
         \/ \E o \in Orders : DeleteOrder(o) \/ ExpireAlert(o)
         \/ \E e \in Events : ExpireEvent(e)
         \/ UNCHANGED vars
  PROVE  TypeInv'
<1> USE DEF others, alerts, database
<1>1. ASSUME NEW o \in Orders, DeleteOrder(o) PROVE TypeInv'
  <2>1. row' \in [Orders -> Row \cup {None}] /\ \A p \in Orders \ {o} : row'[p] = row[p]
    BY <1>1, OneRow DEF DeleteOrder
  <2>2. WorkerInv'
    BY <1>1, <2>1, WorkerUndisturbed DEF DeleteOrder
  <2>3. QED
    BY <1>1, <2>1, <2>2 DEF TypeInv, TypeOK, RequestInv, DeleteOrder
<1>2. ASSUME NEW o \in Orders, ExpireAlert(o) PROVE TypeInv'
  <2>1. WorkerInv'
    BY <1>2, WorkerUndisturbed DEF ExpireAlert
  <2>2. QED
    BY <1>2, <2>1, BoundsAssumption DEF TypeInv, TypeOK, RequestInv, ExpireAlert
<1>3. ASSUME NEW e \in Events, ExpireEvent(e) PROVE TypeInv'
  <2>1. WorkerInv'
    BY <1>3, WorkerUndisturbed DEF ExpireEvent
  <2>2. QED
    BY <1>3, <2>1 DEF TypeInv, TypeOK, RequestInv, ExpireEvent
<1>4. CASE UNCHANGED vars
  BY <1>4 DEF TypeInv, TypeOK, WorkerInv, ChangedOrders, RequestInv, vars
<1>5. QED
  BY <1>1, <1>2, <1>3, <1>4

LEMMA TypeNext == ASSUME TypeInv, [Next]_vars PROVE TypeInv'
BY RequestKeepsTypes, WorkerKeepsTypes, OtherStepsKeepTypes DEF Next

\* Every variable keeps its type: the worker never works on an event or an order that is not
\* there, and a commit never writes to a row that is gone.
THEOREM TypeCorrect == Spec => []TypeOK
<1>1. TypeInv => TypeOK
  BY DEF TypeInv
<1>2. QED
  BY <1>1, TypeInit, TypeNext, PTL DEF Spec

-----------------------------------------------------------------------------
(* What the worker's steps leave alone *)

\* Up to the commit.
Early == {"idle", "taken", "stored", "cached", "fetching", "selecting", "writing"}

EarlyStep ==
  \/ \E e \in Events : TakeEvent(e)
  \/ StoreEvent \/ CacheEvent \/ BeginFetch \/ EndFetch \/ SelectOrders
  \/ \E o \in Orders : KeepOrder(o) \/ WriteOrder(o) \/ OrderGone(o)

\* Up to the commit nothing the worker does can be seen from outside but the event.
LEMMA EarlySteps ==
  ASSUME TypeInv, EarlyStep
  PROVE  /\ worker.pc \in Early /\ worker'.pc \in Early
         /\ UNCHANGED <<row, impacts, written, owed, creator, alerts, lastUpdate, faults>>
<1>1. worker \in WorkerState
  BY DEF TypeInv, TypeOK
<1> USE DEF Early, database
<1>2. ASSUME NEW e \in Events, TakeEvent(e)
      PROVE  worker.pc \in Early /\ worker'.pc \in Early
  BY <1>2 DEF TakeEvent, Idle
<1>3. CASE StoreEvent
  BY <1>1, <1>3 DEF StoreEvent, WorkerGoesTo, WorkerState
<1>4. CASE CacheEvent
  BY <1>1, <1>4 DEF CacheEvent, WorkerGoesTo, WorkerState
<1>5. CASE BeginFetch
  BY <1>1, <1>5 DEF BeginFetch, WorkerState
<1>6. CASE EndFetch
  BY <1>1, <1>6 DEF EndFetch, WorkerState
<1>7. CASE SelectOrders
  BY <1>1, <1>7 DEF SelectOrders, WorkerState
<1>8. ASSUME NEW o \in Orders, KeepOrder(o) \/ WriteOrder(o) \/ OrderGone(o)
      PROVE  worker.pc \in Early /\ worker'.pc \in Early
  <2>1. worker.pc = "writing"
    BY <1>8 DEF KeepOrder, WriteOrder, OrderGone
  <2>2. KeepOrder(o) => worker'.pc = "writing"
    BY <1>1 DEF KeepOrder, WorkerState
  <2>3. WriteOrder(o) => worker'.pc = "writing"
    BY <1>1 DEF WriteOrder, WorkerState
  <2>4. OrderGone(o) => worker'.pc = "idle"
    BY DEF OrderGone, Idle
  <2>5. QED
    BY <1>8, <2>1, <2>2, <2>3, <2>4
<1>9. UNCHANGED <<row, impacts, written, owed, creator, alerts, lastUpdate, faults>>
  BY DEF EarlyStep, TakeEvent, StoreEvent, CacheEvent, BeginFetch, EndFetch, SelectOrders,
         KeepOrder, WriteOrder, OrderGone
<1>10. QED
  BY <1>2, <1>3, <1>4, <1>5, <1>6, <1>7, <1>8, <1>9 DEF EarlyStep

-----------------------------------------------------------------------------
(* What users are told *)

ToldInv ==
  /\ ToldOnlyCommitted
  /\ worker.pc \in {"telling", "checking", "sending", "marking"} =>
       \A o \in ChangedOrders : worker.changes[o] \in written[o]
  /\ \A o \in Orders :
       creator[o].pc \in {"committed", "telling"} => creator[o].analysis \in written[o]

LEMMA ToldInit == Init => ToldInv
BY DEF Init, ToldInv, ToldOnlyCommitted, Idle, Request

\* Going on to the next order: fewer orders to tell, with the same analyses.
LEMMA NextOrderChanges ==
  ASSUME TypeInv, worker.pc \in {"checking", "sending", "marking"}, NextOrder
  PROVE  /\ worker'.pc \in {"idle", "telling"}
         /\ ChangedOrders' = ChangedOrders \ {worker.order}
         /\ \A o \in ChangedOrders' : worker'.changes[o] = worker.changes[o]
         /\ worker'.event = worker.event
         /\ worker'.active = worker.active
         /\ worker'.pc = "idle" => worker'.outcome = "done"
<1>1. /\ worker \in WorkerState /\ worker.order \in ChangedOrders
      /\ worker.changes \in [Orders -> Analysis \cup {None}]
  BY DEF TypeInv, TypeOK, WorkerInv, WorkerState
<1>2. CASE ChangedOrders = {worker.order}
  <2>1. worker' = Idle(worker.event, worker.active, "done")
    BY <1>2 DEF NextOrder
  <2>2. QED
    BY <1>2, <2>1 DEF Idle, ChangedOrders
<1>3. CASE ChangedOrders # {worker.order}
  <2>1. worker' = [worker EXCEPT !.pc = "telling", !.changes[worker.order] = None,
                                 !.order = None]
    BY <1>3 DEF NextOrder
  <2>2. /\ worker'.pc = "telling"
        /\ worker'.changes = [worker.changes EXCEPT ![worker.order] = None]
        /\ worker'.event = worker.event
        /\ worker'.active = worker.active
    BY <1>1, <2>1 DEF WorkerState
  <2>3. QED
    BY <1>1, <2>2 DEF ChangedOrders
<1>4. QED
  BY <1>2, <1>3

\* The analyses committed so far only become more.
LEMMA WrittenGrows ==
  ASSUME TypeInv, [Next]_vars
  PROVE  \A o \in Orders : written[o] \subseteq written'[o]
<1> USE DEF TypeInv, TypeOK, others, database, alerts
<1>1. CASE Commit
  BY <1>1 DEF Commit
<1>2. ASSUME NEW o \in Orders, UpdateOrder(o) \/ ReplaceImpacts(o) \/ ReplaceAfterWait(o)
      PROVE  \A p \in Orders : written[p] \subseteq written'[p]
  BY <1>2 DEF UpdateOrder, ReplaceImpacts, ReplaceAfterWait, CreateCommits
<1>3. CASE UNCHANGED written
  BY <1>3
<1>4. QED
  BY <1>1, <1>2, <1>3
     DEF Next, vars, WorkerStep, CreateStep, TakeEvent, ExpireEvent, StoreEvent, CacheEvent,
         BeginFetch, EndFetch, SelectOrders, KeepOrder, WriteOrder, OrderGone, TellUser,
         NoAlert, Alert, SendMail, MarkAlerted, WorkerStops, AlertFails, InsertOrder,
         LoadOrder, BeginAnalysis, EndAnalysis, WaitForImpacts, LoadCommitted, TellCreated,
         CreateFindsNoRow, CreateStops, DeleteOrder, ExpireAlert


\* The worker's steps that only it sees: no update goes out, nothing is committed.
LEMMA ToldFrame ==
  ASSUME ToldInv, TypeInv, UNCHANGED <<creator, lastUpdate>>,
         \A o \in Orders : written[o] \subseteq written'[o],
         worker'.pc \in {"telling", "checking", "sending", "marking"} =>
           \A o \in ChangedOrders' : worker'.changes[o] \in written'[o]
  PROVE  ToldInv'
BY DEF ToldInv, ToldOnlyCommitted

LEMMA WorkerTellsCommitted ==
  ASSUME TypeInv, ToldInv, [Next]_vars,
         WorkerStep \/ WorkerStops \/ AlertFails \/ \E e \in Events : TakeEvent(e)
  PROVE  ToldInv'
<1>1. /\ \A o \in Orders : written[o] \subseteq written'[o]
      /\ worker \in WorkerState
      /\ worker.changes \in [Orders -> Analysis \cup {None}]
      /\ lastUpdate \in [Orders -> Analysis \cup {None}]
  BY WrittenGrows DEF TypeInv, TypeOK, WorkerState
<1> USE DEF database
<1>2. CASE EarlyStep
  BY <1>1, <1>2, EarlySteps, ToldFrame DEF Early
<1>3. CASE Commit
  <2>1. /\ ChangedOrders' \subseteq ChangedOrders
        /\ \A o \in ChangedOrders' : worker'.changes[o] = worker.changes[o]
    BY <1>3 DEF Commit, Idle, ChangedOrders
  <2>2. \A o \in ChangedOrders : worker.changes[o] \in written'[o]
    BY <1>3 DEF Commit, ChangedOrders
  <2>3. UNCHANGED <<creator, lastUpdate>>
    BY <1>3 DEF Commit
  <2>4. QED
    BY <1>1, <2>1, <2>2, <2>3, ToldFrame
<1>4. ASSUME NEW o \in Orders, TellUser(o) PROVE ToldInv'
  <2>1. /\ worker.pc = "telling" /\ o \in ChangedOrders
        /\ worker'.changes = worker.changes
        /\ written' = written /\ creator' = creator
        /\ \/ lastUpdate' = [lastUpdate EXCEPT ![o] = worker.changes[o]]
           \/ lastUpdate' = lastUpdate
    BY <1>1, <1>4 DEF TellUser, WorkerState
  <2>2. ChangedOrders' = ChangedOrders
    BY <2>1 DEF ChangedOrders
  <2>3. \A p \in ChangedOrders : worker.changes[p] \in written[p]
    BY <2>1 DEF ToldInv
  <2>4. ToldOnlyCommitted'
    BY <1>1, <2>1, <2>3 DEF ToldInv, ToldOnlyCommitted
  <2>5. QED
    BY <2>1, <2>2, <2>3, <2>4 DEF ToldInv
<1>5. ASSUME worker.pc \in {"checking", "sending", "marking"}, NextOrder,
             UNCHANGED <<creator, lastUpdate, written>>
      PROVE  ToldInv'
  BY <1>1, <1>5, NextOrderChanges, ToldFrame DEF ToldInv
<1>6. CASE NoAlert \/ MarkAlerted \/ AlertFails
  BY <1>5, <1>6 DEF NoAlert, MarkAlerted, AlertFails
<1>7. CASE Alert \/ SendMail
  <2>1. /\ worker.pc \in {"checking", "sending"}
        /\ worker'.changes = worker.changes
        /\ UNCHANGED <<creator, lastUpdate>>
    BY <1>1, <1>7 DEF Alert, SendMail, WorkerGoesTo, WorkerState
  <2>2. QED
    BY <1>1, <2>1, ToldFrame DEF ToldInv, ChangedOrders
<1>8. CASE WorkerStops
  <2>1. worker'.pc = "idle" /\ UNCHANGED <<creator, lastUpdate>>
    BY <1>8 DEF WorkerStops, Idle
  <2>2. QED
    BY <1>1, <2>1, ToldFrame
<1>9. QED
  BY <1>2, <1>3, <1>4, <1>6, <1>7, <1>8 DEF WorkerStep, EarlyStep

\* A step of a request that publishes nothing.
LEMMA RequestTellsNothing ==
  ASSUME TypeInv, ToldInv, NEW o \in Orders, NEW r,
         creator' = [creator EXCEPT ![o] = r], UNCHANGED <<worker, lastUpdate>>,
         \A p \in Orders : written[p] \subseteq written'[p],
         r.pc \in {"committed", "telling"} => r.analysis \in written'[o]
  PROVE  ToldInv'
<1>1. creator \in [Orders -> CreatorState] /\ ChangedOrders' = ChangedOrders
  BY DEF TypeInv, TypeOK, ChangedOrders
<1>2. ToldOnlyCommitted'
  BY DEF ToldInv, ToldOnlyCommitted
<1>3. \A p \in Orders :
        creator'[p].pc \in {"committed", "telling"} => creator'[p].analysis \in written'[p]
  BY <1>1 DEF ToldInv
<1>4. worker.pc \in {"telling", "checking", "sending", "marking"} =>
        \A p \in ChangedOrders : worker.changes[p] \in written'[p]
  BY DEF ToldInv, ChangedOrders
<1>5. QED
  BY <1>1, <1>2, <1>3, <1>4 DEF ToldInv

\* The requests' steps: what a request commits is its analysis, and that is what it tells.
LEMMA RequestTellsCommitted ==
  ASSUME TypeInv, ToldInv, [Next]_vars, NEW o \in Orders,
         InsertOrder(o) \/ CreateStep(o) \/ CreateStops(o)
  PROVE  ToldInv'
<1> DEFINE r == creator'[o]
<1>1. /\ \A p \in Orders : written[p] \subseteq written'[p]
      /\ creator \in [Orders -> CreatorState]
      /\ creator[o] \in CreatorState
      /\ lastUpdate \in [Orders -> Analysis \cup {None}]
      /\ written \in [Orders -> SUBSET Analysis]
  BY WrittenGrows DEF TypeInv, TypeOK
<1>2. CASE InsertOrder(o) \/ LoadOrder(o) \/ BeginAnalysis(o) \/ WaitForImpacts(o)
  <2>1. UNCHANGED <<worker, lastUpdate>> /\ creator' = [creator EXCEPT ![o] = r]
    BY <1>1, <1>2 DEF InsertOrder, LoadOrder, BeginAnalysis, WaitForImpacts, others
  <2>2. InsertOrder(o) => r.pc = "inserted"
    BY <1>1 DEF InsertOrder, CreatorState
  <2>3. LoadOrder(o) => r.pc = "loaded"
    BY <1>1 DEF LoadOrder, CreatorState
  <2>4. BeginAnalysis(o) => r.pc = "fetching"
    BY <1>1 DEF BeginAnalysis, CreatorState
  <2>5. WaitForImpacts(o) => r.pc = "blocked"
    BY <1>1 DEF WaitForImpacts, CreatorState
  <2>6. QED
    BY <1>1, <1>2, <2>1, <2>2, <2>3, <2>4, <2>5, RequestTellsNothing
<1>3. CASE EndAnalysis(o)
  <2>1. UNCHANGED <<worker, lastUpdate>> /\ creator' = [creator EXCEPT ![o] = r]
    BY <1>1, <1>3 DEF EndAnalysis, others
  <2>2. r.pc = "writing"
    BY <1>1, <1>3 DEF EndAnalysis, CreatorState
  <2>3. QED
    BY <1>1, <2>1, <2>2, RequestTellsNothing
<1>4. CASE UpdateOrder(o) \/ ReplaceImpacts(o) \/ ReplaceAfterWait(o)
  <2>1. /\ creator' = [creator EXCEPT
             ![o] = [@ EXCEPT !.pc = "committed", !.loaded = NewRow, !.replaced = {}]]
        /\ written' = [written EXCEPT ![o] = @ \cup {creator[o].analysis}]
        /\ UNCHANGED <<worker, lastUpdate>>
    BY <1>4 DEF UpdateOrder, ReplaceImpacts, ReplaceAfterWait, CreateCommits, others
  <2>2. creator[o].analysis \in written'[o]
    BY <1>1, <2>1
  <2>3. r.analysis = creator[o].analysis /\ creator' = [creator EXCEPT ![o] = r]
    BY <1>1, <2>1 DEF CreatorState
  <2>4. QED
    BY <1>1, <2>1, <2>2, <2>3, RequestTellsNothing
<1>5. CASE LoadCommitted(o)
  <2>1. UNCHANGED <<worker, lastUpdate>> /\ creator' = [creator EXCEPT ![o] = r]
    BY <1>1, <1>5 DEF LoadCommitted, others
  <2>2. r.analysis = creator[o].analysis /\ creator[o].pc = "committed"
    BY <1>1, <1>5 DEF LoadCommitted, CreatorState
  <2>3. r.analysis \in written'[o]
    BY <1>1, <2>2 DEF ToldInv
  <2>4. QED
    BY <1>1, <2>1, <2>3, RequestTellsNothing
<1>6. CASE CreateFindsNoRow(o) \/ CreateStops(o)
  <2>1. UNCHANGED <<worker, lastUpdate>> /\ creator' = [creator EXCEPT ![o] = Request("over")]
    BY <1>6 DEF CreateFindsNoRow, CreateStops, others
  <2>2. Request("over").pc = "over"
    BY DEF Request
  <2>3. QED
    BY <1>1, <2>1, <2>2, RequestTellsNothing
<1>7. CASE TellCreated(o)
  <2>1. /\ creator[o].analysis \in written[o]
        /\ creator' = [creator EXCEPT ![o] = Request("over")]
        /\ UNCHANGED <<worker, written>>
        /\ \/ lastUpdate' = [lastUpdate EXCEPT ![o] = creator[o].analysis]
           \/ lastUpdate' = lastUpdate
    BY <1>7 DEF TellCreated, ToldInv, others
  <2>2. ToldOnlyCommitted'
    BY <1>1, <2>1 DEF ToldInv, ToldOnlyCommitted
  <2>3. creator'[o].pc = "over" /\ \A p \in Orders \ {o} : creator'[p] = creator[p]
    BY <1>1, <2>1 DEF Request
  <2>4. QED
    BY <2>1, <2>2, <2>3 DEF ToldInv, ChangedOrders
<1>8. QED
  BY <1>2, <1>3, <1>4, <1>5, <1>6, <1>7 DEF CreateStep

LEMMA ToldNext == ASSUME TypeInv, ToldInv, [Next]_vars PROVE ToldInv'
<1>1. CASE UNCHANGED vars
  BY <1>1 DEF vars, ToldInv, ToldOnlyCommitted, ChangedOrders
<1>2. ASSUME \/ \E o \in Orders : DeleteOrder(o) \/ ExpireAlert(o)
             \/ \E e \in Events : ExpireEvent(e)
      PROVE  ToldInv'
  BY <1>2 DEF DeleteOrder, ExpireAlert, ExpireEvent, others, database, ToldInv,
              ToldOnlyCommitted, ChangedOrders
<1>3. QED
  BY <1>1, <1>2, WorkerTellsCommitted, RequestTellsCommitted DEF Next

\* What a user is told of an order has been committed before: by the recompute whose changes
\* are broadcast, or by the request whose analysis is.
THEOREM ToldWasCommitted == Spec => []ToldOnlyCommitted
<1>1. ToldInv => ToldOnlyCommitted
  BY DEF ToldInv
<1>2. QED
  BY <1>1, TypeInit, TypeNext, ToldInit, ToldNext, PTL DEF Spec

-----------------------------------------------------------------------------
(* Deleted orders *)

\* Before its insert and after its delete an order has no impacts.
GoneInv == \A o \in Orders : row[o] = None => impacts[o] = {}

LEMMA GoneInit == Init => GoneInv
BY DEF Init, GoneInv

\* What a step may do to the row and to the impacts of an order.
RowStep(o) ==
  \/ row'[o] = row[o] /\ impacts'[o] = impacts[o]
  \/ row[o] # None /\ row'[o] # None
  \/ row'[o] = None /\ impacts'[o] = {}
  \/ creator[o].pc = "none" /\ row'[o] # None

\* Every step is one of these.
LEMMA RowSteps ==
  ASSUME TypeInv, [Next]_vars, NEW p \in Orders
  PROVE  RowStep(p)
<1>1. /\ row \in [Orders -> Row \cup {None}]
      /\ impacts \in [Orders -> SUBSET (Events \X Writers)]
  BY DEF TypeInv, TypeOK
<1> USE DEF database, alerts, others
<1>2. CASE UNCHANGED <<row, impacts>>
  BY <1>2 DEF RowStep
<1>3. CASE Commit
  <2>1. /\ worker.pc = "writing"
        /\ \A o \in ChangedOrders :
             row[o] \in Row /\ worker.loaded[o] \in Row /\ worker.changes[o] \in Analysis
    BY <1>1, <1>3 DEF Commit, TypeInv, TypeOK, WorkerInv, ChangedOrders, WorkerState
  <2>2. CASE p \in ChangedOrders
    <3>1. row'[p] = Updated(row[p], worker.loaded[p], worker.changes[p])
      BY <1>3, <2>2 DEF Commit
    <3>2. row'[p] # None /\ row[p] # None
      BY <2>1, <2>2, <3>1, RowTypes, NoneIsNothing
    <3>3. QED
      BY <3>2 DEF RowStep
  <2>3. CASE p \notin ChangedOrders
    BY <1>3, <2>3 DEF RowStep, Commit
  <2>4. QED
    BY <2>2, <2>3
<1>4. ASSUME NEW o \in Orders, DeleteOrder(o) PROVE RowStep(p)
  BY <1>1, <1>4 DEF DeleteOrder, RowStep
<1>5. ASSUME NEW o \in Orders, InsertOrder(o) PROVE RowStep(p)
  BY <1>1, <1>5, RowTypes, NoneIsNothing DEF InsertOrder, RowStep
<1>6. ASSUME NEW o \in Orders, UpdateOrder(o) \/ ReplaceImpacts(o) \/ ReplaceAfterWait(o)
      PROVE  RowStep(p)
  <2>1. /\ row[o] \in Row
        /\ creator[o] \in CreatorState
        /\ creator[o].pc \in {"writing", "blocked"}
    BY <1>1, <1>6
       DEF UpdateOrder, ReplaceImpacts, ReplaceAfterWait, CreateCommits, TypeInv, TypeOK
  <2>2. creator[o].loaded \in Row /\ creator[o].analysis \in Analysis
    BY <2>1 DEF TypeInv, RequestInv, Analysed, CreatorState
  <2>3. Updated(row[o], creator[o].loaded, creator[o].analysis) # None
    BY <2>1, <2>2, RowTypes, NoneIsNothing
  <2>4. row'[o] # None /\ row[o] # None
    BY <1>1, <1>6, <2>1, <2>3, NoneIsNothing DEF UpdateOrder, ReplaceImpacts, ReplaceAfterWait
  <2>5. CASE p = o
    BY <2>4, <2>5 DEF RowStep
  <2>6. CASE p # o
    BY <1>1, <1>6, <2>6
       DEF UpdateOrder, ReplaceImpacts, ReplaceAfterWait, CreateCommits, RowStep
  <2>7. QED
    BY <2>5, <2>6
<1>7. QED
  BY <1>2, <1>3, <1>4, <1>5, <1>6
     DEF Next, vars, WorkerStep, CreateStep, TakeEvent, ExpireEvent, StoreEvent, CacheEvent,
         BeginFetch, EndFetch, SelectOrders, KeepOrder, WriteOrder, OrderGone, TellUser,
         NoAlert, Alert, SendMail, MarkAlerted, WorkerStops, AlertFails, ExpireAlert,
         LoadOrder, BeginAnalysis, EndAnalysis, WaitForImpacts, LoadCommitted, TellCreated,
         CreateFindsNoRow, CreateStops

LEMMA GoneNext == ASSUME TypeInv, GoneInv, [Next]_vars PROVE GoneInv'
BY RowSteps DEF GoneInv, RowStep

\* No step brings a deleted order back, or gives it impacts, whatever the worker or the
\* request that created it had under way.
THEOREM DeletedIsFinal == Spec => DeletedStaysDeleted
<1>1. ASSUME TypeInv, GoneInv, [Next]_vars
      PROVE  [\A o \in Orders : creator[o].pc # "none" /\ row[o] = None =>
                row'[o] = None /\ impacts'[o] = {}]_vars
  BY <1>1, RowSteps DEF GoneInv, RowStep
<1>2. QED
  BY <1>1, TypeInit, TypeNext, GoneInit, GoneNext, PTL DEF Spec, DeletedStaysDeleted

-----------------------------------------------------------------------------
(* Mails *)

Marking(o) == worker.pc = "marking" /\ worker.order = o

\* A mail is paid for by the key that follows it, by a key that has expired or by a fault.
MailInv ==
  /\ worker.pc = "sending" => worker.order \notin alerted
  /\ \A o \in Orders :
       /\ emails[o] <= 1 + expiries[o] + faults
       /\ o \notin alerted /\ ~Marking(o) => emails[o] <= expiries[o] + faults

LEMMA MailTypes ==
  ASSUME TypeInv
  PROVE  faults \in Nat /\ \A o \in Orders : emails[o] \in Nat /\ expiries[o] \in Nat
BY BoundsAssumption DEF TypeInv, TypeOK

LEMMA MailInit == Init => MailInv
BY DEF Init, MailInv, Idle

\* Steps that mail nothing, mark nothing and do not leave a mail unmarked.
LEMMA MailFrame ==
  ASSUME TypeInv, MailInv, UNCHANGED alerts, faults' \in Nat, faults' >= faults,
         \/ UNCHANGED worker
         \/ worker.pc # "marking" /\ worker'.pc \notin {"sending", "marking"}
  PROVE  MailInv'
<1>1. \A o \in Orders : emails[o] <= 1 + expiries[o] + faults'
  BY MailTypes DEF MailInv
<1>2. \A o \in Orders :
        o \notin alerted /\ ~Marking(o) => emails[o] <= expiries[o] + faults'
  BY MailTypes DEF MailInv
<1>3. \A o \in Orders : Marking(o)' => Marking(o)
  BY DEF Marking
<1>4. \A o \in Orders : Marking(o) => Marking(o)'
  BY DEF Marking
<1>5. QED
  BY <1>1, <1>2, <1>3, <1>4 DEF MailInv, alerts

LEMMA FaultCounts ==
  ASSUME TypeInv, Fault
  PROVE  faults' = faults + 1 /\ faults' \in Nat /\ faults' >= faults
BY MailTypes DEF Fault

LEMMA MailNext == ASSUME TypeInv, MailInv, [Next]_vars PROVE MailInv'
<1>1. /\ worker \in WorkerState
      /\ faults \in Nat
      /\ \A o \in Orders : emails[o] \in Nat /\ expiries[o] \in Nat
      /\ emails \in [Orders -> Nat]
      /\ expiries \in [Orders -> 0..MaxExpiries]
      /\ worker.pc \in {"checking", "sending", "marking"} => worker.order \in Orders
  BY MailTypes DEF TypeInv, TypeOK, WorkerInv, ChangedOrders
<1>2. CASE EarlyStep
  BY <1>1, <1>2, EarlySteps, MailFrame DEF Early
<1>3. CASE Commit
  <2>1. worker.pc = "writing" /\ worker'.pc \in {"idle", "telling"}
    BY <1>3 DEF Commit, Idle
  <2>2. QED
    BY <1>1, <1>3, <2>1, MailFrame DEF Commit
<1>4. ASSUME NEW o \in Orders, TellUser(o) PROVE MailInv'
  <2>1. worker.pc = "telling" /\ worker'.pc = "checking"
    BY <1>1, <1>4 DEF TellUser, WorkerState
  <2>2. faults' \in Nat /\ faults' >= faults
    BY <1>1, <1>4, FaultCounts DEF TellUser
  <2>3. QED
    BY <1>4, <2>1, <2>2, MailFrame DEF TellUser
<1>5. CASE NoAlert
  <2>1. worker.pc = "checking" /\ worker'.pc \in {"idle", "telling"}
    BY <1>5, NextOrderChanges DEF NoAlert
  <2>2. QED
    BY <1>1, <1>5, <2>1, MailFrame DEF NoAlert
<1>6. CASE Alert
  <2>1. /\ worker.pc = "checking" /\ worker'.pc = "sending"
        /\ worker'.order = worker.order /\ worker.order \notin alerted
        /\ UNCHANGED <<alerts, faults>>
    BY <1>1, <1>6 DEF Alert, WorkerGoesTo, WorkerState
  <2>2. QED
    BY <2>1 DEF MailInv, Marking, alerts
<1>7. CASE SendMail
  <2>1. /\ worker.pc = "sending" /\ worker'.pc = "marking"
        /\ worker'.order = worker.order
        /\ emails' = [emails EXCEPT ![worker.order] = @ + 1]
        /\ UNCHANGED <<alerted, expiries, faults>>
    BY <1>1, <1>7 DEF SendMail, WorkerGoesTo, WorkerState
  <2>2. ASSUME NEW o \in Orders
        PROVE  /\ emails'[o] <= 1 + expiries[o] + faults
               /\ o \notin alerted /\ ~Marking(o)' => emails'[o] <= expiries[o] + faults
    <3>1. CASE o = worker.order
      <4>1. emails[o] <= expiries[o] + faults
        BY <2>1, <3>1 DEF MailInv, Marking
      <4>2. QED
        BY <1>1, <2>1, <3>1, <4>1 DEF Marking
    <3>2. CASE o # worker.order
      BY <1>1, <2>1, <3>2 DEF MailInv, Marking
    <3>3. QED
      BY <3>1, <3>2
  <2>3. QED
    BY <2>1, <2>2 DEF MailInv
<1>8. CASE MarkAlerted
  <2>1. /\ worker.pc = "marking" /\ worker'.pc \in {"idle", "telling"}
        /\ alerted' = alerted \cup {worker.order}
        /\ UNCHANGED <<emails, expiries, faults>>
    BY <1>8, NextOrderChanges DEF MarkAlerted
  <2>2. QED
    BY <2>1 DEF MailInv, Marking
<1>9. ASSUME Fault, UNCHANGED alerts, worker'.pc \notin {"sending", "marking"}
      PROVE  MailInv'
  <2>1. faults' = faults + 1
    BY <1>9 DEF Fault
  <2>2. \A o \in Orders : emails[o] <= expiries[o] + faults'
    BY <1>1, <2>1 DEF MailInv
  <2>3. \A o \in Orders : emails[o] <= 1 + expiries[o] + faults'
    BY <1>1, <2>1, <2>2
  <2>4. QED
    BY <1>9, <2>2, <2>3 DEF MailInv, alerts
<1>10. CASE AlertFails
  BY <1>9, <1>10, NextOrderChanges DEF AlertFails
<1>11. CASE WorkerStops
  BY <1>9, <1>11 DEF WorkerStops, Idle
<1>12. ASSUME NEW o \in Orders, ExpireAlert(o) PROVE MailInv'
  <2>1. /\ alerted' = alerted \ {o}
        /\ expiries' = [expiries EXCEPT ![o] = @ + 1]
        /\ UNCHANGED <<worker, emails, faults>>
    BY <1>12 DEF ExpireAlert
  <2>2. \A p \in Orders : Marking(p)' <=> Marking(p)
    BY <2>1 DEF Marking
  <2>3. ASSUME NEW p \in Orders
        PROVE  /\ emails[p] <= 1 + expiries'[p] + faults
               /\ p \notin alerted' /\ ~Marking(p) => emails[p] <= expiries'[p] + faults
    <3>1. CASE p = o
      <4>1. expiries'[p] = expiries[p] + 1 /\ emails[p] <= 1 + expiries[p] + faults
        BY <1>1, <2>1, <3>1 DEF MailInv
      <4>2. QED
        BY <1>1, <4>1
    <3>2. CASE p # o
      BY <1>1, <2>1, <3>2 DEF MailInv
    <3>3. QED
      BY <3>1, <3>2
  <2>4. QED
    BY <2>1, <2>2, <2>3 DEF MailInv
<1>13. ASSUME NEW o \in Orders,
              InsertOrder(o) \/ CreateStep(o) \/ CreateStops(o) \/ DeleteOrder(o)
       PROVE  MailInv'
  <2>1. UNCHANGED <<worker, alerts>>
    BY <1>13 DEF InsertOrder, CreateStep, LoadOrder, BeginAnalysis, EndAnalysis, UpdateOrder,
         ReplaceImpacts, WaitForImpacts, ReplaceAfterWait, LoadCommitted, TellCreated,
         CreateFindsNoRow, CreateStops, DeleteOrder, others
  <2>2. faults' = faults \/ Fault
    BY <1>13 DEF InsertOrder, CreateStep, LoadOrder, BeginAnalysis, EndAnalysis, UpdateOrder,
         ReplaceImpacts, WaitForImpacts, ReplaceAfterWait, LoadCommitted, TellCreated,
         CreateFindsNoRow, CreateStops, DeleteOrder
  <2>3. QED
    BY <1>1, <2>1, <2>2, FaultCounts, MailFrame
<1>14. CASE UNCHANGED vars \/ \E e \in Events : ExpireEvent(e)
  BY <1>1, <1>14, MailFrame DEF vars, ExpireEvent, alerts
<1>15. QED
  BY <1>2, <1>3, <1>4, <1>5, <1>6, <1>7, <1>8, <1>10, <1>11, <1>12, <1>13, <1>14
     DEF Next, WorkerStep, EarlyStep

\* An order is mailed about at most once, and once more for each key that expired and each
\* thing that went wrong.
THEOREM MailedOnce == Spec => []EmailsBounded
<1>1. MailInv => EmailsBounded
  BY DEF MailInv, EmailsBounded
<1>2. QED
  BY <1>1, TypeInit, TypeNext, MailInit, MailNext, PTL DEF Spec

-----------------------------------------------------------------------------
(* What a recompute leaves behind *)

Late == {"telling", "checking", "sending", "marking"}

\* The worker has committed its recompute and taken no other event.
Done == worker.pc \in Late \/ (worker.pc = "idle" /\ worker.outcome = "done")

AsAnalysed(r, o) ==
  \E a \in Analyses[o][worker.active] : r.status = a.status /\ r.min = a.min

\* Where an order nobody else writes to stands while the worker goes over the orders.
Rewriting(o) ==
  /\ row[o] \in {worker.loaded[o], None}
  /\ worker.changes[o] # None => worker.changes[o] \in Analyses[o][worker.active]
  /\ o \notin worker.todo /\ worker.loaded[o] # None /\ worker.changes[o] = None =>
       AsAnalysed(worker.loaded[o], o)

FoundOwnEvent ==
  /\ worker.pc = "fetching" => worker.event \in worker.before \cup (Events \ cache)
  /\ worker.pc \in {"selecting", "writing"} \/ Done =>
       worker.event \in worker.active \cup (Events \ cache)

SettleInv ==
  /\ FoundOwnEvent
  /\ worker.pc = "writing" \/ Done => \A o \in Orders \ touched : ~MayStillWrite(o)
  /\ worker.pc = "writing" => \A o \in Orders \ touched : Rewriting(o)
  /\ Done => \A o \in Orders \ touched : row[o] # None => AsAnalysed(row[o], o)

LEMMA SettleInit == Init => SettleInv
BY DEF Init, SettleInv, FoundOwnEvent, Done, Late, Idle

\* Steps of others: an order that counts as untouched is at most deleted.
LEMMA SettleFrame ==
  ASSUME TypeInv, SettleInv,
         UNCHANGED worker, cache' \subseteq cache, touched \subseteq touched',
         \A o \in Orders \ touched' :
           row'[o] \in {row[o], None} /\ (MayStillWrite(o)' => MayStillWrite(o))
  PROVE  SettleInv'
<1>1. Done' <=> Done
  BY DEF Done
<1>2. FoundOwnEvent'
  BY <1>1 DEF SettleInv, FoundOwnEvent
<1>3. \A o \in Orders \ touched' : Rewriting(o) => Rewriting(o)'
  BY DEF Rewriting, AsAnalysed
<1>4. \A o \in Orders \ touched' :
        (row[o] # None => AsAnalysed(row[o], o)) => (row'[o] # None => AsAnalysed(row[o], o)')
  BY DEF AsAnalysed
<1>5. ASSUME Done, NEW o \in Orders \ touched', row'[o] # None PROVE AsAnalysed(row[o], o)'
  BY <1>4, <1>5 DEF SettleInv
<1>6. QED
  BY <1>1, <1>2, <1>3, <1>5 DEF SettleInv

\* The worker tells and mails.
LEMMA DoneFrame ==
  ASSUME TypeInv, SettleInv, Done, Done', UNCHANGED <<row, touched, creator, cache>>,
         worker'.event = worker.event, worker'.active = worker.active
  PROVE  SettleInv'
<1>1. worker'.pc \in Late \cup {"idle"}
  BY DEF Done
<1>2. FoundOwnEvent'
  BY <1>1 DEF SettleInv, FoundOwnEvent, Late
<1>3. \A o \in Orders : MayStillWrite(o)' <=> MayStillWrite(o)
  BY DEF MayStillWrite
<1>4. \A o \in Orders : AsAnalysed(row[o], o) => AsAnalysed(row[o], o)'
  BY DEF AsAnalysed
<1>5. QED
  BY <1>1, <1>2, <1>3, <1>4 DEF SettleInv, Late

\* The worker has nothing to show.
LEMMA NotDone ==
  ASSUME \/ worker'.pc \in {"taken", "stored", "cached"}
         \/ worker'.pc = "idle" /\ worker'.outcome = "failed"
  PROVE  SettleInv'
BY DEF SettleInv, FoundOwnEvent, Done, Late

\* The analysis of one order.
LEMMA SettleWrite ==
  ASSUME TypeInv, SettleInv, NEW o \in Orders, KeepOrder(o) \/ WriteOrder(o)
  PROVE  SettleInv'
<1>1. /\ worker \in WorkerState
      /\ worker.changes \in [Orders -> Analysis \cup {None}]
      /\ worker.active \in SUBSET Events
  BY DEF TypeInv, TypeOK, WorkerState
<1>2. /\ worker.pc = "writing"
      /\ UNCHANGED <<row, touched, creator, cache>>
  BY DEF KeepOrder, WriteOrder, database
<1>3. /\ worker'.pc = "writing"
      /\ worker'.loaded = worker.loaded
      /\ worker'.event = worker.event
      /\ worker'.active = worker.active
      /\ worker'.todo = worker.todo \ {o}
  <2>1. CASE KeepOrder(o)
    BY <1>1, <1>2, <2>1 DEF KeepOrder, WorkerState
  <2>2. CASE WriteOrder(o)
    BY <1>1, <1>2, <2>2 DEF WriteOrder, WorkerState
  <2>3. QED
    BY <2>1, <2>2
<1>4. FoundOwnEvent' /\ ~Done'
  BY <1>2, <1>3 DEF SettleInv, FoundOwnEvent, Done, Late
<1>5. \A p \in Orders : MayStillWrite(p)' <=> MayStillWrite(p)
  BY <1>2 DEF MayStillWrite
<1>6. ASSUME NEW p \in Orders \ touched PROVE Rewriting(p)'
  <2>1. Rewriting(p)
    BY <1>2 DEF SettleInv
  <2>2. CASE KeepOrder(o)
    <3>1. worker'.changes = worker.changes
      BY <1>1, <2>2 DEF KeepOrder, WorkerState
    <3>2. p = o => AsAnalysed(worker.loaded[o], o)
      BY <2>2 DEF KeepOrder, Changed, AsAnalysed
    <3>3. QED
      BY <1>2, <1>3, <2>1, <3>1, <3>2 DEF Rewriting, AsAnalysed
  <2>3. CASE WriteOrder(o)
    <3>1. PICK a \in Analyses[o][worker.active] :
            worker' = [worker EXCEPT !.todo = @ \ {o}, !.changes[o] = a,
                                     !.replaced[o] = impacts[o]]
      BY <2>3 DEF WriteOrder
    <3>2. a # None
      BY <1>1, AnalysisTypes
    <3>3. worker'.changes = [worker.changes EXCEPT ![o] = a]
      BY <1>1, <3>1 DEF WorkerState
    <3>4. CASE p = o
      BY <1>1, <1>2, <1>3, <2>1, <3>2, <3>3, <3>4 DEF Rewriting, AsAnalysed
    <3>5. CASE p # o
      BY <1>1, <1>2, <1>3, <2>1, <3>3, <3>5 DEF Rewriting, AsAnalysed
    <3>6. QED
      BY <3>4, <3>5
  <2>4. QED
    BY <2>2, <2>3
<1>7. QED
  BY <1>2, <1>3, <1>4, <1>5, <1>6 DEF SettleInv

\* The commit: a row nobody else wrote to becomes what its analysis says.
LEMMA SettleCommit ==
  ASSUME TypeInv, SettleInv, Commit
  PROVE  SettleInv'
<1>1. /\ worker.pc = "writing" /\ worker.todo = {}
      /\ UNCHANGED <<touched, creator, cache>>
  BY DEF Commit
<1>2. /\ worker'.event = worker.event
      /\ worker'.active = worker.active
      /\ Done'
  <2>1. CASE ChangedOrders = {}
    BY <2>1 DEF Commit, Idle, Done
  <2>2. CASE ChangedOrders # {}
    BY <2>2 DEF Commit, Idle, Done, Late
  <2>3. QED
    BY <2>1, <2>2
<1>3. worker'.pc \notin {"fetching", "selecting", "writing"}
  BY <1>2 DEF Done, Late
<1>4. FoundOwnEvent'
  BY <1>1, <1>2, <1>3 DEF SettleInv, FoundOwnEvent
<1>5. \A p \in Orders : MayStillWrite(p)' <=> MayStillWrite(p)
  BY <1>1 DEF MayStillWrite
<1>6. ASSUME NEW o \in Orders \ touched, row'[o] # None
      PROVE  AsAnalysed(row[o], o)'
  <2>1. Rewriting(o)
    BY <1>1 DEF SettleInv
  <2>2. CASE o \in ChangedOrders
    <3>1. /\ row'[o] = Updated(row[o], worker.loaded[o], worker.changes[o])
          /\ row[o] # None
          /\ worker.changes[o] \in Analyses[o][worker.active]
      BY <1>1, <2>1, <2>2 DEF Commit, TypeInv, WorkerInv, Rewriting, ChangedOrders
    <3>2. row[o] = worker.loaded[o]
      BY <2>1, <3>1 DEF Rewriting
    <3>3. row'[o].status = worker.changes[o].status /\ row'[o].min = worker.changes[o].min
      BY <3>1, <3>2 DEF Updated, Column
    <3>4. QED
      BY <1>2, <3>1, <3>3 DEF AsAnalysed
  <2>3. CASE o \notin ChangedOrders
    <3>1. row'[o] = row[o] /\ worker.changes[o] = None
      BY <2>3 DEF Commit, ChangedOrders
    <3>2. row[o] = worker.loaded[o] /\ worker.loaded[o] # None
      BY <1>6, <2>1, <3>1 DEF Rewriting
    <3>3. AsAnalysed(worker.loaded[o], o)
      BY <1>1, <2>1, <3>1, <3>2 DEF Rewriting
    <3>4. QED
      BY <1>2, <3>1, <3>2, <3>3 DEF AsAnalysed
  <2>4. QED
    BY <2>2, <2>3
<1>7. QED
  BY <1>1, <1>2, <1>3, <1>4, <1>5, <1>6 DEF SettleInv

LEMMA SettleWorker ==
  ASSUME TypeInv, SettleInv,
         WorkerStep \/ WorkerStops \/ AlertFails \/ \E e \in Events : TakeEvent(e)
  PROVE  SettleInv'
<1>1. /\ worker \in WorkerState
      /\ worker.pc # "idle" => worker.event \in Events
      /\ row \in [Orders -> Row \cup {None}]
  BY DEF TypeInv, TypeOK, WorkerInv
<1> USE DEF database
<1>2. ASSUME NEW e \in Events, TakeEvent(e) PROVE SettleInv'
  BY <1>2, NotDone DEF TakeEvent, Idle
<1>3. CASE StoreEvent
  <2>1. worker'.pc = "stored"
    BY <1>1, <1>3 DEF StoreEvent, WorkerGoesTo, WorkerState
  <2>2. QED
    BY <2>1, NotDone
<1>4. CASE CacheEvent
  <2>1. worker'.pc = "cached"
    BY <1>1, <1>4 DEF CacheEvent, WorkerGoesTo, WorkerState
  <2>2. QED
    BY <2>1, NotDone
<1>5. CASE BeginFetch
  <2>1. /\ worker'.pc = "fetching" /\ worker'.before = cache /\ cache' = cache
        /\ worker'.event \in Events
    BY <1>1, <1>5 DEF BeginFetch, WorkerState
  <2>2. QED
    BY <2>1 DEF SettleInv, FoundOwnEvent, Done, Late
<1>6. CASE EndFetch
  <2>1. PICK active \in Fetched(worker.before) :
          worker' = [worker EXCEPT !.pc = "selecting", !.before = {}, !.active = active]
    BY <1>6 DEF EndFetch
  <2>2. /\ worker'.pc = "selecting" /\ worker'.active = active /\ cache' = cache
        /\ worker'.event = worker.event
    BY <1>1, <1>6, <2>1 DEF EndFetch, WorkerState
  <2>3. worker.event \in active \cup (Events \ cache)
    BY <1>1, <1>6, <2>1 DEF EndFetch, SettleInv, FoundOwnEvent, Fetched
  <2>4. QED
    BY <2>2, <2>3 DEF SettleInv, FoundOwnEvent, Done, Late
<1>7. CASE SelectOrders
  <2>1. /\ worker.pc = "selecting" /\ worker'.pc = "writing"
        /\ worker'.event = worker.event /\ worker'.active = worker.active
        /\ worker'.loaded = row /\ worker'.changes = worker.changes
        /\ worker'.todo = {o \in Orders : row[o] # None}
        /\ touched' = {o \in Orders : MayStillWrite(o)}
        /\ UNCHANGED <<row, creator, cache>>
    BY <1>1, <1>7 DEF SelectOrders, WorkerState
  <2>2. \A o \in Orders : worker.changes[o] = None
    BY <2>1 DEF TypeInv, WorkerInv, ChangedOrders
  <2>3. FoundOwnEvent' /\ ~Done'
    BY <2>1 DEF SettleInv, FoundOwnEvent, Done, Late
  <2>4. \A o \in Orders \ touched' : ~MayStillWrite(o)' /\ Rewriting(o)'
    BY <2>1, <2>2 DEF MayStillWrite, Rewriting
  <2>5. QED
    BY <2>3, <2>4 DEF SettleInv
<1>8. ASSUME NEW o \in Orders, OrderGone(o) PROVE SettleInv'
  BY <1>8, NotDone DEF OrderGone, Idle
<1>9. CASE WorkerStops
  BY <1>9, NotDone DEF WorkerStops, Idle
<1>10. ASSUME NEW o \in Orders, TellUser(o) PROVE SettleInv'
  <2>1. /\ worker.pc = "telling" /\ worker'.pc = "checking"
        /\ worker'.event = worker.event /\ worker'.active = worker.active
        /\ UNCHANGED <<row, touched, creator, cache>>
    BY <1>1, <1>10 DEF TellUser, WorkerState
  <2>2. QED
    BY <2>1, DoneFrame DEF Done, Late
<1>11. CASE NoAlert \/ MarkAlerted \/ AlertFails
  <2>1. /\ worker.pc \in {"checking", "sending", "marking"} /\ NextOrder
        /\ UNCHANGED <<row, touched, creator, cache>>
    BY <1>11 DEF NoAlert, MarkAlerted, AlertFails
  <2>2. QED
    BY <2>1, NextOrderChanges, DoneFrame DEF Done, Late
<1>12. CASE Alert \/ SendMail
  <2>1. /\ worker.pc \in {"checking", "sending"} /\ worker'.pc \in {"sending", "marking"}
        /\ worker'.event = worker.event /\ worker'.active = worker.active
        /\ UNCHANGED <<row, touched, creator, cache>>
    BY <1>1, <1>12 DEF Alert, SendMail, WorkerGoesTo, WorkerState
  <2>2. QED
    BY <2>1, DoneFrame DEF Done, Late
<1>13. QED
  BY <1>2, <1>3, <1>4, <1>5, <1>6, <1>7, <1>8, <1>9, <1>10, <1>11, <1>12,
     SettleWrite, SettleCommit DEF WorkerStep

\* A request writes only to an order that counts as touched.
LEMMA SettleRequest ==
  ASSUME TypeInv, SettleInv, NEW o \in Orders,
         InsertOrder(o) \/ CreateStep(o) \/ CreateStops(o) \/ DeleteOrder(o)
  PROVE  SettleInv'
<1>1. creator \in [Orders -> CreatorState] /\ creator[o] \in CreatorState
      /\ row \in [Orders -> Row \cup {None}]
  BY DEF TypeInv, TypeOK
<1> USE DEF others
<1>2. CASE DeleteOrder(o)
  <2>1. UNCHANGED <<worker, cache, touched, creator>>
    BY <1>2 DEF DeleteOrder
  <2>2. \A p \in Orders : row'[p] \in {row[p], None}
    BY <1>1, <1>2 DEF DeleteOrder
  <2>3. QED
    BY <2>1, <2>2, SettleFrame DEF MayStillWrite
<1>3. CASE InsertOrder(o)
  <2>1. UNCHANGED <<worker, cache>> /\ touched' = touched \cup {o}
    BY <1>3 DEF InsertOrder
  <2>2. \A p \in Orders \ {o} : row'[p] = row[p] /\ creator'[p] = creator[p]
    BY <1>1, <1>3 DEF InsertOrder
  <2>3. QED
    BY <2>1, <2>2, SettleFrame DEF MayStillWrite
<1>4. CASE CreateStep(o) \/ CreateStops(o)
  <2>1. UNCHANGED <<worker, cache, touched>>
    BY <1>4 DEF CreateStep, LoadOrder, BeginAnalysis, EndAnalysis, UpdateOrder,
         ReplaceImpacts, WaitForImpacts, ReplaceAfterWait, LoadCommitted, TellCreated,
         CreateFindsNoRow, CreateStops
  <2>2. \A p \in Orders \ {o} : row'[p] = row[p] /\ creator'[p] = creator[p]
    BY <1>1, <1>4 DEF CreateStep, LoadOrder, BeginAnalysis, EndAnalysis, UpdateOrder,
         ReplaceImpacts, WaitForImpacts, ReplaceAfterWait, LoadCommitted, TellCreated,
         CreateFindsNoRow, CreateStops, CreateCommits
  <2>3. CASE MayStillWrite(o) /\ (worker.pc = "writing" \/ Done)
    <3>1. o \in touched
      BY <2>3 DEF SettleInv
    <3>2. QED
      BY <2>1, <2>2, <3>1, SettleFrame DEF MayStillWrite
  <2>4. CASE ~(worker.pc = "writing" \/ Done)
    BY <2>1, <2>4 DEF SettleInv, FoundOwnEvent, Done
  <2>5. CASE ~MayStillWrite(o)
    <3>1. LoadCommitted(o) \/ TellCreated(o) \/ CreateFindsNoRow(o) \/ CreateStops(o)
      BY <1>4, <2>5
         DEF CreateStep, MayStillWrite, LoadOrder, BeginAnalysis, EndAnalysis, UpdateOrder,
             ReplaceImpacts, WaitForImpacts, ReplaceAfterWait
    <3>2. row' = row
      BY <3>1 DEF LoadCommitted, TellCreated, CreateFindsNoRow, CreateStops
    <3>3. creator'[o].pc \in {"telling", "over"}
      <4>1. CASE LoadCommitted(o)
        BY <1>1, <4>1 DEF LoadCommitted, CreatorState
      <4>2. CASE TellCreated(o) \/ CreateFindsNoRow(o) \/ CreateStops(o)
        BY <1>1, <4>2 DEF TellCreated, CreateFindsNoRow, CreateStops, Request
      <4>3. QED
        BY <3>1, <4>1, <4>2
    <3>4. \A p \in Orders : MayStillWrite(p)' => MayStillWrite(p)
      BY <2>2, <3>3 DEF MayStillWrite
    <3>5. QED
      BY <2>1, <3>2, <3>4, SettleFrame
  <2>6. QED
    BY <2>3, <2>4, <2>5
<1>5. QED
  BY <1>2, <1>3, <1>4

LEMMA SettleNext == ASSUME TypeInv, SettleInv, [Next]_vars PROVE SettleInv'
<1>1. ASSUME \/ UNCHANGED vars
             \/ \E e \in Events : ExpireEvent(e)
             \/ \E o \in Orders : ExpireAlert(o)
      PROVE  SettleInv'
  <2>1. UNCHANGED <<worker, row, touched, creator>> /\ cache' \subseteq cache
    BY <1>1 DEF vars, ExpireEvent, ExpireAlert, database
  <2>2. QED
    BY <2>1, SettleFrame DEF MayStillWrite
<1>2. QED
  BY <1>1, SettleWorker, SettleRequest DEF Next

\* After a recompute that went through, every order that no request wrote to meanwhile shows
\* the status and the delay that follow from the events the recompute found, its own among
\* them unless that has expired.
THEOREM RecomputeSettles == Spec => []SettledReflectsActive
<1>1. SettleInv => SettledReflectsActive
  BY DEF SettleInv, FoundOwnEvent, SettledReflectsActive, Done, AsAnalysed
<1>2. QED
  BY <1>1, TypeInit, TypeNext, SettleInit, SettleNext, PTL DEF Spec
=============================================================================
