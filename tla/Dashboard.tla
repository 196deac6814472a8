----------------------------- MODULE Dashboard -----------------------------
(***************************************************************************)
(* A signed-in dashboard: one browser tab that loads the orders of its     *)
(* user, keeps a WebSocket to the API process (ConnectionManager) and      *)
(* changes its cards and markers by what arrives there and by the answers  *)
(* to its requests (ws-client.js, app.js, orders-feed.js, order-drawer.js, *)
(* supplier-markers.js); and the two writers of an order, the API's create *)
(* handler and the storage runner's recomputation, each of which commits   *)
(* first and publishes afterwards.                                         *)
(*                                                                         *)
(* It follows one order.  What a commit leaves is a version of it, counted *)
(* from 1, the row as it is inserted; 0 is no order, in the database, on a *)
(* card or on the map.  A writer's message is built from its analysis, and *)
(* its UPDATE carries only the columns in which the analysis differs from  *)
(* the row it loaded (none, when they are equal): message and row can be   *)
(* different versions.                                                     *)
(***************************************************************************)
EXTENDS ConnectionManager

CONSTANTS
  Me,           \* the user of the tab
  MaxVersions,  \* bound: how many versions the order has
  MaxOthers,    \* bound: how many messages are not of the order
  MaxFaults     \* bound: how much goes wrong

ASSUME MeAssumption ==
  Me \in Users /\ MaxVersions \in Nat \ {0} /\ MaxOthers \in Nat /\ MaxFaults \in Nat

VARIABLES
  db,        \* the version committed, 0 before the creation and after the deletion
  made,      \* the last version there has been
  storage,   \* the storage runner's recomputation: [at, v]
  creating,  \* the create request of the tab: [at, v, answer], v loaded, then analysed
  deleting,  \* the delete request of the tab
  listing,   \* its GET /orders: [at, v]
  token,     \* cp_token is in localStorage
  tab,       \* the WebSocket client: waiting for its timer, or with a socket
  cur,       \* its last socket
  card,      \* the version on the order's card (orders-feed.js, cache)
  marker,    \* the version on its marker (supplier-markers.js, orders)
  faults,    \* how much has gone wrong (history)
  raced      \* one of the things CardCurrent makes allowance for has happened (history)

orderVars == <<db, made>>
requests == <<creating, deleting, listing>>
view == <<card, marker>>
client == <<tab, cur, token>>
history == <<faults, raced>>
dashVars ==
  <<db, made, storage, creating, deleting, listing, token, tab, cur, card, marker, faults,
    raced>>
vars == <<serverVars, dashVars>>

Versions == 0..MaxVersions

TypeOK ==
  /\ ServerTypeOK
  /\ db \in Versions /\ made \in Versions /\ db \in {0, made}
  /\ storage \in [at : {"idle", "loaded", "committed"}, v : Versions]
  /\ creating \in [at : {"idle", "sent", "inserted", "loaded", "committed", "refreshed",
                         "published", "failed"},
                   v : Versions, answer : Versions]
  /\ deleting \in {"idle", "sent", "served"}
  /\ listing \in [at : {"sent", "read", "done"}, v : Versions]
  /\ token \in BOOLEAN
  /\ tab \in {"waiting", "connected"}
  /\ cur \in Sockets \cup {NoSocket}
  /\ card \in Versions /\ marker \in Versions
  /\ faults \in 0..MaxFaults /\ raced \in BOOLEAN

NotStoring == [at |-> "idle", v |-> 0]
NotCreating == [at |-> "idle", v |-> 0, answer |-> 0]

\* The page is loading: GET /orders is on its way, the socket is opened once the backfill
\* of events has been answered.
Init ==
  /\ ServerInit
  /\ db \in {0, 1} /\ made = db
  /\ storage = NotStoring
  /\ creating = NotCreating /\ deleting = "idle"
  /\ listing = [at |-> "sent", v |-> 0]
  /\ token = TRUE
  /\ tab = "waiting" /\ cur = NoSocket
  /\ card = 0 /\ marker = 0
  /\ faults = 0 /\ raced = FALSE

Fault == faults < MaxFaults /\ faults' = faults + 1

-----------------------------------------------------------------------------
(* The server's side of the order *)

OrderMessage(v) == [order |-> v]

\* The message just published comes to the tab when its socket has a pump of its own.
Listening ==
  cur # NoSocket /\ cur \notin met /\ link[cur] /\ pump[cur] = "listening" /\ as[cur] = Me

PublishOrder(v) == Publish(Me, OrderMessage(v)) /\ raced' = (raced \/ ~Listening)

Commits == made < MaxVersions /\ made' = made + 1 /\ db' = made + 1

\* A writer that loaded version v commits an analysis, version made + 1, that differs from
\* it.  Every column of an order with a delay differs from the row inserted.  In another
\* row, changed by the other writer since, columns of both can be left: a version that
\* neither of them publishes.
Writes(v) ==
  /\ db # 0
  /\ \/ Commits /\ raced' = raced
     \/ /\ v \notin {db, 1} /\ made + 2 <= MaxVersions
        /\ made' = made + 2 /\ db' = made + 2
        /\ raced' = TRUE

\* recompute_for_user_orders selects the order, among others.
RecomputeLoads ==
  /\ storage.at = "idle" /\ db # 0
  /\ storage' = [at |-> "loaded", v |-> db]
  /\ UNCHANGED <<serverVars, orderVars, requests, client, view, history>>

\* No change; or an error, of this order or another, rolls the changes back.
RecomputeLeaves ==
  /\ storage.at = "loaded"
  /\ storage' = NotStoring
  /\ UNCHANGED <<serverVars, orderVars, requests, client, view, history>>

Recompute ==
  /\ storage.at = "loaded"
  /\ Writes(storage.v)
  /\ storage' = [at |-> "committed", v |-> made + 1]
  /\ UNCHANGED <<serverVars, requests, client, view, faults>>

PublishUpdate ==
  /\ storage.at = "committed"
  /\ PublishOrder(storage.v)
  /\ storage' = NotStoring
  /\ UNCHANGED <<orderVars, requests, client, view, faults>>

\* Redis refuses: the exception is logged.
PublishUpdateFails ==
  /\ storage.at = "committed"
  /\ storage' = NotStoring
  /\ raced' = TRUE
  /\ Fault
  /\ UNCHANGED <<serverVars, orderVars, requests, client, view>>

\* create_order: the row is inserted, read back, analysed, read back again and announced.
Insert ==
  /\ creating.at = "sent" /\ made = 0
  /\ Commits
  /\ creating' = [creating EXCEPT !.at = "inserted"]
  /\ UNCHANGED <<serverVars, storage, deleting, listing, client, view, history>>

LoadInserted ==
  /\ creating.at = "inserted" /\ db # 0
  /\ creating' = [creating EXCEPT !.at = "loaded", !.v = db]
  /\ UNCHANGED <<serverVars, orderVars, storage, deleting, listing, client, view, history>>

Analyse ==
  /\ creating.at = "loaded"
  /\ Writes(creating.v)
  /\ creating' = [creating EXCEPT !.at = "committed", !.v = made + 1]
  /\ UNCHANGED <<serverVars, storage, deleting, listing, client, view, faults>>

\* The analysis is the row as it was loaded: the commit writes no column of it, whatever
\* it has become, and the row loaded is what will be announced.
AnalyseSame ==
  /\ creating.at = "loaded"
  /\ creating' = [creating EXCEPT !.at = "committed"]
  /\ UNCHANGED <<serverVars, orderVars, storage, deleting, listing, client, view, history>>

Refresh ==
  /\ creating.at = "committed" /\ db # 0
  /\ creating' = [creating EXCEPT !.at = "refreshed", !.answer = db]
  /\ UNCHANGED <<serverVars, orderVars, storage, deleting, listing, client, view, history>>

PublishInitial ==
  /\ creating.at = "refreshed"
  /\ PublishOrder(creating.v)
  /\ creating' = [creating EXCEPT !.at = "published"]
  /\ UNCHANGED <<orderVars, storage, deleting, listing, client, view, faults>>

\* Redis refuses the message (pass): the answer is sent all the same.
PublishInitialFails ==
  /\ creating.at = "refreshed"
  /\ creating' = [creating EXCEPT !.at = "published"]
  /\ Fault
  /\ UNCHANGED <<serverVars, orderVars, storage, deleting, listing, client, view, raced>>

\* The row is gone when it is updated or read back, the database or Redis fails, or the
\* answer is lost.
CreateFails ==
  /\ creating.at \notin {"idle", "failed"}
  /\ creating' = [creating EXCEPT !.at = "failed"]
  /\ raced' = (raced \/ db # 0)
  /\ \/ creating.at \in {"inserted", "loaded", "committed"} /\ db = 0 /\ UNCHANGED faults
     \/ Fault
  /\ UNCHANGED <<serverVars, orderVars, storage, deleting, listing, client, view>>

\* delete_order tells no other tab.
DeleteElsewhere ==
  /\ db # 0
  /\ db' = 0
  /\ raced' = TRUE
  /\ UNCHANGED <<serverVars, made, storage, requests, client, view, faults>>

-----------------------------------------------------------------------------
(* The requests of the tab *)

ServeList ==
  /\ listing.at = "sent"
  /\ listing' = [at |-> "read", v |-> db]
  /\ UNCHANGED <<serverVars, orderVars, storage, creating, deleting, client, view, history>>

\* reload: the cache is cleared and filled; init's caller adds a marker for each card.
ListAnswered ==
  /\ listing.at = "read"
  /\ listing' = [listing EXCEPT !.at = "done"]
  /\ card' = listing.v
  /\ marker' = IF listing.v # 0 THEN listing.v ELSE marker
  /\ raced' = (raced \/ card > listing.v \/ (listing.v # 0 /\ db = 0))
  /\ UNCHANGED <<serverVars, orderVars, storage, creating, deleting, client, faults>>

\* 401: the token is removed.  Another error, or no answer: the cards stay as they are.
ListRefused ==
  /\ listing.at \in {"sent", "read"}
  /\ listing' = [listing EXCEPT !.at = "done"]
  /\ token' \in {token, token /\ listing.at = "read"}
  /\ raced' = TRUE
  /\ Fault
  /\ UNCHANGED <<serverVars, orderVars, storage, creating, deleting, tab, cur, view>>

SubmitOrder ==
  /\ creating.at = "idle" /\ made = 0 /\ token
  /\ creating' = [creating EXCEPT !.at = "sent"]
  /\ UNCHANGED <<serverVars, orderVars, storage, deleting, listing, client, view, history>>

\* CPOrders.add and CPMap.addSupplier with the answer, whatever came since.
CreateAnswered ==
  /\ creating.at = "published"
  /\ creating' = NotCreating
  /\ card' = creating.answer /\ marker' = creating.answer
  /\ raced' = (raced \/ card > creating.answer \/ db = 0)
  /\ UNCHANGED <<serverVars, orderVars, storage, deleting, listing, client, faults>>

\* "Save failed".
CreateRefused ==
  /\ creating.at = "failed"
  /\ creating' = NotCreating
  /\ UNCHANGED <<serverVars, orderVars, storage, deleting, listing, client, view, history>>

DeleteOrder ==
  /\ deleting = "idle" /\ card # 0
  /\ deleting' = "sent"
  /\ UNCHANGED <<serverVars, orderVars, storage, creating, listing, client, view, history>>

ServeDelete ==
  /\ deleting = "sent"
  /\ deleting' = "served"
  /\ db' = 0
  /\ UNCHANGED <<serverVars, made, storage, creating, listing, client, view, history>>

\* The answer is not looked at: 401, 404, 500.
DeleteRefused ==
  /\ deleting = "sent"
  /\ deleting' = "served"
  /\ raced' = (raced \/ db # 0)
  /\ Fault
  /\ UNCHANGED <<serverVars, orderVars, storage, creating, listing, client, view>>

\* No answer comes, whether the order is deleted or not: fetch rejects, and what would take
\* card and marker away is not reached.
DeleteLost ==
  /\ deleting # "idle"
  /\ deleting' = "idle"
  /\ raced' = (raced \/ db = 0)
  /\ Fault
  /\ UNCHANGED <<serverVars, orderVars, storage, creating, listing, client, view>>

\* Faulty variant: the card goes, the marker stays.
DeleteAnsweredCardOnly ==
  /\ deleting = "served"
  /\ deleting' = "idle"
  /\ card' = 0
  /\ UNCHANGED <<serverVars, orderVars, storage, creating, listing, client, marker,
                 history>>

DeleteAnswered ==
  /\ deleting = "served"
  /\ deleting' = "idle"
  /\ card' = 0 /\ marker' = 0
  /\ UNCHANGED <<serverVars, orderVars, storage, creating, listing, client, history>>

-----------------------------------------------------------------------------
(* The socket of the tab *)

\* CPWS.connect, at page load and each time the timer of scheduleReconnect is up.
Connect(s) ==
  /\ tab = "waiting"
  /\ OpenSocket(s, IF token THEN Me ELSE Anon)
  /\ tab' = "connected"
  /\ cur' = s
  /\ UNCHANGED <<orderVars, storage, requests, token, view, history>>

\* onclose: 1008 never comes, a rejected token closes the socket before it was accepted.
OnClose ==
  /\ tab = "connected" /\ ~link[cur]
  /\ tab' = "waiting"
  /\ UNCHANGED <<serverVars, orderVars, storage, requests, token, cur, view, history>>

\* Another tab of the user.
OpenElsewhere(s) ==
  /\ OpenSocket(s, Me)
  /\ UNCHANGED dashVars

\* Faulty variant: an update for an order without a card is passed over.
AppliedKnown(v) == IF card = 0 THEN 0 ELSE v

\* CPOrders.update puts a card there whatever there was.
Applied(v) == v

IsUpdate(m) == "order" \in DOMAIN log[m].body

\* onmessage: an update of the order.
Deliver(p) ==
  /\ Forward(p)
  /\ IF Target(p) = cur /\ IsUpdate(Head(queue[p]))
     THEN LET v == log[Head(queue[p])].body.order
          IN  /\ card' = Applied(v) /\ marker' = Applied(v)
              /\ raced' = (raced \/ v < card \/ db = 0)
     ELSE UNCHANGED <<view, raced>>
  /\ UNCHANGED <<orderVars, storage, requests, client, faults>>

\* What the server does about sockets; messages under way to the tab may be lost by it.
Serve ==
  /\ \/ UNCHANGED faults /\ \E s \in Sockets : ServerStep(s)
     \/ Fault /\ ServerFault
  /\ raced' = \/ raced
              \/ /\ cur # NoSocket /\ \E m \in ToSet(queue[cur]) : IsUpdate(m)
                 /\ pump'[cur] # "listening" \/ ~link'[cur] \/ cur \in met'
  /\ UNCHANGED <<orderVars, storage, requests, client, view>>

\* Messages of other components: events for all, and what is published for other users.
PublishOther(ch) ==
  /\ ch # Me /\ Len(SelectSeq(log, LAMBDA m : m.ch # Me)) < MaxOthers
  /\ Publish(ch, [event |-> Len(log) + 1])
  /\ UNCHANGED dashVars

-----------------------------------------------------------------------------

Next ==
  \/ RecomputeLoads \/ RecomputeLeaves \/ Recompute \/ PublishUpdate \/ PublishUpdateFails
  \/ Insert \/ LoadInserted \/ Analyse \/ AnalyseSame \/ Refresh
  \/ PublishInitial \/ PublishInitialFails \/ CreateFails
  \/ DeleteElsewhere
  \/ ServeList \/ ListAnswered \/ ListRefused
  \/ SubmitOrder \/ CreateAnswered \/ CreateRefused
  \/ DeleteOrder \/ ServeDelete \/ DeleteRefused \/ DeleteLost \/ DeleteAnswered
  \/ OnClose \/ Serve
  \/ \E s \in Sockets : Connect(s) \/ OpenElsewhere(s) \/ Deliver(s)
  \/ \E ch \in Users \cup {Global} : PublishOther(ch)

Spec == Init /\ [][Next]_vars

-----------------------------------------------------------------------------
(* Properties *)

\* Nothing about the order is under way.
Quiet ==
  /\ storage.at # "committed" /\ creating = NotCreating /\ deleting = "idle"
  /\ listing.at = "done"
  /\ cur # NoSocket => queue[cur] = <<>>

\* Card and marker show what is in the database once nothing is under way, whichever of
\* the writers' commits, messages and answers overlap, unless one of these six came in
\* between: an update was published while the tab had no pump of its own, or lost before
\* it arrived; an answer or an update with an older row arrived behind a newer one; the
\* order was deleted elsewhere, or before an update or an answer with it arrived; a
\* publication or a request failed, or its answer was lost; a writer's UPDATE left
\* columns of the other writer in the row and so a row nobody publishes.
CardCurrent == Quiet /\ ~raced => card = db /\ marker = db
=============================================================================
