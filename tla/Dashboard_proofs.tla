-------------------------- MODULE Dashboard_proofs --------------------------
(***************************************************************************)
(* Proofs about Dashboard, for any sockets, users, versions and messages.  *)
(*                                                                         *)
(* A dashboard and its two writers are browsers and publishers like any    *)
(* other: Spec implies ServerSpec, so what is proved of the server holds   *)
(* here.  The invariant of the dashboard itself is DashInv: types and the  *)
(* numbers that stay below the last version (Bounded), the tab's socket    *)
(* (CurInv), and CardInv, which says who still carries the version that is *)
(* committed when the card does not show it.                               *)
(***************************************************************************)
EXTENDS Dashboard, ConnectionManager_proofs

-----------------------------------------------------------------------------
(* The server in it *)

PublishOrders == PublishUpdate \/ PublishInitial

\* The steps at which neither the server nor Redis takes part.
OwnSteps ==
  \/ RecomputeLoads \/ RecomputeLeaves \/ Recompute \/ PublishUpdateFails
  \/ Insert \/ LoadInserted \/ Analyse \/ AnalyseSame \/ Refresh
  \/ PublishInitialFails \/ CreateFails
  \/ DeleteElsewhere
  \/ ServeList \/ ListAnswered \/ ListRefused
  \/ SubmitOrder \/ CreateAnswered \/ CreateRefused
  \/ DeleteOrder \/ ServeDelete \/ DeleteRefused \/ DeleteLost \/ DeleteAnswered
  \/ OnClose

LEMMA OwnStepsLeaveServer ==
  ASSUME OwnSteps
  PROVE  UNCHANGED serverVars
BY DEF OwnSteps, RecomputeLoads, RecomputeLeaves, Recompute, PublishUpdateFails, Insert,
       LoadInserted, Analyse, AnalyseSame, Refresh, PublishInitialFails, CreateFails,
       DeleteElsewhere, ServeList, ListAnswered, ListRefused, SubmitOrder, CreateAnswered,
       CreateRefused, DeleteOrder, ServeDelete, DeleteRefused, DeleteLost, DeleteAnswered,
       OnClose

LEMMA StepsOfServer ==
  ASSUME Next
  PROVE  \/ OwnSteps
         \/ PublishOrders \/ Serve
         \/ \E s \in Sockets : Connect(s) \/ OpenElsewhere(s) \/ Deliver(s)
         \/ \E ch \in Users \cup {Global} : PublishOther(ch)
BY DEF Next, OwnSteps, PublishOrders

\* Every step is one of the server's, or leaves the server as it is.
LEMMA ServerTakesPart ==
  ASSUME [Next]_vars
  PROVE  [ServerNext]_serverVars
<1>1. CASE UNCHANGED vars
  BY <1>1 DEF vars, serverVars
<1>2. CASE OwnSteps
  BY <1>2, OwnStepsLeaveServer
<1>3. CASE PublishOrders
  <2>1. PICK v : Publish(Me, OrderMessage(v))
    BY <1>3 DEF PublishOrders, PublishUpdate, PublishInitial, PublishOrder
  <2>2. Me \in Users \cup {Global}
    BY MeAssumption
  <2> QED
    BY <2>1, <2>2 DEF ServerNext
<1>4. CASE Serve
  BY <1>4 DEF Serve, ServerNext
<1>5. ASSUME NEW s \in Sockets, Connect(s) \/ OpenElsewhere(s)
      PROVE  ServerNext
  <2>1. \E user \in Users \cup {Anon} : OpenSocket(s, user)
    BY <1>5, MeAssumption DEF Connect, OpenElsewhere
  <2> QED
    BY <2>1 DEF ServerNext
<1>6. ASSUME NEW s \in Sockets, Deliver(s)
      PROVE  ServerNext
  BY <1>6 DEF Deliver, ServerNext
<1>7. ASSUME NEW ch \in Users \cup {Global}, PublishOther(ch)
      PROVE  ServerNext
  BY <1>7 DEF PublishOther, ServerNext
<1> QED
  BY <1>1, <1>2, <1>3, <1>4, <1>5, <1>6, <1>7, StepsOfServer

\* What is proved of the server among any browsers and publishers holds of the server of
\* this dashboard: its requests, its reconnects and its two writers are some of those.
THEOREM DashboardHasServer == Spec => ServerSpec
<1>1. Init => ServerInit
  BY DEF Init
<1> QED
  BY <1>1, ServerTakesPart, PTL DEF Spec, ServerSpec

LEMMA DashboardServerInv == Spec => []ServerInv
BY DashboardHasServer, ServerInvariant, PTL

\* No browser gets what was published for another user, whichever tabs come and go.
THEOREM DashboardOwnMessages == Spec => []OnlyOwnMessages
BY DashboardHasServer, ServerOwnMessages, PTL

\* The registry of the sockets explains itself whatever the tabs do.
THEOREM DashboardRegistry == Spec => []RegistryExplained
BY DashboardHasServer, ServerRegistry, PTL

\* A tab that is alone with its key gets each message once and in order.
THEOREM DashboardDelivery == Spec => []DeliveredOnceInOrder
BY DashboardHasServer, ServerDelivery, PTL

-----------------------------------------------------------------------------
(* The invariant *)

Storing == [at : {"idle", "loaded", "committed"}, v : Versions]
Creating == [at : {"idle", "sent", "inserted", "loaded", "committed", "refreshed", "published",
                   "failed"},
             v : Versions, answer : Versions]
Listing == [at : {"sent", "read", "done"}, v : Versions]

\* The types of what is not the server's.
DashTypes ==
  /\ db \in Versions /\ made \in Versions /\ db \in {0, made}
  /\ storage \in Storing
  /\ creating \in Creating /\ listing \in Listing
  /\ deleting \in {"idle", "sent", "served"}
  /\ token \in BOOLEAN
  /\ tab \in {"waiting", "connected"}
  /\ cur \in Sockets \cup {NoSocket}
  /\ card \in Versions /\ marker \in Versions
  /\ faults \in 0..MaxFaults /\ raced \in BOOLEAN

LEMMA TypeParts == TypeOK <=> ServerTypeOK /\ DashTypes
BY DEF TypeOK, DashTypes, Storing, Creating, Listing

\* No version is ahead of the last one, on the page or under way.
Bounded ==
  /\ card <= made /\ storage.v <= made
  /\ creating.v <= made /\ creating.answer <= made /\ listing.v <= made
  /\ \A m \in 1..Len(log) : IsUpdate(m) => log[m].body.order \in 0..made

\* The client waits only after it has seen its socket end.
CurInv ==
  /\ cur # NoSocket => handler[cur] # "none"
  /\ tab = "waiting" /\ cur # NoSocket => ~link[cur]
  /\ deleting # "idle" => made # 0

\* The updates that wait for the tab's socket, and the versions they bring.
Updates == IF cur = NoSocket THEN {} ELSE {m \in ToSet(queue[cur]) : IsUpdate(m)}
UnderWay == {log[m].body.order : m \in Updates}

\* Somebody still brings the committed version to the page.
Carried ==
  \/ storage.at = "committed" /\ storage.v = db
  \/ creating.at \in {"inserted", "loaded", "committed"}
  \/ creating.at \in {"refreshed", "published"} /\ creating.answer = db
  \/ listing.at = "sent"
  \/ listing.at = "read" /\ listing.v = db
  \/ db \in UnderWay

PageInv ==
  /\ marker = card
  /\ db = 0 => card = 0 \/ deleting = "served"
  /\ deleting = "served" => db = 0
  /\ db # 0 /\ card # db => Carried

\* An update waits only where it will arrive.
HeldInv == Updates # {} => Listening

CardInv == ~raced => PageInv /\ HeldInv

DashInv == TypeOK /\ Bounded /\ CurInv /\ CardInv

LEMMA InitDashInv == Init => DashInv
<1> SUFFICES ASSUME Init PROVE DashInv
  OBVIOUS
<1>1. ServerTypeOK
  BY InitServerInv DEF Init, ServerInv, RegistryInv
<1>2. TypeOK
  <2>1. MaxVersions \in Nat /\ MaxVersions >= 1 /\ MaxFaults \in Nat
    BY MeAssumption
  <2>2. /\ creating = NotCreating /\ NotCreating \in Creating
        /\ storage = NotStoring /\ NotStoring \in Storing
    BY <2>1 DEF Init, Creating, NotCreating, Storing, NotStoring, Versions
  <2>3. listing \in Listing
    BY <2>1 DEF Init, Listing, Versions
  <2>4. db \in {0, 1} /\ made = db /\ deleting = "idle" /\ card = 0 /\ marker = 0
    BY DEF Init
  <2>5. token = TRUE /\ tab = "waiting" /\ cur = NoSocket /\ faults = 0 /\ raced = FALSE
    BY DEF Init
  <2> QED
    <3>1. token \in BOOLEAN /\ raced \in BOOLEAN
      BY <2>5, Zenon
    <3>2. /\ db \in Versions /\ made \in Versions /\ db \in {0, made}
          /\ card \in Versions /\ marker \in Versions /\ faults \in 0..MaxFaults
      BY <2>1, <2>4, <2>5 DEF Versions
    <3>3. /\ storage \in Storing /\ creating \in Creating /\ listing \in Listing /\ deleting \in {"idle", "sent", "served"}
          /\ tab \in {"waiting", "connected"} /\ cur \in Sockets \cup {NoSocket}
      BY <2>2, <2>3, <2>4, <2>5
    <3> QED
      BY <1>1, <3>1, <3>2, <3>3, TypeParts DEF DashTypes
<1>3. log = <<>> /\ Len(log) = 0 /\ 1..0 = {}
  BY EmptySeq DEF Init, ServerInit
<1>4. Bounded
  BY <1>3 DEF Init, Bounded, NotCreating, NotStoring
<1> QED
  BY <1>2, <1>4 DEF Init, DashInv, CurInv, CardInv, PageInv, HeldInv, Carried, Updates

-----------------------------------------------------------------------------
(* Types and bounds *)

\* What is sent to a socket is one of the messages published.
LEMMA ForwardedIsLogged ==
  ASSUME ServerInv, NEW p \in Sockets, Forward(p)
  PROVE  Head(queue[p]) \in 1..Len(log) /\ Head(queue[p]) \in ToSet(queue[p])
<1>1. queue[p] \in Seq(1..MaxPublished) /\ queue[p] # <<>>
  BY DEF ServerInv, RegistryInv, ServerTypeOK, Forward
<1>2. Head(queue[p]) \in ToSet(queue[p])
  BY <1>1, ToSetTail
<1> QED
  BY <1>2 DEF ServerInv, OwnInv

\* A request that moves on keeps its version and its answer.
LEMMA RequestFields ==
  ASSUME creating \in Creating, NEW a
  PROVE  /\ [creating EXCEPT !.at = a].v = creating.v
         /\ [creating EXCEPT !.at = a].answer = creating.answer
BY DEF Creating

\* The requests stay in their types whatever they do.
LEMMA RequestTypes ==
  ASSUME creating \in Creating, listing \in Listing, NEW v \in Versions
  PROVE  /\ [listing EXCEPT !.at = "done"] \in Listing
         /\ [at |-> "read", v |-> v] \in Listing
         /\ listing.v \in Versions
         /\ \A a \in {"sent", "inserted", "committed", "published", "failed"} :
              [creating EXCEPT !.at = a] \in Creating
         /\ [creating EXCEPT !.at = "loaded", !.v = v] \in Creating
         /\ [creating EXCEPT !.at = "committed", !.v = v] \in Creating
         /\ [creating EXCEPT !.at = "refreshed", !.answer = v] \in Creating
         /\ creating.v \in Versions /\ creating.answer \in Versions
<1> USE DEF Creating
<1>0. /\ [listing EXCEPT !.at = "done"] \in Listing
      /\ [at |-> "read", v |-> v] \in Listing
      /\ listing.v \in Versions
  BY DEF Listing
<1>1. /\ creating.v \in Versions /\ creating.answer \in Versions
  OBVIOUS
<1>2. ASSUME NEW a \in {"sent", "inserted", "committed", "published", "failed"}
      PROVE  [creating EXCEPT !.at = a] \in Creating
  OBVIOUS
<1>3. /\ [creating EXCEPT !.at = "loaded", !.v = v] \in Creating
      /\ [creating EXCEPT !.at = "committed", !.v = v] \in Creating
  OBVIOUS
<1>4. [creating EXCEPT !.at = "refreshed", !.answer = v] \in Creating
  OBVIOUS
<1> QED
  BY <1>0, <1>1, <1>2, <1>3, <1>4

\* What a writer's commit leaves.
LEMMA WritesTypes ==
  ASSUME db \in {0, made}, made \in Versions, raced \in BOOLEAN, NEW v, Writes(v)
  PROVE  /\ db' = made' /\ made' \in {made + 1, made + 2} /\ made + 1 \in Versions
         /\ made' \in Versions /\ raced' \in BOOLEAN /\ db # 0
         /\ ~raced' => ~raced /\ db' = made + 1
<1>1. MaxVersions \in Nat /\ made \in 0..MaxVersions
  BY MeAssumption DEF Versions
<1>2. CASE Commits /\ raced' = raced
  <2>1. db' = made + 1 /\ made' = made + 1 /\ made + 1 \in Versions
    BY <1>1, <1>2 DEF Commits, Versions
  <2> QED
    BY <1>2, <2>1 DEF Writes
<1>3. CASE made + 2 <= MaxVersions /\ made' = made + 2 /\ db' = made + 2 /\ raced' = TRUE
  <2>1. made' = made + 2 /\ made + 2 \in Versions /\ made + 1 \in Versions
    BY <1>1, <1>3 DEF Versions
  <2> QED
    BY <1>3, <2>1 DEF Writes
<1> QED
  BY <1>2, <1>3 DEF Writes

LEMMA DashTypesStep ==
  ASSUME DashTypes, Bounded, ServerInv, Next
  PROVE  DashTypes'
<1>0. /\ MaxVersions \in Nat /\ MaxFaults \in Nat /\ 0 \in Versions
      /\ \A v \in Versions : v \in Nat /\ (v < MaxVersions => v + 1 \in Versions)
      /\ creating \in Creating /\ made \in Versions
  BY MeAssumption DEF DashTypes, Versions
<1>00. Fault => faults' \in 0..MaxFaults
  BY <1>0 DEF Fault, DashTypes
<1> USE DEF DashTypes, orderVars, requests, client, view, history
<1>1. CASE RecomputeLoads \/ RecomputeLeaves \/ Recompute \/ DeleteElsewhere
  <2>1. CASE Recompute
    <3>1. storage' \in Storing
      BY <2>1, WritesTypes DEF Recompute, Storing
    <3> QED
      BY <1>0, <2>1, <3>1, WritesTypes DEF Recompute
  <2>2. CASE RecomputeLoads \/ RecomputeLeaves
    <3>1. storage' \in Storing
      BY <1>0, <2>2 DEF RecomputeLoads, RecomputeLeaves, NotStoring, Storing
    <3> QED
      BY <2>2, <3>1 DEF RecomputeLoads, RecomputeLeaves
  <2>3. CASE DeleteElsewhere
    BY <1>0, <2>3 DEF DeleteElsewhere
  <2> QED
    BY <1>1, <2>1, <2>2, <2>3
<1>2. CASE Insert \/ LoadInserted \/ AnalyseSame
  BY <1>0, <1>2, RequestTypes DEF Insert, LoadInserted, AnalyseSame, Commits
<1>3. CASE Analyse
  <2>1. creating' \in Creating
    BY <1>0, <1>3, WritesTypes, RequestTypes DEF Analyse
  <2> QED
    BY <1>0, <1>3, <2>1, WritesTypes DEF Analyse
<1>4. CASE Refresh
  BY <1>0, <1>4, RequestTypes DEF Refresh
<1>05. NotStoring \in Storing
  BY <1>0 DEF NotStoring, Storing
<1>5. CASE PublishUpdateFails \/ DeleteRefused \/ DeleteLost
  BY <1>0, <1>00, <1>05, <1>5 DEF PublishUpdateFails, DeleteRefused, DeleteLost
<1>6. CASE PublishInitialFails \/ CreateFails
  <2>1. creating' \in Creating
    BY <1>0, <1>6, RequestTypes DEF PublishInitialFails, CreateFails
  <2>2. raced' \in BOOLEAN
    BY <1>6 DEF PublishInitialFails, CreateFails
  <2> QED
    BY <1>00, <1>6, <2>1, <2>2 DEF PublishInitialFails, CreateFails
<1>7. CASE ListRefused \/ ServeList \/ ListAnswered
  <2>1. listing' \in Listing /\ listing.v \in Versions
    BY <1>7, RequestTypes DEF ListRefused, ServeList, ListAnswered
  <2> QED
    BY <1>0, <1>00, <1>7, <2>1 DEF ListRefused, ServeList, ListAnswered
<1>8. CASE CreateAnswered \/ CreateRefused
  <2>1. NotCreating \in Creating
    BY <1>0 DEF NotCreating, Creating
  <2> QED
    BY <1>0, <1>8, <2>1, RequestTypes DEF CreateAnswered, CreateRefused
<1>9. CASE SubmitOrder
  BY <1>0, <1>9, RequestTypes DEF SubmitOrder
<1>10. CASE DeleteOrder \/ ServeDelete \/ DeleteAnswered \/ OnClose
  BY <1>0, <1>10 DEF DeleteOrder, ServeDelete, DeleteAnswered, OnClose
<1>11. CASE PublishUpdate
  BY <1>0, <1>05, <1>11 DEF PublishUpdate, PublishOrder
<1>12. CASE PublishInitial
  BY <1>0, <1>12, RequestTypes DEF PublishInitial, PublishOrder
<1>13. CASE Serve
  BY <1>00, <1>13 DEF Serve
<1>14. ASSUME NEW s \in Sockets, Connect(s) \/ OpenElsewhere(s)
      PROVE  DashTypes'
  BY <1>14 DEF Connect, OpenElsewhere, dashVars
<1>15. ASSUME NEW s \in Sockets, Deliver(s)
      PROVE  DashTypes'
  <2>1. Head(queue[s]) \in 1..Len(log)
    BY <1>15, ForwardedIsLogged DEF Deliver
  <2>2. IsUpdate(Head(queue[s])) => log[Head(queue[s])].body.order \in Versions
    BY <1>0, <2>1 DEF Bounded, Versions
  <2> QED
    BY <1>15, <2>2 DEF Deliver, Applied
<1>16. ASSUME NEW ch, PublishOther(ch)
      PROVE  DashTypes'
  BY <1>16 DEF PublishOther, dashVars
<1> QED
  BY <1>1, <1>2, <1>3, <1>4, <1>5, <1>6, <1>7, <1>8, <1>9, <1>10, <1>11, <1>12, <1>13, <1>14,
     <1>15, <1>16 DEF Next

\* A message just published, and the ones before.
LEMMA PublishedOrder ==
  ASSUME ServerInv, NEW v, Publish(Me, OrderMessage(v))
  PROVE  /\ Len(log') = Len(log) + 1 /\ Len(log) \in Nat
         /\ \A m \in 1..Len(log) : log'[m] = log[m] /\ (IsUpdate(m)' <=> IsUpdate(m))
         /\ \A n \in 1..Len(log') : n \notin 1..Len(log) =>
              n = Len(log) + 1 /\ IsUpdate(n)' /\ log'[n].body.order = v
<1>1. /\ Len(log') = Len(log) + 1 /\ Len(log) \in Nat
      /\ \A m \in 1..Len(log) : log'[m] = log[m]
      /\ log'[Len(log) + 1] = [ch |-> Me, body |-> [order |-> v]]
  BY LogGrows DEF ServerInv, OrderMessage
<1>2. \A m \in 1..Len(log) : IsUpdate(m)' <=> IsUpdate(m)
  BY <1>1 DEF IsUpdate
<1>3. ASSUME NEW n \in 1..Len(log'), n \notin 1..Len(log)
      PROVE  n = Len(log) + 1 /\ IsUpdate(n)' /\ log'[n].body.order = v
  <2>1. n = Len(log) + 1
    BY <1>1, <1>3
  <2>2. log'[n].body = [order |-> v]
    BY <1>1, <2>1
  <2> QED
    BY <2>1, <2>2 DEF IsUpdate
<1> QED
  BY <1>1, <1>2, <1>3

LEMMA PublishedOther ==
  ASSUME ServerInv, NEW ch \in Users \cup {Global}, PublishOther(ch)
  PROVE  /\ Len(log') = Len(log) + 1 /\ Len(log) \in Nat
         /\ \A m \in 1..Len(log) : log'[m] = log[m] /\ (IsUpdate(m)' <=> IsUpdate(m))
         /\ \A n \in 1..Len(log') : n \notin 1..Len(log) => ~IsUpdate(n)'
<1> DEFINE x == Len(log) + 1
<1>1. /\ Len(log') = Len(log) + 1 /\ Len(log) \in Nat
      /\ \A m \in 1..Len(log) : log'[m] = log[m]
      /\ log'[Len(log) + 1] = [ch |-> ch, body |-> [event |-> x]]
  <2> DEFINE b == [event |-> x]
  <2>1. Publish(ch, b) /\ LogInv
    BY DEF PublishOther, ServerInv
  <2> HIDE DEF b
  <2>2. /\ Len(log') = Len(log) + 1 /\ Len(log) \in Nat
        /\ \A m \in 1..Len(log) : log'[m] = log[m]
        /\ log'[Len(log) + 1] = [ch |-> ch, body |-> b]
    BY <2>1, LogGrows
  <2> QED
    BY <2>2 DEF b
<1> HIDE DEF x
<1>2. \A m \in 1..Len(log) : IsUpdate(m)' <=> IsUpdate(m)
  BY <1>1 DEF IsUpdate
<1>3. ASSUME NEW n \in 1..Len(log'), n \notin 1..Len(log)
      PROVE  ~IsUpdate(n)'
  <2>1. n = Len(log) + 1
    BY <1>1, <1>3
  <2>2. log'[n].body = [event |-> x]
    BY <1>1, <2>1
  <2> QED
    BY <2>2 DEF IsUpdate
<1> QED
  BY <1>1, <1>2, <1>3

LEMMA LogStays ==
  ASSUME Serve \/ OwnSteps \/ \E s \in Sockets : Connect(s) \/ OpenElsewhere(s) \/ Deliver(s)
  PROVE  log' = log
<1>1. CASE OwnSteps
  BY <1>1, OwnStepsLeaveServer DEF serverVars
<1>2. CASE Serve
  BY <1>2 DEF Serve, ServerStep, ServerFault, Authenticate, Accept, AcceptFails, Leave, CloseTaken,
     Subscribe, ForwardEnds, PumpStops, ForwardVanishes, Restart, Reject, Drop, PumpFails
<1>3. ASSUME NEW s \in Sockets, Connect(s) \/ OpenElsewhere(s) \/ Deliver(s)
      PROVE  log' = log
  BY <1>3 DEF Connect, OpenElsewhere, Deliver, OpenSocket, Forward
<1> QED
  BY <1>1, <1>2, <1>3

LEMMA BoundedStep ==
  ASSUME DashTypes, Bounded, ServerInv, Next
  PROVE  Bounded'
<1> DEFINE LogBounded == \A m \in 1..Len(log) : IsUpdate(m) => log[m].body.order \in 0..made
           PageBounded == /\ card <= made /\ storage.v <= made
                          /\ creating.v <= made /\ creating.answer <= made /\ listing.v <= made
<1>0. /\ LogBounded /\ PageBounded /\ MaxVersions \in Nat
      /\ (LogBounded' /\ PageBounded' => Bounded')
      /\ creating \in Creating /\ listing \in Listing /\ made \in Nat /\ db \in {0, made}
      /\ creating.v \in Nat /\ creating.answer \in Nat /\ listing.v \in Nat
      /\ storage \in Storing /\ storage.v \in Nat
  <2>1. /\ creating \in Creating /\ listing \in Listing /\ made \in Versions /\ db \in {0, made}
        /\ storage \in Storing
    BY DEF DashTypes
  <2>2. /\ creating.v \in Versions /\ creating.answer \in Versions /\ listing.v \in Versions
        /\ storage.v \in Versions
    BY <2>1, RequestTypes DEF Storing
  <2>3. MaxVersions \in Nat /\ \A v \in Versions : v \in Nat
    BY MeAssumption DEF Versions
  <2>4. LogBounded /\ PageBounded /\ (LogBounded' /\ PageBounded' => Bounded')
    BY DEF Bounded
  <2> HIDE DEF LogBounded, PageBounded
  <2> QED
    BY <2>1, <2>2, <2>3, <2>4
<1>1. made' \in {made, made + 1, made + 2}
  BY DEF Next, RecomputeLoads, RecomputeLeaves, Recompute, PublishUpdateFails, Insert,
       LoadInserted, Analyse, AnalyseSame, Refresh, PublishInitialFails, CreateFails,
       DeleteElsewhere, ServeList, ListAnswered, ListRefused, SubmitOrder, CreateAnswered,
       CreateRefused, DeleteOrder, ServeDelete, DeleteRefused, DeleteLost, DeleteAnswered,
       OnClose, Writes, Commits, PublishUpdate, PublishInitial, Serve, Connect, OpenElsewhere,
       Deliver, PublishOther, dashVars, orderVars
<1>2. ASSUME log' = log PROVE LogBounded'
  BY <1>0, <1>1, <1>2 DEF DashTypes, Versions, IsUpdate
<1> HIDE DEF LogBounded, PageBounded
<1> USE DEF DashTypes, Versions
<1>3. CASE OwnSteps
  <2>1. LogBounded'
    BY <1>2, <1>3, LogStays
  <2> USE <1>0, <2>1 DEF PageBounded, orderVars, requests, client, view, history
  <2>2. CASE RecomputeLoads \/ RecomputeLeaves \/ Recompute \/ DeleteElsewhere
    <3>1. storage'.v \in {0, storage.v, db} \/ (storage'.v = made + 1 /\ made' >= made + 1)
      BY <2>2 DEF RecomputeLoads, RecomputeLeaves, Recompute, DeleteElsewhere, NotStoring,
                  Writes, Commits
    <3>2. UNCHANGED <<card, creating, listing>> /\ made' >= made
      BY <1>1, <2>2 DEF RecomputeLoads, RecomputeLeaves, Recompute, DeleteElsewhere
    <3> QED
      BY <1>1, <3>1, <3>2
  <2>3. CASE Insert \/ LoadInserted \/ Analyse \/ AnalyseSame \/ Refresh
    <3>1. \/ creating'.v \in {creating.v, db} /\ creating'.answer \in {creating.answer, db}
          \/ creating'.v = made + 1 /\ made' >= made + 1 /\ creating'.answer = creating.answer
      <4>1. CASE Insert \/ AnalyseSame
        BY <4>1 DEF Insert, AnalyseSame, Creating
      <4>2. CASE Analyse
        BY <4>2 DEF Analyse, Writes, Commits, Creating
      <4>3. CASE LoadInserted \/ Refresh
        BY <4>3 DEF LoadInserted, Refresh, Creating
      <4> QED
        BY <2>3, <4>1, <4>2, <4>3
    <3>2. UNCHANGED <<card, storage, listing>> /\ made' >= made
      BY <1>1, <2>3 DEF Insert, LoadInserted, Analyse, AnalyseSame, Refresh
    <3> QED
      BY <1>1, <3>1, <3>2
  <2>4. CASE PublishUpdateFails \/ PublishInitialFails \/ CreateFails
    <3>1. creating'.v = creating.v /\ creating'.answer = creating.answer
      BY <2>4 DEF PublishUpdateFails, PublishInitialFails, CreateFails, Creating
    <3>2. storage'.v \in {0, storage.v}
      BY <2>4 DEF PublishUpdateFails, PublishInitialFails, CreateFails, NotStoring
    <3> QED
      BY <2>4, <3>1, <3>2 DEF PublishUpdateFails, PublishInitialFails, CreateFails
  <2>5. CASE ListRefused \/ DeleteRefused \/ ServeList \/ ListAnswered
    <3>1. listing'.v \in {listing.v, db}
      <4>1. CASE ListRefused \/ ListAnswered
        BY <4>1 DEF ListRefused, ListAnswered, Listing
      <4>2. CASE ServeList \/ DeleteRefused
        BY <4>2 DEF ServeList, DeleteRefused
      <4> QED
        BY <2>5, <4>1, <4>2
    <3>2. card' \in {card, listing.v} /\ UNCHANGED <<made, db, storage, creating>>
      BY <2>5 DEF ListRefused, DeleteRefused, ServeList, ListAnswered
    <3> QED
      BY <3>1, <3>2
  <2>6. CASE SubmitOrder \/ CreateAnswered \/ CreateRefused
    <3>1. /\ creating'.v \in {creating.v, 0}
          /\ creating'.answer \in {creating.answer, 0}
      BY <2>6 DEF SubmitOrder, CreateAnswered, CreateRefused, NotCreating, Creating
    <3> QED
      BY <2>6, <3>1 DEF SubmitOrder, CreateAnswered, CreateRefused
  <2>7. CASE DeleteOrder \/ ServeDelete \/ DeleteLost \/ DeleteAnswered \/ OnClose
    BY <2>7 DEF DeleteOrder, ServeDelete, DeleteLost, DeleteAnswered, OnClose
  <2> QED
    BY <1>3, <2>1, <2>2, <2>3, <2>4, <2>5, <2>6, <2>7 DEF OwnSteps
<1>4. ASSUME NEW v, Publish(Me, OrderMessage(v)), v \in 0..made, made' = made
      PROVE  LogBounded'
  <2> SUFFICES ASSUME NEW m \in 1..Len(log'), IsUpdate(m)'
               PROVE  log'[m].body.order \in 0..made
    BY <1>4 DEF LogBounded
  <2>1. CASE m \in 1..Len(log)
    BY <1>0, <1>4, <2>1, PublishedOrder DEF LogBounded
  <2>2. CASE m \notin 1..Len(log)
    BY <1>4, <2>2, PublishedOrder
  <2> QED
    BY <2>1, <2>2
<1>5. CASE PublishOrders
  <2>1. CASE PublishUpdate
    <3>1. Publish(Me, OrderMessage(storage.v)) /\ storage.v \in 0..made /\ made' = made
      BY <1>0, <2>1 DEF PublishUpdate, PublishOrder, orderVars, PageBounded
    <3>2. PageBounded'
      BY <1>0, <2>1 DEF PageBounded, PublishUpdate, NotStoring, orderVars, requests, view
    <3> QED
      BY <1>0, <1>4, <3>1, <3>2
  <2>2. CASE PublishInitial
    <3>1. creating.v \in Versions
      BY <1>0, RequestTypes DEF DashTypes
    <3>2. Publish(Me, OrderMessage(creating.v)) /\ creating.v \in 0..made /\ made' = made
      BY <1>0, <2>2, <3>1 DEF PublishInitial, PublishOrder, orderVars, PageBounded
    <3>3. PageBounded'
      BY <1>0, <2>2, RequestFields DEF PageBounded, PublishInitial, orderVars, view
    <3> QED
      BY <1>0, <1>4, <3>2, <3>3
  <2> QED
    BY <1>5, <2>1, <2>2 DEF PublishOrders
<1>6. CASE Serve
  <2>1. LogBounded'
    BY <1>2, <1>6, LogStays
  <2>2. PageBounded'
    BY <1>0, <1>6 DEF PageBounded, Serve, orderVars, requests, view
  <2> QED
    BY <1>0, <2>1, <2>2
<1>7. ASSUME NEW s \in Sockets, Connect(s) \/ OpenElsewhere(s)
      PROVE  Bounded'
  <2>1. LogBounded'
    BY <1>2, <1>7, LogStays
  <2>2. PageBounded'
    BY <1>0, <1>7 DEF PageBounded, Connect, OpenElsewhere, dashVars, orderVars, requests, view
  <2> QED
    BY <1>0, <2>1, <2>2
<1>8. ASSUME NEW s \in Sockets, Deliver(s)
      PROVE  Bounded'
  <2>1. LogBounded'
    BY <1>2, <1>8, LogStays
  <2>2. Head(queue[s]) \in 1..Len(log)
    BY <1>8, ForwardedIsLogged DEF Deliver
  <2>3. IsUpdate(Head(queue[s])) => log[Head(queue[s])].body.order \in 0..made
    BY <1>0, <2>2 DEF LogBounded
  <2>4. PageBounded'
    BY <1>0, <1>8, <2>3 DEF PageBounded, Deliver, Applied, orderVars, requests, view
  <2> QED
    BY <1>0, <2>1, <2>4
<1>9. ASSUME NEW ch \in Users \cup {Global}, PublishOther(ch)
      PROVE  Bounded'
  <2>1. made' = made
    BY <1>9 DEF PublishOther, dashVars
  <2>2. LogBounded'
    BY <1>0, <1>9, <2>1, PublishedOther DEF LogBounded
  <2>3. PageBounded'
    BY <1>0, <1>9 DEF PageBounded, PublishOther, dashVars
  <2> QED
    BY <1>0, <2>2, <2>3
<1> QED
  BY <1>3, <1>5, <1>6, <1>7, <1>8, <1>9, StepsOfServer

-----------------------------------------------------------------------------
(* The tab's socket *)

LEMMA CurStep ==
  ASSUME DashTypes, Bounded, CurInv, ServerInv, Next
  PROVE  CurInv'
<1>1. cur # NoSocket => handler'[cur] # "none" /\ (link'[cur] => link[cur])
  <2>1. [ServerNext]_serverVars
    BY ServerTakesPart
  <2>2. CASE ServerNext
    BY <2>2, OpenedStays DEF ServerInv, CurInv, DashTypes
  <2>3. CASE UNCHANGED serverVars
    BY <2>3 DEF serverVars, CurInv
  <2> QED
    BY <2>1, <2>2, <2>3
<1>2. ASSUME UNCHANGED <<cur, tab, deleting>>, made' \in {made, made + 1, made + 2}
      PROVE  CurInv'
  BY <1>1, <1>2, MeAssumption DEF CurInv, DashTypes, Versions
<1>3. ASSUME NEW s \in Sockets, Connect(s)
      PROVE  CurInv'
  <2>1. handler'[s] # "none"
    BY <1>3 DEF Connect, OpenSocket, ServerInv, RegistryInv, ServerTypeOK
  <2> QED
    BY <1>3, <2>1 DEF CurInv, Connect, orderVars, requests
<1>4. CASE OnClose
  BY <1>1, <1>4 DEF OnClose, CurInv, orderVars, requests
<1>5. CASE DeleteOrder
  <2>1. made # 0 /\ made' = made
    BY <1>5, MeAssumption DEF DeleteOrder, orderVars, Bounded, DashTypes, Versions
  <2> QED
    BY <1>1, <1>5, <2>1 DEF DeleteOrder, CurInv, client
<1>6. CASE ServeDelete \/ DeleteRefused \/ DeleteLost \/ DeleteAnswered
  BY <1>1, <1>6 DEF ServeDelete, DeleteRefused, DeleteLost, DeleteAnswered, CurInv, client,
                    orderVars
<1>7. CASE \/ RecomputeLoads \/ RecomputeLeaves \/ Recompute \/ DeleteElsewhere
           \/ Insert \/ LoadInserted \/ Analyse \/ AnalyseSame \/ Refresh
  BY <1>2, <1>7 DEF RecomputeLoads, RecomputeLeaves, Recompute, DeleteElsewhere, Insert,
                    LoadInserted, Analyse, AnalyseSame, Refresh, Writes, Commits, requests,
                    client, orderVars
<1>8. CASE PublishUpdateFails \/ PublishInitialFails \/ CreateFails \/ ListRefused
  BY <1>2, <1>8 DEF PublishUpdateFails, PublishInitialFails, CreateFails, ListRefused,
                    orderVars, requests, client
<1>9. CASE ServeList \/ ListAnswered \/ SubmitOrder \/ CreateAnswered \/ CreateRefused
  BY <1>2, <1>9 DEF ServeList, ListAnswered, SubmitOrder, CreateAnswered, CreateRefused,
                    orderVars, requests, client
<1>10. CASE PublishUpdate \/ PublishInitial \/ Serve
  BY <1>2, <1>10 DEF PublishUpdate, PublishInitial, Serve, orderVars, requests, client
<1>11. ASSUME NEW s \in Sockets, OpenElsewhere(s) \/ Deliver(s)
       PROVE  CurInv'
  BY <1>2, <1>11 DEF OpenElsewhere, Deliver, dashVars, orderVars, requests, client
<1>12. ASSUME NEW ch, PublishOther(ch)
       PROVE  CurInv'
  BY <1>2, <1>12 DEF PublishOther, dashVars
<1> QED
  BY <1>3, <1>4, <1>5, <1>6, <1>7, <1>8, <1>9, <1>10, <1>11, <1>12 DEF Next

-----------------------------------------------------------------------------
(* The card *)

LEMMA ToSetHeadTail ==
  ASSUME NEW q \in Seq(1..MaxPublished), q # <<>>, NEW m \in ToSet(q), m # Head(q)
  PROVE  m \in ToSet(Tail(q))
<1>1. /\ Tail(q) \in Seq(1..MaxPublished) /\ Len(Tail(q)) = Len(q) - 1
      /\ \A i \in 1..Len(Tail(q)) : Tail(q)[i] = q[i + 1]
      /\ Len(q) \in Nat
  BY HeadTailProperties, LenProperties
<1>2. PICK i \in 1..Len(q) : m = q[i]
  BY ToSetOfSeq
<1>3. Head(q) = q[1]
  OBVIOUS
<1>4. i - 1 \in 1..Len(Tail(q)) /\ (i - 1) + 1 = i
  BY <1>1, <1>2, <1>3
<1>5. m = Tail(q)[i - 1]
  BY <1>1, <1>2, <1>4
<1> QED
  BY <1>1, <1>4, <1>5, ToSetOfSeq

\* What the server does about sockets leaves a queue alone, or takes from it; and it takes
\* nothing from the queue of a socket that keeps its link and its pump to itself.
LEMMA ServeKeepsQueue ==
  ASSUME ServerInv, ServerFault \/ \E s \in Sockets : ServerStep(s), NEW q \in Sockets
  PROVE  /\ log' = log /\ as' = as
         /\ ToSet(queue'[q]) \subseteq ToSet(queue[q])
         /\ pump'[q] = "listening" /\ link'[q] /\ q \notin met' => queue'[q] = queue[q]
<1>0. ServerTypeOK /\ queue[q] \in Seq(1..MaxPublished) /\ ToSet(<<>>) = {}
  <2>1. <<>> \in Seq(1..MaxPublished) /\ Len(<<>>) = 0 /\ 1..0 = {}
    BY EmptySeq
  <2> QED
    BY <2>1, ToSetOfSeq DEF ServerInv, RegistryInv, ServerTypeOK
<1> USE DEF ServerTypeOK, sockets, registry, pumps
<1>1. ASSUME NEW s \in Sockets,
             \/ Authenticate(s) \/ Reject(s) \/ Drop(s) \/ AcceptFails(s) \/ CloseTaken(s)
             \/ Accept(s) \/ Subscribe(s)
      PROVE  queue' = queue /\ log' = log /\ as' = as
  BY <1>1 DEF Authenticate, Reject, Drop, AcceptFails, CloseTaken, Accept, Subscribe
<1>2. ASSUME NEW s \in Sockets, Leave(s) \/ PumpFails(s) \/ ForwardEnds(s)
      PROVE  /\ log' = log /\ as' = as
             /\ queue'[q] = queue[q] \/ (queue'[q] = <<>> /\ pump'[q] = "ended")
  BY <1>0, <1>2 DEF Leave, PumpFails, ForwardEnds, PumpStops
<1>3. CASE Restart
  BY <1>0, <1>3 DEF Restart
<1>4. ASSUME NEW s \in Sockets, ForwardVanishes(s)
      PROVE  /\ log' = log /\ as' = as
             /\ ToSet(queue'[q]) \subseteq ToSet(queue[q])
             /\ pump'[q] = "listening" /\ link'[q] /\ q \notin met' => queue'[q] = queue[q]
  <2>1. UNCHANGED <<log, as, link, pump, met>>
    BY <1>4 DEF ForwardVanishes
  <2>2. CASE s # q
    BY <1>0, <1>4, <2>1, <2>2 DEF ForwardVanishes, TakeNext
  <2>3. CASE s = q
    <3>1. queue'[q] = Tail(queue[q]) /\ queue[q] # <<>>
      BY <1>0, <1>4, <2>3 DEF ForwardVanishes, TakeNext
    <3>2. ToSet(queue'[q]) \subseteq ToSet(queue[q])
      BY <1>0, <3>1, ToSetTail
    <3>3. link[q] => q \in met
      BY <1>4, <2>3, TargetFacts DEF ForwardVanishes, Reachable, Alive, ServerInv
    <3> QED
      BY <2>1, <3>2, <3>3
  <2> QED
    BY <2>2, <2>3
<1> QED
  BY <1>0, <1>1, <1>2, <1>3, <1>4 DEF ServerStep, ServerFault

LEMMA CardServe ==
  ASSUME DashTypes, CardInv, ServerInv, Serve, ~raced'
  PROVE  PageInv' /\ HeldInv'
<1>1. /\ ~raced
      /\ cur # NoSocket /\ (\E m \in ToSet(queue[cur]) : IsUpdate(m)) =>
           pump'[cur] = "listening" /\ link'[cur] /\ cur \notin met'
  BY DEF Serve
<1>2. UNCHANGED <<db, storage, creating, deleting, listing, cur, card, marker>>
  BY DEF Serve, orderVars, requests, client, view
<1>3. CASE cur = NoSocket
  <2>1. Updates' = {} /\ Updates = {}
    BY <1>2, <1>3 DEF Updates
  <2>2. UnderWay' = {} /\ UnderWay = {}
    BY <2>1 DEF UnderWay
  <2> QED
    BY <1>1, <1>2, <2>1, <2>2 DEF CardInv, PageInv, HeldInv, Carried
<1>4. CASE cur # NoSocket
  <2>1. cur \in Sockets
    BY <1>4 DEF DashTypes
  <2>2. /\ log' = log /\ as' = as
        /\ ToSet(queue'[cur]) \subseteq ToSet(queue[cur])
        /\ pump'[cur] = "listening" /\ link'[cur] /\ cur \notin met' => queue'[cur] = queue[cur]
    BY <2>1, ServeKeepsQueue DEF Serve
  <2>3. Updates' \subseteq Updates
    BY <1>2, <1>4, <2>2 DEF Updates, IsUpdate
  <2>4. CASE Updates = {}
    <3>1. Updates' = {} /\ UnderWay' = {} /\ UnderWay = {}
      BY <2>3, <2>4 DEF UnderWay
    <3> QED
      BY <1>1, <1>2, <3>1 DEF CardInv, PageInv, HeldInv, Carried
  <2>5. CASE Updates # {}
    <3>1. pump'[cur] = "listening" /\ link'[cur] /\ cur \notin met' /\ queue'[cur] = queue[cur]
      BY <1>1, <1>4, <2>2, <2>5 DEF Updates
    <3>2. Updates' = Updates /\ UnderWay' = UnderWay
      BY <1>2, <1>4, <2>2, <3>1 DEF Updates, UnderWay, IsUpdate
    <3>3. Listening'
      BY <1>1, <1>2, <1>4, <2>2, <2>5, <3>1 DEF CardInv, HeldInv, Listening
    <3> QED
      BY <1>1, <1>2, <3>2, <3>3 DEF CardInv, PageInv, HeldInv, Carried
  <2> QED
    BY <2>4, <2>5
<1> QED
  BY <1>3, <1>4

\* With its own pump listening the tab's queue gets the update; what it held it keeps.
LEMMA CardPublish ==
  ASSUME DashTypes, CardInv, ServerInv, PublishOrders, ~raced'
  PROVE  PageInv' /\ HeldInv'
<1>1. PICK v : /\ PublishOrder(v)
               /\ \/ storage.v = v /\ creating' = creating
                  \/ /\ storage' = storage /\ creating.at = "refreshed"
                     /\ creating' = [creating EXCEPT !.at = "published"]
  BY DEF PublishOrders, PublishUpdate, PublishInitial, requests
<1>2. UNCHANGED <<db, deleting, listing, cur, card, marker>>
  BY DEF PublishOrders, PublishUpdate, PublishInitial, orderVars, requests, client, view
<1>3. Publish(Me, OrderMessage(v)) /\ ~raced /\ Listening
  BY <1>1 DEF PublishOrder
<1>4. cur \in Sockets /\ UNCHANGED <<as, link, pump, met>>
  BY <1>3 DEF Listening, DashTypes, Publish, sockets
<1>5. Listening'
  BY <1>2, <1>3, <1>4 DEF Listening
<1>6. /\ Len(log') = Len(log) + 1 /\ Len(log) \in Nat
      /\ \A m \in 1..Len(log) : log'[m] = log[m] /\ (IsUpdate(m)' <=> IsUpdate(m))
      /\ \A n \in 1..Len(log') : n \notin 1..Len(log) =>
           n = Len(log) + 1 /\ IsUpdate(n)' /\ log'[n].body.order = v
  BY <1>3, PublishedOrder
<1>7. /\ queue[cur] \in Seq(1..MaxPublished)
      /\ \A m \in ToSet(queue[cur]) : m \in 1..Len(log)
      /\ Len(log) + 1 \in 1..MaxPublished
  BY <1>3, <1>4, <1>6, NamesAssumption DEF ServerInv, RegistryInv, ServerTypeOK, OwnInv, Publish
<1>8. queue'[cur] = Append(queue[cur], Len(log) + 1)
  BY <1>3, <1>4, NamesAssumption, MeAssumption DEF Publish, Listening, Hears
<1>9. ToSet(queue'[cur]) = ToSet(queue[cur]) \cup {Len(log) + 1}
  BY <1>7, <1>8, NumberAppended
<1>10. UnderWay \subseteq UnderWay'
  <2>1. \A m \in Updates : m \in Updates' /\ log'[m] = log[m]
    BY <1>2, <1>3, <1>6, <1>7, <1>9 DEF Updates, Listening
  <2> QED
    BY <2>1 DEF UnderWay
<1>11. v \in UnderWay'
  <2>1. PICK n \in 1..Len(log') : n = Len(log) + 1 /\ n \notin 1..Len(log)
    BY <1>6
  <2>2. n \in ToSet(queue'[cur]) /\ IsUpdate(n)' /\ log'[n].body.order = v
    BY <1>6, <1>9, <2>1
  <2>3. n \in Updates'
    BY <1>2, <1>3, <2>2 DEF Updates, Listening
  <2> QED
    BY <2>2, <2>3 DEF UnderWay
<1>12. ASSUME Carried PROVE Carried'
  <2>1. CASE db \in UnderWay
    BY <1>2, <1>10, <2>1 DEF Carried
  <2>2. CASE storage.at = "committed" /\ storage.v = db
    BY <1>1, <1>2, <1>11, <2>2 DEF Carried
  <2>3. CASE listing.at = "sent" \/ (listing.at = "read" /\ listing.v = db)
    BY <1>2, <2>3 DEF Carried
  <2>4. CASE creating.at \in {"inserted", "loaded", "committed"}
    BY <1>1, <2>4 DEF Carried
  <2>5. CASE creating.at \in {"refreshed", "published"} /\ creating.answer = db
    <3>1. creating' = creating \/ (creating'.at = "published" /\ creating'.answer = creating.answer)
      BY <1>1 DEF DashTypes, Creating
    <3> QED
      BY <1>2, <2>5, <3>1 DEF Carried
  <2> QED
    BY <1>12, <2>1, <2>2, <2>3, <2>4, <2>5 DEF Carried
<1> QED
  BY <1>2, <1>3, <1>5, <1>12 DEF CardInv, PageInv, HeldInv

LEMMA CardPublishOther ==
  ASSUME DashTypes, CardInv, ServerInv, NEW ch \in Users \cup {Global}, PublishOther(ch), ~raced'
  PROVE  PageInv' /\ HeldInv'
<1>1. UNCHANGED dashVars /\ ~raced
  BY DEF PublishOther, dashVars
<1>2. /\ Len(log') = Len(log) + 1 /\ Len(log) \in Nat
      /\ \A m \in 1..Len(log) : log'[m] = log[m] /\ (IsUpdate(m)' <=> IsUpdate(m))
      /\ \A n \in 1..Len(log') : n \notin 1..Len(log) => ~IsUpdate(n)'
  BY PublishedOther
<1>3. PICK body : Publish(ch, body)
  BY DEF PublishOther
<1>4. Updates' = Updates /\ UnderWay' = UnderWay
  <2>1. CASE cur = NoSocket
    BY <1>1, <2>1 DEF Updates, UnderWay, dashVars
  <2>2. CASE cur # NoSocket
    <3>1. cur \in Sockets /\ cur' = cur
      BY <1>1, <2>2 DEF DashTypes, dashVars
    <3>2. /\ queue[cur] \in Seq(1..MaxPublished)
          /\ \A m \in ToSet(queue[cur]) : m \in 1..Len(log)
          /\ Len(log) + 1 \in 1..MaxPublished
      BY <1>2, <1>3, <3>1, NamesAssumption DEF ServerInv, RegistryInv, ServerTypeOK, OwnInv, Publish
    <3>3. queue'[cur] = queue[cur] \/ queue'[cur] = Append(queue[cur], Len(log) + 1)
      BY <1>3, <3>1 DEF Publish
    <3>4. ToSet(queue'[cur]) \in {ToSet(queue[cur]), ToSet(queue[cur]) \cup {Len(log) + 1}}
      BY <3>2, <3>3, NumberAppended
    <3>5. Len(log) + 1 \in 1..Len(log') /\ Len(log) + 1 \notin 1..Len(log)
      BY <1>2
    <3>6. \A m \in ToSet(queue[cur]) : log'[m] = log[m] /\ (IsUpdate(m)' <=> IsUpdate(m))
      BY <1>2, <3>2
    <3>7. \A n \in ToSet(queue'[cur]) : n \notin ToSet(queue[cur]) => ~IsUpdate(n)'
      BY <1>2, <3>4, <3>5
    <3>8. Updates' = Updates
      BY <2>2, <3>1, <3>4, <3>6, <3>7 DEF Updates
    <3>9. \A m \in Updates : log'[m] = log[m]
      BY <2>2, <3>6 DEF Updates
    <3> QED
      BY <3>8, <3>9 DEF UnderWay
  <2> QED
    BY <2>1, <2>2
<1>5. Listening' = Listening
  BY <1>1, <1>3 DEF Listening, Publish, sockets, dashVars
<1> QED
  BY <1>1, <1>4, <1>5 DEF CardInv, PageInv, HeldInv, Carried, dashVars

\* The tab opens a socket only after its last one has ended, and no update waits there.
LEMMA CardConnect ==
  ASSUME DashTypes, CurInv, CardInv, ServerInv, ~raced',
         NEW s \in Sockets, Connect(s) \/ OpenElsewhere(s)
  PROVE  PageInv' /\ HeldInv'
<1>0. ServerTypeOK /\ ToSet(<<>>) = {}
  <2>1. <<>> \in Seq(1..MaxPublished) /\ Len(<<>>) = 0 /\ 1..0 = {}
    BY EmptySeq
  <2> QED
    BY <2>1, ToSetOfSeq DEF ServerInv, RegistryInv
<1>1. /\ ~raced
      /\ UNCHANGED <<db, storage, creating, deleting, listing, card, marker>>
  BY DEF Connect, OpenElsewhere, dashVars, orderVars, requests, view, history
<1>2. PICK user : OpenSocket(s, user)
  BY DEF Connect, OpenElsewhere
<1>3. queue' = queue /\ log' = log /\ pump' = pump /\ met' = met
  BY <1>2 DEF OpenSocket, pumps
<1>4. CASE Connect(s)
  <2>1. Updates = {}
    BY <1>1, <1>4 DEF Connect, CurInv, CardInv, HeldInv, Listening, Updates
  <2>2. queue[s] = <<>>
    BY <1>0, <1>2 DEF OpenSocket, ServerInv, RegistryInv, Fresh, ServerTypeOK
  <2>3. cur' = s
    BY <1>4 DEF Connect
  <2>4. Updates' = {}
    BY <1>0, <1>3, <2>2, <2>3 DEF Updates
  <2>5. UnderWay = {} /\ UnderWay' = {}
    BY <2>1, <2>4 DEF UnderWay
  <2> QED
    BY <1>1, <2>4, <2>5 DEF CardInv, PageInv, HeldInv, Carried
<1>5. CASE OpenElsewhere(s)
  <2>1. cur' = cur
    BY <1>5 DEF OpenElsewhere, dashVars
  <2>2. cur # NoSocket => cur # s
    BY <1>2 DEF OpenSocket, CurInv
  <2>3. cur # NoSocket => link'[cur] = link[cur] /\ as'[cur] = as[cur]
    BY <1>0, <1>2, <2>2 DEF OpenSocket, ServerTypeOK, DashTypes
  <2>4. Updates' = Updates /\ UnderWay' = UnderWay
    BY <1>3, <2>1 DEF Updates, UnderWay, IsUpdate
  <2>5. Listening => Listening'
    BY <1>3, <2>1, <2>3 DEF Listening
  <2> QED
    BY <1>1, <2>4, <2>5 DEF CardInv, PageInv, HeldInv, Carried
<1> QED
  BY <1>4, <1>5

\* Off the tab's queue an update can only go to the tab; what else arrives there is not
\* older than the card.
LEMMA CardDeliver ==
  ASSUME DashTypes, Bounded, CardInv, ServerInv, ~raced', NEW p \in Sockets, Deliver(p)
  PROVE  PageInv' /\ HeldInv'
<1> DEFINE h == Head(queue[p])
           v == log[h].body.order
           Shown == Target(p) = cur /\ IsUpdate(h)
<1>0. /\ ServerTypeOK /\ h \in 1..Len(log) /\ h \in ToSet(queue[p])
      /\ queue[p] \in Seq(1..MaxPublished) /\ queue[p] # <<>>
      /\ pump[p] = "listening" /\ Reachable(p)
  BY ForwardedIsLogged DEF Deliver, Forward, ServerInv, RegistryInv, ServerTypeOK
<1>1. /\ UNCHANGED <<db, made, storage, creating, deleting, listing, cur>>
      /\ UNCHANGED <<as, link, pump, met, log>>
      /\ queue' = [queue EXCEPT ![p] = Tail(@)]
  BY DEF Deliver, Forward, TakeNext, orderVars, requests, client, sockets
<1>2. IF Shown
      THEN card' = v /\ marker' = v /\ ~raced /\ ~(v < card) /\ db # 0
      ELSE card' = card /\ marker' = marker /\ ~raced
  <2>1. CASE Shown
    <3>1. card' = v /\ marker' = v /\ raced' = (raced \/ v < card \/ db = 0)
      BY <2>1 DEF Deliver, Applied
    <3>2. ~(raced \/ v < card \/ db = 0)
      BY <3>1
    <3> QED
      BY <2>1, <3>1, <3>2
  <2>2. CASE ~Shown
    BY <2>2 DEF Deliver, view
  <2> QED
    BY <2>1, <2>2
<1>3. Listening' = Listening /\ ~raced
  BY <1>1, <1>2 DEF Listening
<1>4. \A q \in Sockets : q # p => queue'[q] = queue[q]
  BY <1>0, <1>1 DEF ServerTypeOK
<1>5. queue'[p] = Tail(queue[p])
  BY <1>0, <1>1 DEF ServerTypeOK
<1>6. Updates' \subseteq Updates
  <2>1. CASE cur = NoSocket
    BY <1>1, <2>1 DEF Updates
  <2>2. CASE cur # NoSocket
    <3>1. cur \in Sockets
      BY <2>2 DEF DashTypes
    <3>2. ToSet(queue'[cur]) \subseteq ToSet(queue[cur])
      BY <1>0, <1>4, <1>5, <3>1, ToSetTail
    <3> QED
      BY <1>1, <2>2, <3>2 DEF Updates, IsUpdate
  <2> QED
    BY <2>1, <2>2
<1>7. ASSUME NEW m \in Updates, m \notin Updates'
      PROVE  m = h /\ Shown
  <2>1. cur # NoSocket /\ cur \in Sockets /\ m \in ToSet(queue[cur]) /\ IsUpdate(m)
    BY <1>7 DEF Updates, DashTypes
  <2>2. m \notin ToSet(queue'[cur])
    BY <1>1, <1>7, <2>1 DEF Updates, IsUpdate
  <2>3. cur = p
    BY <1>4, <2>1, <2>2
  <2>4. m = h
    BY <1>0, <1>5, <2>1, <2>2, <2>3, ToSetHeadTail
  <2>5. cur \notin met
    BY <1>3, <1>7 DEF CardInv, HeldInv, Listening
  <2>6. Target(p) = cur
    BY <1>0, <2>3, <2>5, TargetFacts DEF Reachable, Alive, ServerInv
  <2> QED
    BY <2>1, <2>4, <2>6
<1>8. HeldInv'
  BY <1>3, <1>6 DEF CardInv, HeldInv
<1> HIDE DEF h, v, Shown
<1>9. CASE ~Shown
  <2>1. Updates' = Updates
    BY <1>6, <1>7, <1>9
  <2>2. UnderWay' = UnderWay
    BY <1>1, <2>1 DEF UnderWay
  <2> QED
    BY <1>1, <1>2, <1>3, <1>8, <1>9, <2>2 DEF CardInv, PageInv, Carried
<1>10. CASE Shown
  <2>1. v \in 0..made /\ db = made /\ card \in Nat /\ made \in Nat
    BY <1>0, <1>2, <1>10, MeAssumption DEF Bounded, DashTypes, Versions, Shown, v
  <2>2. card' = v /\ marker' = v /\ db # 0 /\ card <= v
    BY <1>2, <1>10, <2>1
  <2>3. db \in UnderWay /\ v # db => db \in UnderWay'
    <3>1. SUFFICES ASSUME NEW m \in Updates, log[m].body.order = db, v # db
                   PROVE  db \in UnderWay'
      BY DEF UnderWay
    <3>2. m \in Updates'
      BY <1>7, <3>1 DEF v
    <3> QED
      BY <1>1, <3>1, <3>2 DEF UnderWay
  <2>4. card' # db' => Carried'
    <3>1. SUFFICES ASSUME v # db PROVE Carried'
      BY <1>1, <2>2
    <3>2. card # db
      BY <2>1, <2>2, <3>1
    <3>3. Carried
      BY <1>3, <2>2, <3>2 DEF CardInv, PageInv
    <3> QED
      BY <1>1, <2>3, <3>1, <3>3 DEF Carried
  <2>5. deleting' # "served"
    BY <1>1, <1>3, <2>2 DEF CardInv, PageInv
  <2> QED
    BY <1>1, <1>8, <2>2, <2>4, <2>5 DEF PageInv
<1> QED
  BY <1>9, <1>10

\* An answer that is not behind the card shows the committed version, or somebody else
\* still carries it.
LEMMA CardPage ==
  ASSUME DashTypes, Bounded, CurInv, CardInv, ServerInv, OwnSteps, ~raced'
  PROVE  PageInv' /\ HeldInv'
<1>0. /\ MaxVersions \in Nat /\ \A w \in Versions : w \in Nat
      /\ creating.v \in Versions /\ creating.answer \in Versions /\ listing.v \in Versions
  <2>1. MaxVersions \in Nat /\ \A w \in Versions : w \in Nat
    BY MeAssumption DEF Versions
  <2>2. creating \in Creating /\ listing \in Listing /\ made \in Versions
    BY DEF DashTypes
  <2> QED
    BY <2>1, <2>2, RequestTypes
<1>1. UNCHANGED serverVars /\ cur' = cur
  BY OwnStepsLeaveServer DEF OwnSteps, RecomputeLoads, RecomputeLeaves, Recompute,
       PublishUpdateFails, Insert, LoadInserted, Analyse, AnalyseSame, Refresh,
       PublishInitialFails, CreateFails, DeleteElsewhere, ServeList, ListAnswered, ListRefused,
       SubmitOrder, CreateAnswered, CreateRefused, DeleteOrder, ServeDelete, DeleteRefused,
       DeleteLost, DeleteAnswered, OnClose, client
<1>2. Updates' = Updates /\ UnderWay' = UnderWay /\ Listening' = Listening
  BY <1>1 DEF serverVars, Updates, UnderWay, IsUpdate, Listening
<1>3. ~raced
  BY DEF OwnSteps, RecomputeLoads, RecomputeLeaves, Recompute,
       PublishUpdateFails, Insert, LoadInserted, Analyse, AnalyseSame, Refresh,
       PublishInitialFails, CreateFails, DeleteElsewhere, ServeList, ListAnswered, ListRefused,
       SubmitOrder, CreateAnswered, CreateRefused, DeleteOrder, ServeDelete, DeleteRefused,
       DeleteLost, DeleteAnswered, OnClose, Writes, history
<1>4. PageInv /\ HeldInv
  BY <1>3 DEF CardInv
<1>5. HeldInv'
  BY <1>2, <1>4 DEF HeldInv
<1>6. made \in Nat /\ db \in {0, made} /\ creating \in Creating /\ listing \in Listing
  BY <1>0 DEF DashTypes
<1> USE <1>0, <1>2, <1>4, <1>6 DEF PageInv, Carried, orderVars, requests, client, view, history
<1>7. CASE Recompute
  <2>1. storage'.at = "committed" /\ storage'.v = db' /\ db # 0 /\ db' = made + 1
    BY <1>7, WritesTypes DEF Recompute, DashTypes
  <2> QED
    BY <1>5, <1>7, <2>1 DEF Recompute
<1>70. CASE RecomputeLoads \/ RecomputeLeaves
  BY <1>5, <1>70 DEF RecomputeLoads, RecomputeLeaves
<1>8. CASE Insert
  <2>1. creating'.at = "inserted"
    BY <1>8 DEF Insert, Creating
  <2>2. made = 0 /\ card = 0 /\ deleting = "idle"
    BY <1>8 DEF Insert, Bounded, CurInv, DashTypes
  <2> QED
    BY <1>5, <1>8, <2>1, <2>2 DEF Insert, Commits
<1>9. CASE Analyse
  <2>1. creating'.at = "committed" /\ db # 0 /\ db' = made + 1
    BY <1>9, WritesTypes DEF Analyse, Creating, DashTypes
  <2> QED
    BY <1>5, <1>9, <2>1 DEF Analyse
<1>90. CASE LoadInserted \/ AnalyseSame
  <2>1. creating'.at \in {"loaded", "committed"}
    BY <1>90 DEF LoadInserted, AnalyseSame, Creating
  <2> QED
    BY <1>5, <1>90, <2>1 DEF LoadInserted, AnalyseSame
<1>10. CASE Refresh
  <2>1. creating'.at = "refreshed" /\ creating'.answer = db
    BY <1>10 DEF Refresh, Creating
  <2> QED
    BY <1>5, <1>10, <2>1 DEF Refresh
<1>11. CASE PublishInitialFails
  <2>1. creating'.at = "published" /\ creating'.answer = creating.answer
    BY <1>11 DEF PublishInitialFails, Creating
  <2> QED
    BY <1>5, <1>11, <2>1 DEF PublishInitialFails
<1>12. CASE CreateFails
  <2>1. db = 0 /\ creating'.at = "failed"
    BY <1>12 DEF CreateFails, Creating
  <2> QED
    BY <1>5, <1>12, <2>1 DEF CreateFails
<1>13. CASE PublishUpdateFails \/ DeleteElsewhere \/ ListRefused
  BY <1>13 DEF PublishUpdateFails, DeleteElsewhere, ListRefused
<1>14. CASE ServeList
  <2>1. listing'.at = "read" /\ listing'.v = db
    BY <1>14 DEF ServeList
  <2> QED
    BY <1>5, <1>14, <2>1 DEF ServeList
<1>15. CASE ListAnswered
  <2>1. listing'.at = "done" /\ listing.at = "read"
    BY <1>15 DEF ListAnswered, Listing
  <2>2. card' = listing.v /\ card <= listing.v /\ (listing.v # 0 => db # 0) /\ card \in Nat
    <3>1. card' = listing.v /\ raced' = (raced \/ card > listing.v \/ (listing.v # 0 /\ db = 0))
      BY <1>15 DEF ListAnswered
    <3>2. ~(card > listing.v) /\ ~(listing.v # 0 /\ db = 0)
      BY <3>1
    <3>3. card \in Nat /\ listing.v \in Nat
      BY DEF DashTypes
    <3> QED
      BY <3>1, <3>2, <3>3
  <2>3. marker' = card'
    BY <1>15, <2>2 DEF ListAnswered
  <2>4. UNCHANGED <<db, made, storage, creating, deleting>>
    BY <1>15 DEF ListAnswered
  <2>5. listing.v <= made
    BY DEF Bounded
  <2>6. db # 0 /\ listing.v # db => Carried'
    <3>1. db # 0 /\ listing.v # db => card # db
      BY <2>2, <2>5
    <3> QED
      BY <2>1, <2>4, <3>1
  <2> QED
    BY <1>5, <2>2, <2>3, <2>4, <2>6
<1>16. CASE SubmitOrder
  <2>1. creating'.at = "sent" /\ creating.at = "idle"
    BY <1>16 DEF SubmitOrder, Creating
  <2> QED
    BY <1>5, <1>16, <2>1 DEF SubmitOrder
<1>17. CASE CreateAnswered
  <2>1. creating'.at = "idle" /\ creating.at = "published"
    BY <1>17 DEF CreateAnswered, NotCreating
  <2>2. /\ card' = creating.answer /\ marker' = creating.answer
        /\ card <= creating.answer /\ db # 0 /\ card \in Nat
    <3>1. /\ card' = creating.answer /\ marker' = creating.answer
          /\ raced' = (raced \/ card > creating.answer \/ db = 0)
      BY <1>17 DEF CreateAnswered
    <3>2. ~(card > creating.answer) /\ db # 0
      BY <3>1
    <3>3. card \in Nat /\ creating.answer \in Nat
      BY DEF DashTypes
    <3> QED
      BY <3>1, <3>2, <3>3
  <2>3. UNCHANGED <<db, made, storage, listing, deleting>>
    BY <1>17 DEF CreateAnswered
  <2>4. creating.answer <= made
    BY DEF Bounded
  <2>5. creating.answer # db => Carried'
    <3>1. creating.answer # db => card # db
      BY <2>2, <2>4
    <3> QED
      BY <2>1, <2>2, <2>3, <3>1
  <2> QED
    BY <1>5, <2>2, <2>3, <2>5
<1>18. CASE CreateRefused
  <2>1. creating'.at = "idle" /\ creating.at = "failed"
    BY <1>18 DEF CreateRefused, NotCreating
  <2> QED
    BY <1>5, <1>18, <2>1 DEF CreateRefused
<1>19. CASE DeleteOrder \/ ServeDelete \/ DeleteRefused \/ DeleteLost
  BY <1>5, <1>19 DEF DeleteOrder, ServeDelete, DeleteRefused, DeleteLost
<1>20. CASE DeleteAnswered \/ OnClose
  BY <1>5, <1>20 DEF DeleteAnswered, OnClose
<1> QED
  BY <1>7, <1>70, <1>8, <1>9, <1>90, <1>10, <1>11, <1>12, <1>13, <1>14, <1>15, <1>16, <1>17, <1>18, <1>19,
     <1>20 DEF OwnSteps

-----------------------------------------------------------------------------
(* The theorems *)

LEMMA DashInvStep ==
  ASSUME DashInv, ServerInv, ServerInv', [Next]_vars
  PROVE  DashInv'
<1>1. CASE Next
  <2>1. DashTypes /\ Bounded /\ CurInv /\ CardInv
    BY TypeParts DEF DashInv
  <2>2. DashTypes' /\ Bounded' /\ CurInv'
    BY <1>1, <2>1, DashTypesStep, BoundedStep, CurStep
  <2>3. CardInv'
    BY <1>1, <2>1, StepsOfServer, CardServe, CardPublish, CardPublishOther, CardConnect,
       CardDeliver, CardPage DEF CardInv
  <2>4. TypeOK'
    BY <2>2, TypeParts DEF ServerInv, RegistryInv, TypeOK, DashTypes, Storing, Creating, Listing
  <2> QED
    BY <2>2, <2>3, <2>4 DEF DashInv
<1>2. CASE UNCHANGED vars
  <2> USE <1>2 DEF vars, serverVars, dashVars
  <2>1. TypeOK'
    BY TypeParts DEF DashInv, TypeOK, ServerInv, RegistryInv, Versions
  <2>2. Bounded' /\ CurInv'
    BY DEF DashInv, Bounded, CurInv, IsUpdate
  <2>3. CardInv'
    BY DEF DashInv, CardInv, PageInv, HeldInv, Carried, Updates, UnderWay, IsUpdate, Listening
  <2> QED
    BY <2>1, <2>2, <2>3 DEF DashInv
<1> QED
  BY <1>1, <1>2

\* The inductive invariant of the dashboard: what is committed, answered, on its way and
\* shown is related by versions (orders-feed.js with routers/orders.py).
THEOREM DashInvariant == Spec => []DashInv
BY InitDashInv, DashInvStep, DashboardServerInv, PTL DEF Spec

\* Server, requests and page stay within their types; no version is made up.
THEOREM DashboardTypes == Spec => []TypeOK
<1>1. DashInv => TypeOK
  BY DEF DashInv
<1> QED
  BY <1>1, DashInvariant, PTL

\* Once nothing is under way card and marker show what is committed, except after one of
\* the races the property names: there is no further way for them to go stale.
THEOREM DashboardCardCurrent == Spec => []CardCurrent
<1>1. DashInv => CardCurrent
  <2> SUFFICES ASSUME DashInv, Quiet, ~raced PROVE card = db /\ marker = db
    BY DEF CardCurrent
  <2>1. PageInv /\ deleting = "idle"
    BY DEF DashInv, CardInv, Quiet
  <2>2. CASE db = 0
    BY <2>1, <2>2 DEF PageInv
  <2>3. CASE db # 0
    <3>1. Updates = {} /\ UnderWay = {}
      <4>1. <<>> \in Seq(Nat) /\ Len(<<>>) = 0 /\ 1..0 = {}
        BY EmptySeq
      <4>2. ToSet(<<>>) = {}
        BY <4>1, ToSetOfSeq
      <4>3. Updates = {}
        BY <4>2 DEF Quiet, Updates
      <4> QED
        BY <4>3 DEF UnderWay
    <3>2. ~Carried
      BY <2>3, <3>1 DEF Quiet, NotCreating, Carried
    <3> QED
      BY <2>1, <2>3, <3>2 DEF PageInv
  <2> QED
    BY <2>2, <2>3
<1> QED
  BY <1>1, DashInvariant, PTL
=============================================================================
