--------------------------- MODULE Ingest_proofs ---------------------------
(***************************************************************************)
(* Proofs about Ingest, for any runners, feeds and failing requests, any   *)
(* number of faults and of expiries.                                       *)
(*                                                                         *)
(* TypeInv: types, and that a poll between its two calls to Redis has the  *)
(* key of an article.  OnceInv counts those polls along with what is       *)
(* published; LossInv is LossBounded with the finiteness of what is lost.  *)
(* Each of the two is inductive together with TypeInv.                     *)
(***************************************************************************)
EXTENDS Ingest, TLAPS, FiniteSetTheorems, WellFoundedInduction

-----------------------------------------------------------------------------
(* The data *)

LEMMA PlaceTypes ==
  ASSUME NEW p \in Places
  PROVE  p[1] \in Sources /\ p[2] \in Nat \ {0} /\ p[3] \in Nat
<1>1. PICK r \in Requests : \E i \in DOMAIN Feeds[r[1]][r[2]] : p = <<r[1], r[2], i>>
  BY DEF Places
<1>2. PICK s \in Sources : r \in {s} \X DOMAIN Feeds[s]
  BY DEF Requests
<1>3. r[1] = s /\ r[2] \in DOMAIN Feeds[s]
  BY <1>2
<1>4. Feeds[s] \in Seq(Seq([id : STRING, url : STRING, title : STRING, valid : BOOLEAN]))
  BY SourcesAssumption
<1>5. r[2] \in Nat \ {0} /\ Feeds[s][r[2]] \in Seq([id : STRING, url : STRING,
                                                    title : STRING, valid : BOOLEAN])
  BY <1>3, <1>4
<1>6. DOMAIN Feeds[r[1]][r[2]] \subseteq Nat
  BY <1>3, <1>5
<1> QED
  BY <1>1, <1>3, <1>5, <1>6

LEMMA RequestTypes ==
  ASSUME NEW s \in Sources
  PROVE  DOMAIN Feeds[s] \subseteq Nat \ {0}
BY SourcesAssumption

LEMMA FirstIsOne ==
  ASSUME NEW S, S \subseteq Nat, S # {}
  PROVE  First(S) \in S
<1>1. PICK i \in S : \A k \in S : ~(<<k, i>> \in OpToRel(<, Nat))
  BY NatLessThanWellFounded, WFMin
<1>2. \A k \in S : i <= k
  <2> SUFFICES ASSUME NEW k \in S PROVE i <= k
    OBVIOUS
  <2>1. ~(k < i)
    BY <1>1 DEF OpToRel
  <2> QED
    BY <2>1
<1> QED
  BY <1>2 DEF First

\* What is offered is offered under a key, which names its source.
LEMMA KeyTypes ==
  ASSUME NEW p \in Places, Outcome(p).does = "publish"
  PROVE  Outcome(p).key \in Keys
BY DEF Keys, Offered

LEMMA NoKeyIsNone == NoKey \notin Keys
<1> SUFFICES ASSUME NEW p \in Places, Outcome(p).does = "publish"
             PROVE  Outcome(p).key # NoKey
  BY DEF Keys, Offered
<1>1. p[1] \in {"gdelt", "rss", "guardian", "newsapi", "gnews"}
  BY PlaceTypes, SourcesAssumption
<1>2. \A s \in {"gdelt", "rss", "guardian", "newsapi", "gnews"} : \A item, rawId :
        Offer(s, item, rawId).does = "publish" => Offer(s, item, rawId).key # NoKey
  BY DEF Offer, Skip, NoKey
<1>3. \A s \in {"guardian", "newsapi", "gnews"} : \A item, rawId :
        Article(s, item, rawId).does = "publish" => Article(s, item, rawId).key # NoKey
  BY <1>2 DEF Article, Raise, Skip
<1> QED
  BY <1>1, <1>2, <1>3
     DEF Outcome, GdeltItem, RssItem, GuardianItem, NewsapiItem, GnewsItem, Skip

-----------------------------------------------------------------------------
(* Types *)

\* A poll between its two calls to Redis has the key of an article.
TypeInv == TypeOK /\ \A r \in Runners : poll[r].pc = "adding" => poll[r].key \in Keys

LEMMA TypesInitially == Init => TypeInv
<1> SUFFICES ASSUME Init PROVE TypeInv
  OBVIOUS
<1>1. NoPoll \in Polls /\ NoPoll.pc = "idle" /\ NoPoll.key = NoKey
  BY DEF NoPoll, At, Polls
<1> HIDE DEF NoPoll
<1>2. poll \in [Runners -> Polls] /\ \A r \in Runners : poll[r] = NoPoll
  BY <1>1 DEF Init
<1>3. 0 \in 0..MaxFaults /\ 0 \in 0..MaxExpiries
  BY SourcesAssumption
<1>4. published \in [Keys -> Nat] /\ expiries \in [Keys -> 0..MaxExpiries]
  BY <1>3 DEF Init
<1>5. source \in Sources /\ listed = {} /\ up = {} /\ seen = {} /\ faults = 0
  BY DEF Init
<1>6. \A r \in Runners : PollOK(r)
  BY <1>1, <1>2 DEF PollOK
<1>7. \A r \in Runners : poll[r].pc # "adding"
  BY <1>1, <1>2
<1> QED
  BY <1>2, <1>3, <1>4, <1>5, <1>6, <1>7 DEF TypeInv, TypeOK

LEMMA HereTypes ==
  ASSUME TypeInv, NEW r \in Runners, poll[r].pc \in {"items", "adding"}, poll[r].todo # {}
  PROVE  First(poll[r].todo) \in poll[r].todo /\ Here(r) \in Places
<1>1. poll[r].todo \subseteq Nat
  BY DEF TypeInv, TypeOK, Polls
<1>2. First(poll[r].todo) \in poll[r].todo
  BY <1>1, FirstIsOne
<1> QED
  BY <1>2 DEF Here, TypeInv, TypeOK, PollOK

\* What a poll may come to next.
LEMMA NextRequestTypes ==
  ASSUME TypeInv, NEW r \in Runners
  PROVE  /\ NextRequest(r) \in Polls /\ NextRequest(r).pc \in {"idle", "asking"}
         /\ NextRequest(r).key = NoKey
<1>1. DOMAIN Feeds[source] \subseteq Nat \ {0}
  BY RequestTypes DEF TypeInv, TypeOK
<1> QED
  BY <1>1 DEF NextRequest, NoPoll, At, Polls

LEMMA RaisedTypes ==
  ASSUME TypeInv, NEW r \in Runners
  PROVE  /\ Raised(r) \in Polls /\ Raised(r).pc \in {"idle", "asking"}
         /\ Raised(r).key = NoKey
BY NextRequestTypes DEF Raised, NoPoll, At, Polls

LEMMA ItemDoneTypes ==
  ASSUME TypeInv, NEW r \in Runners, poll[r].pc \in {"items", "adding"}, poll[r].todo # {}
  PROVE  /\ ItemDone(r) \in Polls /\ ItemDone(r).pc = "items" /\ ItemDone(r).key = NoKey
         /\ ItemDone(r).todo \subseteq poll[r].todo /\ ItemDone(r).batch = poll[r].batch
BY DEF ItemDone, At, Polls, TypeInv, TypeOK

LEMMA AddingTypes ==
  ASSUME TypeInv, NEW r \in Runners, AtItem(r, "publish")
  PROVE  /\ Outcome(Here(r)).key \in Keys
         /\ Adding(r) \in Polls /\ Adding(r).pc = "adding"
         /\ Adding(r).key = Outcome(Here(r)).key
         /\ Adding(r).todo = poll[r].todo /\ Adding(r).batch = poll[r].batch
<1>1. Here(r) \in Places
  BY HereTypes DEF AtItem
<1>2. Outcome(Here(r)).key \in Keys
  BY <1>1, KeyTypes DEF AtItem
<1> QED
  BY <1>2 DEF Adding, At, Polls, TypeInv, TypeOK, AtItem

\* A step that takes the poll of one runner to q and leaves the other polls alone.
LEMMA OnePoll ==
  ASSUME TypeInv, NEW r \in Runners, r \in up, NEW q \in Polls,
         poll' = [poll EXCEPT ![r] = q], source' = source, up' = up,
         seen \subseteq seen', expiries' = expiries,
         q.pc \in {"items", "adding"} =>
           \A i \in q.todo : <<source, q.batch, i>> \in Places,
         q.pc = "adding" => q.todo # {} /\ q.key \in seen' \cap Keys,
         q.pc # "adding" => q.key = NoKey
  PROVE  /\ poll' \in [Runners -> Polls]
         /\ \A n \in Runners : PollOK(n)'
         /\ \A n \in Runners : poll'[n].pc = "adding" => poll'[n].key \in Keys
<1>1. poll' \in [Runners -> Polls] /\ poll'[r] = q
  BY DEF TypeInv, TypeOK
<1>2. \A n \in Runners \ {r} : poll'[n] = poll[n]
  BY DEF TypeInv, TypeOK
<1>3. ASSUME NEW n \in Runners PROVE PollOK(n)'
  <2>1. CASE n = r
    BY <1>1, <2>1 DEF PollOK
  <2>2. CASE n # r
    BY <1>2, <2>2 DEF PollOK, TypeInv, TypeOK
  <2> QED
    BY <2>1, <2>2
<1> QED
  BY <1>1, <1>2, <1>3 DEF TypeInv

\* A feed that says nothing, and then something.
LEMMA SilenceTypes ==
  ASSUME TypeInv, NEW r \in Runners, Silence(r)
  PROVE  /\ poll[r].pc # "adding" /\ r \in up
         /\ UNCHANGED <<source, listed, up, redis, faults>>
         /\ \E q \in Polls :
              /\ poll' = [poll EXCEPT ![r] = q]
              /\ q.pc # "adding" /\ q.key = NoKey
              /\ q.pc = "items" => \A i \in q.todo : <<source, q.batch, i>> \in Places
<1> USE DEF TypeInv, TypeOK
<1>1. ASSUME Stalls(r)
      PROVE  \E q \in Polls : poll' = [poll EXCEPT ![r] = q] /\ q.pc = "stalled" /\ q.key = NoKey
  <2> DEFINE q == At("stalled", poll[r].batch, {}, NoKey)
  <2>1. q \in Polls /\ q.pc = "stalled" /\ q.key = NoKey
    BY DEF At, Polls
  <2>2. poll' = [poll EXCEPT ![r] = q]
    BY <1>1 DEF Stalls
  <2> HIDE DEF q
  <2> QED
    BY <2>1, <2>2
<1>2. ASSUME AnswersLate(r), <<source, poll[r].batch>> \notin Failing
      PROVE  \E q \in Polls :
               /\ poll' = [poll EXCEPT ![r] = q] /\ q.pc = "items" /\ q.key = NoKey
               /\ \A i \in q.todo : <<source, q.batch, i>> \in Places
  <2> DEFINE q == At("items", poll[r].batch, Answer(r), NoKey)
  <2>1. \A i \in Answer(r) : <<source, poll[r].batch, i>> \in Places
    BY DEF Answer
  <2>2. Answer(r) \subseteq Nat
    BY <2>1, PlaceTypes
  <2>3. /\ q \in Polls /\ q.pc = "items" /\ q.key = NoKey
        /\ q.todo = Answer(r) /\ q.batch = poll[r].batch
    BY <2>2 DEF At, Polls
  <2>4. poll' = [poll EXCEPT ![r] = q]
    BY <1>2 DEF AnswersLate
  <2> HIDE DEF q
  <2> QED
    BY <2>1, <2>3, <2>4
<1>3. ASSUME AnswersLate(r), <<source, poll[r].batch>> \in Failing
      PROVE  poll' = [poll EXCEPT ![r] = NextRequest(r)]
  BY <1>3 DEF AnswersLate
<1>4. /\ poll[r].pc # "adding" /\ r \in up
      /\ UNCHANGED <<source, listed, up, redis, faults>>
  BY DEF Silence, Stalls, AnswersLate, PollOK
<1> QED
  BY <1>1, <1>2, <1>3, <1>4, NextRequestTypes DEF Silence

LEMMA TypesKept ==
  ASSUME TypeInv, [Next]_vars
  PROVE  TypeInv'
<1> USE DEF TypeInv, TypeOK
<1>1. ASSUME NEW p \in Places, List(p) PROVE TypeInv'
  BY <1>1 DEF List, redis, PollOK
<1>2. ASSUME NEW r \in Runners, StartRunner(r) PROVE TypeInv'
  BY <1>2 DEF StartRunner, redis, PollOK
<1>3. ASSUME NEW r \in Runners, StopRunner(r) PROVE TypeInv'
  <2>1. NoPoll \in Polls /\ NoPoll.pc = "idle" /\ NoPoll.key = NoKey
    BY DEF NoPoll, At, Polls
  <2>2. faults' \in 0..MaxFaults
    BY <1>3, SourcesAssumption DEF StopRunner, Fault
  <2>3. poll'[r] = NoPoll /\ \A n \in Runners \ {r} : poll'[n] = poll[n]
    BY <1>3 DEF StopRunner
  <2>4. \A n \in Runners : PollOK(n)'
    BY <1>3, <2>1, <2>3 DEF StopRunner, redis, PollOK
  <2> QED
    BY <1>3, <2>1, <2>2, <2>3, <2>4 DEF StopRunner, redis
<1>4. ASSUME NEW r \in Runners, NEW b \in FirstRequests, Tick(r, b) PROVE TypeInv'
  <2> DEFINE q == At("asking", b, {}, NoKey)
  <2>1. b \in Nat \ {0}
    BY RequestTypes DEF FirstRequests
  <2>2. q \in Polls /\ q.pc = "asking" /\ q.key = NoKey
    BY <2>1 DEF At, Polls
  <2> HIDE DEF q
  <2>3. poll' = [poll EXCEPT ![r] = q]
    BY <1>4 DEF Tick, q
  <2> QED
    BY <1>4, <2>2, <2>3, OnePoll DEF Tick, redis
<1>5. ASSUME NEW r \in Runners, Ask(r) PROVE TypeInv'
  <2> DEFINE q == At("items", poll[r].batch, Answer(r), NoKey)
  <2>1. \A i \in Answer(r) : <<source, poll[r].batch, i>> \in Places
    BY DEF Answer
  <2>2. Answer(r) \subseteq Nat
    BY <2>1, PlaceTypes
  <2>3. /\ q \in Polls /\ q.pc = "items" /\ q.key = NoKey
        /\ q.todo = Answer(r) /\ q.batch = poll[r].batch
    BY <2>2 DEF At, Polls
  <2>4. poll' = [poll EXCEPT ![r] = q]
    BY <1>5 DEF Ask
  <2> HIDE DEF q
  <2> QED
    BY <1>5, <2>1, <2>3, <2>4, OnePoll DEF Ask, redis, PollOK
<1>6. ASSUME NEW r \in Runners, AskFails(r) \/ Refused(r) \/ AnswerDone(r) PROVE TypeInv'
  <2>1. poll' = [poll EXCEPT ![r] = NextRequest(r)] /\ r \in up
    BY <1>6 DEF AskFails, Refused, AnswerDone, PollOK
  <2>2. faults' \in 0..MaxFaults
    BY <1>6, SourcesAssumption DEF AskFails, Refused, AnswerDone, Fault
  <2> QED
    BY <1>6, <2>1, <2>2, NextRequestTypes, OnePoll
       DEF AskFails, Refused, AnswerDone, redis
<1>7. ASSUME NEW r \in Runners, PassOver(r) \/ NotNew(r) PROVE TypeInv'
  <2>1. poll[r].pc = "items" /\ poll[r].todo # {} /\ r \in up
    BY <1>7 DEF PassOver, NotNew, AtItem, PollOK
  <2>2. \A i \in ItemDone(r).todo : <<source, ItemDone(r).batch, i>> \in Places
    BY <2>1, ItemDoneTypes DEF PollOK
  <2>3. poll' = [poll EXCEPT ![r] = ItemDone(r)]
    BY <1>7 DEF PassOver, NotNew
  <2> QED
    BY <1>7, <2>1, <2>2, <2>3, ItemDoneTypes, OnePoll DEF PassOver, NotNew, redis
<1>8. ASSUME NEW r \in Runners, ItemRaises(r) PROVE TypeInv'
  <2>1. r \in up
    BY <1>8 DEF ItemRaises, AtItem, PollOK
  <2> QED
    BY <1>8, <2>1, RaisedTypes, OnePoll DEF ItemRaises, redis
<1>9. ASSUME NEW r \in Runners, Mark(r) PROVE TypeInv'
  <2>1. poll[r].pc = "items" /\ poll[r].todo # {} /\ r \in up
    BY <1>9 DEF Mark, AtItem, PollOK
  <2>2. AtItem(r, "publish")
    BY <1>9 DEF Mark
  <2>3. \A i \in Adding(r).todo : <<source, Adding(r).batch, i>> \in Places
    BY <2>1, <2>2, AddingTypes DEF PollOK
  <2>4. /\ poll' = [poll EXCEPT ![r] = Adding(r)]
        /\ seen' = seen \cup {Outcome(Here(r)).key}
        /\ UNCHANGED <<source, listed, up, published, expiries, faults>>
    BY <1>9 DEF Mark
  <2>5. seen' \subseteq Keys /\ Adding(r).key \in seen' \cap Keys
    BY <2>2, <2>4, AddingTypes
  <2> QED
    BY <2>1, <2>2, <2>3, <2>4, <2>5, AddingTypes, OnePoll
<1>10. ASSUME NEW r \in Runners, Publish(r) PROVE TypeInv'
  <2>1. poll[r].pc = "adding" /\ poll[r].todo # {} /\ r \in up
    BY <1>10 DEF Publish, PollOK
  <2>2. \A i \in ItemDone(r).todo : <<source, ItemDone(r).batch, i>> \in Places
    BY <2>1, ItemDoneTypes DEF PollOK
  <2>3. published' \in [Keys -> Nat]
    BY <1>10, <2>1 DEF Publish
  <2>4. poll' = [poll EXCEPT ![r] = ItemDone(r)]
    BY <1>10 DEF Publish
  <2> QED
    BY <1>10, <2>1, <2>2, <2>3, <2>4, ItemDoneTypes, OnePoll DEF Publish
<1>11. ASSUME NEW r \in Runners, MarkFails(r) PROVE TypeInv'
  <2>1. r \in up
    BY <1>11 DEF MarkFails, AtItem, PollOK
  <2>2. seen \subseteq seen' /\ seen' \subseteq Keys
    BY <1>11, AddingTypes DEF MarkFails
  <2>3. faults' \in 0..MaxFaults
    BY <1>11, SourcesAssumption DEF MarkFails, Fault
  <2> QED
    BY <1>11, <2>1, <2>2, <2>3, RaisedTypes, OnePoll DEF MarkFails
<1>12. ASSUME NEW r \in Runners, PublishFails(r) PROVE TypeInv'
  <2>1. poll[r].pc = "adding" /\ r \in up
    BY <1>12 DEF PublishFails, PollOK
  <2>2. published' \in [Keys -> Nat]
    BY <1>12, <2>1 DEF PublishFails
  <2>3. faults' \in 0..MaxFaults
    BY <1>12, SourcesAssumption DEF PublishFails, Fault
  <2> QED
    BY <1>12, <2>1, <2>2, <2>3, RaisedTypes, OnePoll DEF PublishFails
<1>13. ASSUME NEW k \in Keys, Expire(k) PROVE TypeInv'
  <2>1. expiries' \in [Keys -> 0..MaxExpiries] /\ expiries'[k] > 0
    BY <1>13, SourcesAssumption DEF Expire
  <2>2. \A n \in Keys \ {k} : expiries'[n] = expiries[n] /\ (n \in seen => n \in seen')
    BY <1>13 DEF Expire
  <2>3. \A r \in Runners : PollOK(r)'
    BY <1>13, <2>1, <2>2 DEF Expire, PollOK
  <2> QED
    BY <1>13, <2>1, <2>3 DEF Expire
<1>14. CASE UNCHANGED vars
  BY <1>14 DEF vars, redis, PollOK
<1>15. ASSUME NEW r \in Runners, Silence(r) PROVE TypeInv'
  BY <1>15, SilenceTypes, OnePoll DEF redis
<1> QED
  BY <1>1, <1>2, <1>3, <1>4, <1>5, <1>6, <1>7, <1>8, <1>9, <1>10, <1>11, <1>12, <1>13, <1>14,
     <1>15
     DEF Next, Poll, Failure

\* For any runners, feeds and faults every variable keeps its type, a poll has only items of
\* its source before it, and holds a key exactly between SET NX and XADD.
THEOREM TypeCorrect == Spec => []TypeOK
<1>1. TypeInv /\ [Next]_vars => TypeInv'
  BY TypesKept
<1>2. TypeInv => TypeOK
  BY DEF TypeInv
<1> QED
  BY <1>1, <1>2, TypesInitially, PTL DEF Spec

-----------------------------------------------------------------------------
(* Once for each time its key can be set *)

\* The polls that have set the key of the article and not yet published it.
Adders(k) == {r \in Runners : poll[r].pc = "adding" /\ poll[r].key = k}

\* Each publication, done or under way, has had the key set for it.
OnceInv ==
  \A k \in Keys :
    published[k] + Cardinality(Adders(k)) <= expiries[k] + (IF k \in seen THEN 1 ELSE 0)

LEMMA SomeRunners ==
  ASSUME NEW S, S \subseteq Runners
  PROVE  IsFiniteSet(S) /\ Cardinality(S) \in Nat
BY SourcesAssumption, FS_Subset, FS_CardinalityType

LEMMA AddersNat ==
  ASSUME NEW k
  PROVE  /\ Cardinality(Adders(k)) \in Nat /\ IsFiniteSet(Adders(k))
         /\ Cardinality(Adders(k)') \in Nat /\ IsFiniteSet(Adders(k)')
BY SomeRunners DEF Adders

\* A poll that goes on to something else than publishing.
LEMMA AddersDrop ==
  ASSUME TypeInv, NEW r \in Runners, NEW q, q.pc # "adding",
         poll' = [poll EXCEPT ![r] = q], NEW k
  PROVE  /\ Cardinality(Adders(k)') <= Cardinality(Adders(k))
         /\ poll[r].pc = "adding" /\ poll[r].key = k =>
              Cardinality(Adders(k)') = Cardinality(Adders(k)) - 1
<1>1. poll'[r] = q /\ \A n \in Runners \ {r} : poll'[n] = poll[n]
  BY DEF TypeInv, TypeOK
<1>2. Adders(k)' = Adders(k) \ {r}
  BY <1>1 DEF Adders
<1>3. r \in Adders(k) => Cardinality(Adders(k)') = Cardinality(Adders(k)) - 1
  BY <1>2, AddersNat, FS_RemoveElement
<1>4. r \notin Adders(k) => Adders(k)' = Adders(k)
  BY <1>2
<1>5. poll[r].pc = "adding" /\ poll[r].key = k => r \in Adders(k)
  BY DEF Adders
<1> QED
  BY <1>3, <1>4, <1>5, AddersNat

LEMMA AddersGrow ==
  ASSUME TypeInv, NEW r \in Runners, NEW q, q.pc = "adding",
         poll[r].pc # "adding", poll' = [poll EXCEPT ![r] = q], NEW k
  PROVE  Cardinality(Adders(k)') = Cardinality(Adders(k)) + (IF k = q.key THEN 1 ELSE 0)
<1>1. poll'[r] = q /\ \A n \in Runners \ {r} : poll'[n] = poll[n]
  BY DEF TypeInv, TypeOK
<1>2. r \notin Adders(k)
  BY DEF Adders
<1>3. CASE k = q.key
  <2>1. Adders(k)' = Adders(k) \cup {r}
    BY <1>1, <1>3 DEF Adders
  <2> QED
    BY <1>2, <1>3, <2>1, AddersNat, FS_AddElement
<1>4. CASE k # q.key
  <2>1. Adders(k)' = Adders(k)
    BY <1>1, <1>4 DEF Adders
  <2> QED
    BY <1>4, <2>1, AddersNat
<1> QED
  BY <1>3, <1>4

\* A step that sets no key for a publication: the polls about to publish do not grow.
LEMMA OnceStill ==
  ASSUME TypeInv, OnceInv,
         \A k \in Keys : Cardinality(Adders(k)') <= Cardinality(Adders(k)),
         seen \subseteq seen', published' = published, expiries' = expiries
  PROVE  OnceInv'
<1> SUFFICES ASSUME NEW k \in Keys
             PROVE  published[k] + Cardinality(Adders(k)') <=
                      expiries[k] + (IF k \in seen' THEN 1 ELSE 0)
  BY DEF OnceInv
<1>1. published[k] \in Nat /\ expiries[k] \in Nat
  BY SourcesAssumption DEF TypeInv, TypeOK
<1>2. published[k] + Cardinality(Adders(k)) <= expiries[k] + (IF k \in seen THEN 1 ELSE 0)
  BY DEF OnceInv
<1>3. k \in seen => k \in seen'
  OBVIOUS
<1> QED
  BY <1>1, <1>2, <1>3, AddersNat

LEMMA OnceInitially == Init => OnceInv
<1> SUFFICES ASSUME Init, NEW k \in Keys
             PROVE  published[k] + Cardinality(Adders(k)) <=
                      expiries[k] + (IF k \in seen THEN 1 ELSE 0)
  BY DEF OnceInv
<1>1. Adders(k) = {}
  BY DEF Init, Adders, NoPoll, At
<1>2. published[k] = 0 /\ expiries[k] = 0
  BY DEF Init
<1> QED
  BY <1>1, <1>2, FS_EmptySet

LEMMA OnceKept ==
  ASSUME TypeInv, OnceInv, [Next]_vars
  PROVE  OnceInv'
<1>1. ASSUME poll' = poll, seen' = seen, published' = published, expiries' = expiries
      PROVE  OnceInv'
  <2>1. \A k : Adders(k)' = Adders(k)
    BY <1>1 DEF Adders
  <2>2. \A k \in Keys : Cardinality(Adders(k)') <= Cardinality(Adders(k))
    BY <2>1, AddersNat
  <2> QED
    BY <1>1, <2>2, OnceStill
<1>2. ASSUME NEW r \in Runners, NEW q, q.pc # "adding", poll' = [poll EXCEPT ![r] = q],
             seen \subseteq seen', published' = published, expiries' = expiries
      PROVE  OnceInv'
  <2>1. \A k \in Keys : Cardinality(Adders(k)') <= Cardinality(Adders(k))
    BY <1>2, AddersDrop
  <2> QED
    BY <1>2, <2>1, OnceStill
<1>3. ASSUME NEW r \in Runners, NEW q, q.pc # "adding", poll[r].pc = "adding",
             poll' = [poll EXCEPT ![r] = q], seen' = seen, expiries' = expiries,
             published' = [published EXCEPT ![poll[r].key] = @ + 1]
      PROVE  OnceInv'
  <2> SUFFICES ASSUME NEW k \in Keys
               PROVE  published'[k] + Cardinality(Adders(k)') <=
                        expiries[k] + (IF k \in seen THEN 1 ELSE 0)
    BY <1>3 DEF OnceInv
  <2>1. published[k] \in Nat /\ expiries[k] \in Nat
    BY SourcesAssumption DEF TypeInv, TypeOK
  <2>2. published[k] + Cardinality(Adders(k)) <= expiries[k] + (IF k \in seen THEN 1 ELSE 0)
    BY DEF OnceInv
  <2>3. published'[k] = published[k] + (IF k = poll[r].key THEN 1 ELSE 0)
    BY <1>3, <2>1 DEF TypeInv, TypeOK
  <2>4. Cardinality(Adders(k)') <=
          Cardinality(Adders(k)) - (IF k = poll[r].key THEN 1 ELSE 0)
    <3>1. /\ Cardinality(Adders(k)') <= Cardinality(Adders(k))
          /\ poll[r].key = k => Cardinality(Adders(k)') = Cardinality(Adders(k)) - 1
      BY <1>3, AddersDrop
    <3> QED
      BY <3>1, AddersNat
  <2> QED
    BY <2>1, <2>2, <2>3, <2>4, AddersNat
<1>4. ASSUME NEW p \in Places, List(p) PROVE OnceInv'
  BY <1>1, <1>4 DEF List, redis
<1>5. ASSUME NEW r \in Runners, StartRunner(r) PROVE OnceInv'
  BY <1>1, <1>5 DEF StartRunner, redis
<1>6. ASSUME NEW r \in Runners, StopRunner(r) PROVE OnceInv'
  <2>1. NoPoll.pc # "adding"
    BY DEF NoPoll, At
  <2> QED
    BY <1>2, <1>6, <2>1 DEF StopRunner, redis
<1>7. ASSUME NEW r \in Runners, NEW b \in FirstRequests, Tick(r, b) PROVE OnceInv'
  <2>1. At("asking", b, {}, NoKey).pc # "adding"
    BY DEF At
  <2> QED
    BY <1>2, <1>7, <2>1 DEF Tick, redis
<1>8. ASSUME NEW r \in Runners, Ask(r) PROVE OnceInv'
  <2> DEFINE q == At("items", poll[r].batch, Answer(r), NoKey)
  <2>1. q.pc # "adding"
    BY DEF At
  <2>2. poll' = [poll EXCEPT ![r] = q]
    BY <1>8 DEF Ask
  <2> HIDE DEF q
  <2> QED
    BY <1>2, <1>8, <2>1, <2>2 DEF Ask, redis
<1>9. ASSUME NEW r \in Runners, AskFails(r) \/ Refused(r) \/ AnswerDone(r) PROVE OnceInv'
  <2>1. NextRequest(r).pc # "adding"
    BY NextRequestTypes
  <2> QED
    BY <1>2, <1>9, <2>1 DEF AskFails, Refused, AnswerDone, redis
<1>10. ASSUME NEW r \in Runners, PassOver(r) \/ NotNew(r) PROVE OnceInv'
  <2>1. ItemDone(r).pc # "adding"
    BY DEF ItemDone, At
  <2> QED
    BY <1>2, <1>10, <2>1 DEF PassOver, NotNew, redis
<1>11. ASSUME NEW r \in Runners, ItemRaises(r) PROVE OnceInv'
  <2>1. Raised(r).pc # "adding"
    BY RaisedTypes
  <2> QED
    BY <1>2, <1>11, <2>1 DEF ItemRaises, redis
<1>12. ASSUME NEW r \in Runners, Mark(r) PROVE OnceInv'
  <2> SUFFICES ASSUME NEW k \in Keys
               PROVE  published[k] + Cardinality(Adders(k)') <=
                        expiries[k] + (IF k \in seen' THEN 1 ELSE 0)
    BY <1>12 DEF OnceInv, Mark
  <2>1. published[k] \in Nat /\ expiries[k] \in Nat
    BY SourcesAssumption DEF TypeInv, TypeOK
  <2>2. published[k] + Cardinality(Adders(k)) <= expiries[k] + (IF k \in seen THEN 1 ELSE 0)
    BY DEF OnceInv
  <2>3. AtItem(r, "publish") /\ poll[r].pc # "adding"
    BY <1>12 DEF Mark, AtItem
  <2>4. /\ Adding(r).key \notin seen /\ seen' = seen \cup {Adding(r).key}
        /\ poll' = [poll EXCEPT ![r] = Adding(r)] /\ Adding(r).pc = "adding"
    BY <1>12, <2>3, AddingTypes DEF Mark
  <2>5. Cardinality(Adders(k)') =
          Cardinality(Adders(k)) + (IF k = Adding(r).key THEN 1 ELSE 0)
    BY <2>3, <2>4, AddersGrow
  <2> QED
    BY <2>1, <2>2, <2>4, <2>5, AddersNat
<1>13. ASSUME NEW r \in Runners, Publish(r) PROVE OnceInv'
  <2>1. ItemDone(r).pc # "adding"
    BY DEF ItemDone, At
  <2> QED
    BY <1>3, <1>13, <2>1 DEF Publish
<1>14. ASSUME NEW r \in Runners, MarkFails(r) PROVE OnceInv'
  <2>1. Raised(r).pc # "adding"
    BY RaisedTypes
  <2>2. seen \subseteq seen'
    BY <1>14 DEF MarkFails
  <2> QED
    BY <1>2, <1>14, <2>1, <2>2 DEF MarkFails
<1>15. ASSUME NEW r \in Runners, PublishFails(r) PROVE OnceInv'
  <2>1. Raised(r).pc # "adding"
    BY RaisedTypes
  <2>2. CASE published' = published
    BY <1>2, <1>15, <2>1, <2>2 DEF PublishFails
  <2>3. CASE published' = [published EXCEPT ![poll[r].key] = @ + 1]
    BY <1>3, <1>15, <2>1, <2>3 DEF PublishFails
  <2> QED
    BY <1>15, <2>2, <2>3 DEF PublishFails
<1>16. ASSUME NEW e \in Keys, Expire(e) PROVE OnceInv'
  <2> SUFFICES ASSUME NEW k \in Keys
               PROVE  published[k] + Cardinality(Adders(k)) <=
                        expiries'[k] + (IF k \in seen' THEN 1 ELSE 0)
    <3>1. \A k : Adders(k)' = Adders(k)
      BY <1>16 DEF Expire, Adders
    <3> QED
      BY <1>16, <3>1 DEF OnceInv, Expire
  <2>1. published[k] \in Nat /\ expiries[k] \in Nat
    BY SourcesAssumption DEF TypeInv, TypeOK
  <2>2. published[k] + Cardinality(Adders(k)) <= expiries[k] + (IF k \in seen THEN 1 ELSE 0)
    BY DEF OnceInv
  <2>3. /\ e \in seen /\ seen' = seen \ {e}
        /\ expiries'[k] = expiries[k] + (IF k = e THEN 1 ELSE 0)
    BY <1>16, <2>1 DEF Expire, TypeInv, TypeOK
  <2> QED
    BY <2>1, <2>2, <2>3, AddersNat
<1>17. CASE UNCHANGED vars
  BY <1>1, <1>17 DEF vars, redis
<1>18. ASSUME NEW r \in Runners, Silence(r) PROVE OnceInv'
  BY <1>2, <1>18, SilenceTypes DEF redis
<1> QED
  BY <1>4, <1>5, <1>6, <1>7, <1>8, <1>9, <1>10, <1>11, <1>12, <1>13, <1>14, <1>15, <1>16,
     <1>17, <1>18
     DEF Next, Poll, Failure

\* Whatever number of runners overlap, stop and fail, an article goes to raw.news at most
\* once for each time its deduplication key can be set.
THEOREM PublishedOnce == Spec => []PublishedOncePerKey
<1>1. TypeInv /\ OnceInv => PublishedOncePerKey
  <2> SUFFICES ASSUME TypeInv, OnceInv, NEW k \in Keys
               PROVE  published[k] <= 1 + expiries[k]
    BY DEF PublishedOncePerKey
  <2>1. published[k] \in Nat /\ expiries[k] \in Nat
    BY SourcesAssumption DEF TypeInv, TypeOK
  <2>2. published[k] + Cardinality(Adders(k)) <= expiries[k] + (IF k \in seen THEN 1 ELSE 0)
    BY DEF OnceInv
  <2> QED
    BY <2>1, <2>2, AddersNat
<1>2. TypeInv /\ OnceInv /\ [Next]_vars => TypeInv' /\ OnceInv'
  BY TypesKept, OnceKept
<1>3. Init => TypeInv /\ OnceInv
  BY TypesInitially, OnceInitially
<1> QED
  BY <1>1, <1>2, <1>3, PTL DEF Spec

-----------------------------------------------------------------------------
(* What a fault can lose *)

LossInv == IsFiniteSet(Lost) /\ Cardinality(Lost) <= faults

LEMMA LossLess ==
  ASSUME TypeInv, LossInv, Lost' \subseteq Lost, faults' \in Nat, faults <= faults'
  PROVE  LossInv'
<1>1. IsFiniteSet(Lost') /\ Cardinality(Lost') <= Cardinality(Lost)
  BY FS_Subset DEF LossInv
<1>2. Cardinality(Lost) \in Nat /\ Cardinality(Lost') \in Nat /\ faults \in Nat
  BY <1>1, FS_CardinalityType, SourcesAssumption DEF LossInv, TypeInv, TypeOK
<1> QED
  BY <1>1, <1>2 DEF LossInv

LEMMA LossOne ==
  ASSUME TypeInv, LossInv, NEW x, Lost' \subseteq Lost \cup {x}, faults' = faults + 1
  PROVE  LossInv'
<1>1. /\ IsFiniteSet(Lost \cup {x}) /\ Cardinality(Lost) \in Nat
      /\ Cardinality(Lost \cup {x}) \in Nat
      /\ Cardinality(Lost \cup {x}) <= Cardinality(Lost) + 1
  <2>1. IsFiniteSet(Lost) /\ Cardinality(Lost) \in Nat
    BY FS_CardinalityType DEF LossInv
  <2>2. /\ IsFiniteSet(Lost \cup {x})
        /\ Cardinality(Lost \cup {x}) = IF x \in Lost THEN Cardinality(Lost)
                                                      ELSE Cardinality(Lost) + 1
    BY <2>1, FS_AddElement
  <2> QED
    BY <2>1, <2>2
<1>2. /\ IsFiniteSet(Lost') /\ Cardinality(Lost') \in Nat
      /\ Cardinality(Lost') <= Cardinality(Lost \cup {x})
  BY <1>1, FS_Subset, FS_CardinalityType
<1>3. faults \in Nat
  BY SourcesAssumption DEF TypeInv, TypeOK
<1> QED
  BY <1>1, <1>2, <1>3 DEF LossInv

LEMMA LossInitially == Init => LossInv
<1> SUFFICES ASSUME Init PROVE LossInv
  OBVIOUS
<1>1. Lost = {} /\ faults = 0
  BY DEF Init, Lost
<1> QED
  BY <1>1, FS_EmptySet DEF LossInv

\* A step that takes no key from a poll and marks none.
LEMMA NothingLost ==
  ASSUME TypeInv, NEW r \in Runners, NEW q, poll' = [poll EXCEPT ![r] = q],
         poll[r].pc # "adding", seen' = seen, published' = published
  PROVE  Lost' \subseteq Lost
<1> SUFFICES ASSUME NEW k \in Lost' PROVE k \in Lost
  OBVIOUS
<1>1. k \in seen /\ published[k] = 0 /\ \A n \in Runners : poll'[n].key # k
  BY DEF Lost
<1>2. k \in Keys
  BY <1>1 DEF TypeInv, TypeOK
<1>3. poll[r].key = NoKey
  BY DEF TypeInv, TypeOK, PollOK
<1>4. \A n \in Runners \ {r} : poll'[n] = poll[n]
  BY DEF TypeInv, TypeOK
<1> QED
  BY <1>1, <1>2, <1>3, <1>4, NoKeyIsNone DEF Lost

LEMMA LossKept ==
  ASSUME TypeInv, LossInv, [Next]_vars
  PROVE  LossInv'
<1>1. TypeInv' /\ faults \in Nat /\ faults' \in Nat
  <2>1. TypeInv'
    BY TypesKept
  <2> QED
    BY <2>1, SourcesAssumption DEF TypeInv, TypeOK
<1>2. ASSUME poll' = poll, seen' = seen, published' = published, faults' = faults
      PROVE  LossInv'
  <2>1. Lost' = Lost
    BY <1>2 DEF Lost
  <2> QED
    BY <1>1, <1>2, <2>1, LossLess
<1>3. ASSUME NEW r \in Runners, NEW q, poll' = [poll EXCEPT ![r] = q],
             poll[r].pc # "adding", seen' = seen, published' = published, faults <= faults'
      PROVE  LossInv'
  BY <1>1, <1>3, NothingLost, LossLess
<1>4. ASSUME NEW p \in Places, List(p) PROVE LossInv'
  BY <1>2, <1>4 DEF List, redis
<1>5. ASSUME NEW r \in Runners, StartRunner(r) PROVE LossInv'
  BY <1>2, <1>5 DEF StartRunner, redis
<1>6. ASSUME NEW r \in Runners, StopRunner(r) PROVE LossInv'
  <2>1. \A n \in Runners \ {r} : poll'[n] = poll[n]
    BY <1>6 DEF StopRunner, TypeInv, TypeOK
  <2>2. Lost' \subseteq Lost \cup {poll[r].key}
    BY <1>6, <2>1 DEF StopRunner, redis, Lost
  <2> QED
    BY <1>6, <2>2, LossOne DEF StopRunner, Fault
<1>7. ASSUME NEW r \in Runners, NEW b \in FirstRequests, Tick(r, b) PROVE LossInv'
  <2> DEFINE q == At("asking", b, {}, NoKey)
  <2>1. poll' = [poll EXCEPT ![r] = q]
    BY <1>7 DEF Tick
  <2> HIDE DEF q
  <2>2. poll[r].pc # "adding" /\ seen' = seen /\ published' = published /\ faults <= faults'
    BY <1>1, <1>7 DEF Tick, redis
  <2> QED
    BY <1>3, <2>1, <2>2
<1>8. ASSUME NEW r \in Runners, Ask(r) PROVE LossInv'
  <2> DEFINE q == At("items", poll[r].batch, Answer(r), NoKey)
  <2>1. poll' = [poll EXCEPT ![r] = q]
    BY <1>8 DEF Ask
  <2> HIDE DEF q
  <2>2. poll[r].pc # "adding" /\ seen' = seen /\ published' = published /\ faults <= faults'
    BY <1>1, <1>8 DEF Ask, redis
  <2> QED
    BY <1>3, <2>1, <2>2
<1>9. ASSUME NEW r \in Runners, AskFails(r) \/ Refused(r) \/ AnswerDone(r) PROVE LossInv'
  <2>1. faults <= faults'
    BY <1>1, <1>9 DEF AskFails, Refused, AnswerDone, Fault
  <2> QED
    BY <1>3, <1>9, <2>1 DEF AskFails, Refused, AnswerDone, redis
<1>10. ASSUME NEW r \in Runners, PassOver(r) \/ NotNew(r) \/ ItemRaises(r)
       PROVE  LossInv'
  BY <1>1, <1>3, <1>10 DEF PassOver, NotNew, ItemRaises, AtItem, redis
<1>11. ASSUME NEW r \in Runners, Mark(r) PROVE LossInv'
  <2>1. /\ poll[r].pc = "items" /\ seen' = seen \cup {Adding(r).key}
        /\ poll' = [poll EXCEPT ![r] = Adding(r)] /\ published' = published
        /\ faults' = faults
    BY <1>11, AddingTypes DEF Mark, AtItem
  <2>2. poll'[r] = Adding(r) /\ \A n \in Runners \ {r} : poll'[n] = poll[n]
    BY <2>1 DEF TypeInv, TypeOK
  <2>3. poll[r].key = NoKey
    BY <2>1 DEF TypeInv, TypeOK, PollOK
  <2>4. ASSUME NEW k \in Lost' PROVE k \in Lost
    <3>1. k \in seen' /\ published[k] = 0 /\ \A n \in Runners : poll'[n].key # k
      BY <2>1, <2>4 DEF Lost
    <3>2. k \in seen /\ k \in Keys
      BY <2>1, <2>2, <3>1 DEF TypeInv, TypeOK
    <3> QED
      BY <2>2, <2>3, <3>1, <3>2, NoKeyIsNone DEF Lost
  <2> QED
    BY <1>1, <2>1, <2>4, LossLess
<1>12. ASSUME NEW r \in Runners, Publish(r) PROVE LossInv'
  <2>1. poll[r].key \in Keys
    BY <1>12 DEF Publish, TypeInv
  <2>2. published'[poll[r].key] # 0 /\ \A k \in Keys \ {poll[r].key} :
                                         published'[k] = published[k]
    BY <1>12, <2>1 DEF Publish, TypeInv, TypeOK
  <2>3. \A n \in Runners \ {r} : poll'[n] = poll[n]
    BY <1>12 DEF Publish, TypeInv, TypeOK
  <2>4. ASSUME NEW k \in Lost' PROVE k \in Lost
    <3>1. k \in seen /\ published'[k] = 0 /\ \A n \in Runners : poll'[n].key # k
      BY <1>12 DEF Publish, Lost
    <3>2. k \in Keys /\ k # poll[r].key
      BY <2>2, <3>1 DEF TypeInv, TypeOK
    <3> QED
      BY <2>2, <2>3, <3>1, <3>2 DEF Lost
  <2> QED
    BY <1>1, <1>12, <2>4, LossLess DEF Publish
<1>13. ASSUME NEW r \in Runners, MarkFails(r) PROVE LossInv'
  <2>1. poll[r].pc = "items"
    BY <1>13 DEF MarkFails, AtItem
  <2>2. poll[r].key = NoKey /\ \A n \in Runners \ {r} : poll'[n] = poll[n]
    BY <1>13, <2>1 DEF MarkFails, TypeInv, TypeOK, PollOK
  <2>3. seen' \subseteq seen \cup {Outcome(Here(r)).key} /\ published' = published
    BY <1>13 DEF MarkFails
  <2>4. ASSUME NEW k \in Lost' PROVE k \in Lost \cup {Outcome(Here(r)).key}
    <3>1. k \in seen' /\ published[k] = 0 /\ \A n \in Runners : poll'[n].key # k
      BY <2>3, <2>4 DEF Lost
    <3>2. CASE k \in seen
      <4>1. k # NoKey
        BY <3>2, NoKeyIsNone DEF TypeInv, TypeOK
      <4> QED
        BY <2>2, <3>1, <3>2, <4>1 DEF Lost
    <3> QED
      BY <2>3, <3>1, <3>2
  <2> QED
    BY <1>13, <2>4, LossOne DEF MarkFails, Fault
<1>14. ASSUME NEW r \in Runners, PublishFails(r) PROVE LossInv'
  <2>1. \A n \in Runners \ {r} : poll'[n] = poll[n]
    BY <1>14 DEF PublishFails, TypeInv, TypeOK
  <2>2. \A k \in Keys \ {poll[r].key} : published'[k] = published[k]
    BY <1>14 DEF PublishFails, TypeInv, TypeOK
  <2>3. ASSUME NEW k \in Lost' PROVE k \in Lost \cup {poll[r].key}
    <3>1. k \in seen /\ published'[k] = 0 /\ \A n \in Runners : poll'[n].key # k
      BY <1>14 DEF PublishFails, Lost
    <3>2. k \in Keys
      BY <3>1 DEF TypeInv, TypeOK
    <3> QED
      BY <2>1, <2>2, <3>1, <3>2 DEF Lost
  <2> QED
    BY <1>14, <2>3, LossOne DEF PublishFails, Fault
<1>15. ASSUME NEW e \in Keys, Expire(e) PROVE LossInv'
  <2>1. Lost' \subseteq Lost
    BY <1>15 DEF Expire, Lost
  <2> QED
    BY <1>1, <1>15, <2>1, LossLess DEF Expire
<1>16. CASE UNCHANGED vars
  BY <1>2, <1>16 DEF vars, redis
<1>17. ASSUME NEW r \in Runners, Silence(r) PROVE LossInv'
  BY <1>1, <1>3, <1>17, SilenceTypes DEF redis
<1> QED
  BY <1>4, <1>5, <1>6, <1>7, <1>8, <1>9, <1>10, <1>11, <1>12, <1>13, <1>14, <1>15, <1>16,
     <1>17
     DEF Next, Poll, Failure

\* Whatever the feeds and however many runners poll them, no more articles are marked as
\* seen and lost than there were faults.
THEOREM LossIsBounded == Spec => []LossBounded
<1>1. LossInv => LossBounded
  BY DEF LossInv, LossBounded
<1>2. TypeInv /\ LossInv /\ [Next]_vars => TypeInv' /\ LossInv'
  BY TypesKept, LossKept
<1>3. Init => TypeInv /\ LossInv
  BY TypesInitially, LossInitially
<1> QED
  BY <1>1, <1>2, <1>3, PTL DEF Spec
=============================================================================
