------------------------ MODULE NewsPipeline_proofs ------------------------
(***************************************************************************)
(* Proofs about NewsPipeline: two lossy FIFO channels in a row are one,    *)
(* for every batch size, trimming, number of faults, and whatever other    *)
(* consumers and streams there are.                                        *)
(***************************************************************************)
EXTENDS NewsPipeline, StreamConsumer_proofs, SequenceTheorems

\* Both processes are consumers, and their streams differ.
LEMMA Places ==
  /\ Nlp \in Consumers /\ StorageWorker \in Consumers
  /\ RawNews \in Streams /\ ProcessedEvents \in Streams
  /\ RawNews # ProcessedEvents
  /\ Target[StorageWorker] \notin Streams
BY NlpAssumption, StorageAssumption, TopologyAssumption, OneWriterAssumption

-----------------------------------------------------------------------------
(* What stands on processed.events *)

\* nlp-1 is the only writer of processed.events: its entries are the articles whose
\* handling took effect, in that order.
Copied == log[ProcessedEvents] = effects[Nlp]

\* What an effect appends, and to which stream.
LEMMA EffectAppends ==
  ASSUME TypeOK, NEW c \in Consumers, TakeEffect(c)
  PROVE  /\ effects' = [effects EXCEPT ![c] = Append(@, pos[c])]
         /\ log' = IF Target[c] \in Streams
                   THEN [log EXCEPT ![Target[c]] = Append(@, pos[c])] ELSE log
BY DEF TakeEffect, XAdd

\* A step is an effect of one consumer, or adds at most to a stream no consumer writes.
LEMMA WhoWrites ==
  ASSUME TypeOK, Next
  PROVE  \/ \E c \in Consumers : pc[c] = "handling" /\ TakeEffect(c)
         \/ effects' = effects /\ log' = log
         \/ /\ effects' = effects
            /\ \E s \in Streams, entry \in Nat :
                 /\ log' = [log EXCEPT ![s] = Append(@, entry)]
                 /\ \A c \in Consumers : Target[c] # s
<1>1. ASSUME NEW s \in Streams, NEW entry \in {Undecodable, Decodable}, Produce(s, entry)
      PROVE  /\ effects' = effects /\ entry \in Nat
             /\ log' = [log EXCEPT ![s] = Append(@, entry)]
             /\ \A c \in Consumers : Target[c] # s
  BY <1>1 DEF Produce, XAdd, Undecodable, Decodable
<1>2. ASSUME NEW c \in Consumers, Step(c)
      PROVE  \/ pc[c] = "handling" /\ TakeEffect(c)
             \/ effects' = effects /\ log' = log
  BY <1>2 DEF Step, Start, EnsureGroup, ReadBatch, Deliver, Yield, SkipUndecodable,
    HandlerDrops, HandlerSucceeds, Ack, redis
<1>3. ASSUME NEW c \in Consumers, Failure(c)
      PROVE  \/ pc[c] = "handling" /\ TakeEffect(c)
             \/ effects' = effects /\ log' = log
  BY <1>3 DEF Failure, EnsureGroupFails, ReadReplyLost, Deliver, PublishFails, AckFails,
    Crash, redis
<1> QED
  BY <1>1, <1>2, <1>3 DEF Next

LEMMA CopiedKept ==
  ASSUME TypeOK, Copied, Next
  PROVE  Copied'
<1>1. log \in [Streams -> Seq(Nat)] /\ effects \in [Consumers -> Seq(Nat)]
  BY DEF TypeOK
<1>2. ASSUME NEW c \in Consumers, TakeEffect(c)
      PROVE  Copied'
  <2>1. CASE c = Nlp
    <3>1. effects'[Nlp] = Append(effects[Nlp], pos[Nlp])
      BY <1>1, <1>2, <2>1, EffectAppends
    <3>2. log'[ProcessedEvents] = Append(log[ProcessedEvents], pos[Nlp])
      BY <1>1, <1>2, <2>1, EffectAppends, Places, NlpAssumption
    <3> QED
      BY <3>1, <3>2 DEF Copied
  <2>2. CASE c # Nlp
    <3>1. Target[c] # ProcessedEvents
      BY <2>2, Places, NlpAssumption, OneWriterAssumption
    <3>2. effects'[Nlp] = effects[Nlp]
      BY <1>1, <1>2, <2>2, EffectAppends, Places
    <3>3. log'[ProcessedEvents] = log[ProcessedEvents]
      <4>1. log' = IF Target[c] \in Streams
                   THEN [log EXCEPT ![Target[c]] = Append(@, pos[c])] ELSE log
        BY <1>2, EffectAppends
      <4> QED
        BY <1>1, <3>1, <4>1, Places
    <3> QED
      BY <3>2, <3>3 DEF Copied
  <2> QED
    BY <2>1, <2>2
<1>3. ASSUME effects' = effects, NEW s \in Streams, NEW entry \in Nat,
             log' = [log EXCEPT ![s] = Append(@, entry)], \A c \in Consumers : Target[c] # s
      PROVE  Copied'
  <2>1. s # ProcessedEvents
    BY <1>3, Places, NlpAssumption
  <2> QED
    BY <1>1, <1>3, <2>1, Places DEF Copied
<1> QED
  BY <1>2, <1>3, WhoWrites DEF Copied

\* Every entry on processed.events is the number of an article on raw.news, and they increase.
LEMMA CopiesIncrease ==
  ASSUME IInv, Copied
  PROVE  /\ StrictlyIncreasing(log[ProcessedEvents])
         /\ \A i \in 1..Len(log[ProcessedEvents]) :
              log[ProcessedEvents][i] \in 1..Len(log[RawNews])
<1>1. /\ ConsumerInv(Nlp) /\ pos[Nlp] \in Nat /\ cursor[Nlp] \in Nat
      /\ Len(log[RawNews]) \in Nat
  BY Places DEF IInv, TypeOK
<1>2. EffectsLimit(Nlp) \in Int /\ EffectsLimit(Nlp) <= Len(log[RawNews])
  <2>1. cursor[Nlp] <= Len(log[RawNews]) /\ (pc[Nlp] \in Busy => pos[Nlp] <= cursor[Nlp])
    BY <1>1, NlpAssumption DEF ConsumerInv
  <2> QED
    BY <1>1, <2>1 DEF EffectsLimit, Busy
<1>3. /\ StrictlyIncreasing(effects[Nlp])
      /\ \A i \in 1..Len(effects[Nlp]) : effects[Nlp][i] \in 1..EffectsLimit(Nlp)
  BY <1>1 DEF ConsumerInv
<1> QED
  BY <1>1, <1>2, <1>3 DEF Copied

-----------------------------------------------------------------------------
(* The two channels as one *)

\* Looking each entry of a sequence up in another.
LEMMA LookedUpAppend ==
  ASSUME NEW t \in Seq(Nat), NEW q \in Seq(Nat), NEW p \in 1..Len(t),
         \A i \in 1..Len(q) : q[i] \in 1..Len(t)
  PROVE  [i \in 1..Len(Append(q, p)) |-> t[Append(q, p)[i]]]
           = Append([i \in 1..Len(q) |-> t[q[i]]], t[p])
<1> DEFINE m == [i \in 1..Len(q) |-> t[q[i]]]
           l == [i \in 1..Len(Append(q, p)) |-> t[Append(q, p)[i]]]
           r == Append(m, t[p])
<1>1. /\ Len(q) \in Nat /\ Len(t) \in Nat /\ p \in Nat
      /\ Len(Append(q, p)) = Len(q) + 1 /\ Append(q, p)[Len(q) + 1] = p
      /\ \A i \in 1..Len(q) : Append(q, p)[i] = q[i]
  OBVIOUS
<1>2. m \in Seq(Nat) /\ Len(m) = Len(q)
  BY <1>1
<1>3. l \in Seq(Nat) /\ Len(l) = Len(q) + 1
  BY <1>1
<1>4. /\ r \in Seq(Nat) /\ Len(r) = Len(q) + 1 /\ r[Len(q) + 1] = t[p]
      /\ \A i \in 1..Len(q) : r[i] = m[i]
  <2>1. t[p] \in Nat
    OBVIOUS
  <2> HIDE DEF m
  <2> QED
    BY <1>1, <1>2, <2>1
<1>5. \A i \in 1..Len(l) : l[i] = r[i]
  <2> HIDE DEF r
  <2> QED
    BY <1>1, <1>3, <1>4
<1> HIDE DEF l, r
<1>6. l = r
  BY <1>3, <1>4, <1>5, SeqEqual
<1> QED
  BY <1>6 DEF l, r

\* What has been stored was on processed.events.
LEMMA StoredWereThere ==
  ASSUME IInv
  PROVE  \A i \in 1..Len(effects[StorageWorker]) :
           /\ effects[StorageWorker][i] \in 1..Len(log[ProcessedEvents])
           /\ pc[StorageWorker] = "handling" =>
                effects[StorageWorker][i] < pos[StorageWorker]
<1> DEFINE w == StorageWorker
<1>1. /\ ConsumerInv(w) /\ pos[w] \in Nat /\ cursor[w] \in Nat
      /\ Len(log[ProcessedEvents]) \in Nat
  BY Places DEF IInv, TypeOK
<1>2. /\ cursor[w] <= Len(log[ProcessedEvents])
      /\ pc[w] \in Busy => pos[w] <= cursor[w]
      /\ \A i \in 1..Len(effects[w]) : effects[w][i] \in 1..EffectsLimit(w)
  BY <1>1, StorageAssumption DEF ConsumerInv
<1>3. EffectsLimit(w) \in Int /\ EffectsLimit(w) <= Len(log[ProcessedEvents])
  BY <1>1, <1>2 DEF EffectsLimit, Busy
<1>4. pc[w] = "handling" => EffectsLimit(w) = pos[w] - 1
  BY DEF EffectsLimit
<1> QED
  BY <1>1, <1>2, <1>3, <1>4

\* A step that stores nothing leaves what is stored alone.
LEMMA StoredStay ==
  ASSUME IInv, Grows, effects'[StorageWorker] = effects[StorageWorker]
  PROVE  StoredArticles' = StoredArticles
<1>1. \A i \in 1..Len(effects[StorageWorker]) :
        Article(effects[StorageWorker][i])' = Article(effects[StorageWorker][i])
  BY StoredWereThere, Places DEF Article, Grows
<1> QED
  BY <1>1 DEF StoredArticles

\* Storing one more article is a Receive: it is newer than the last one stored.
LEMMA StoringReceives ==
  ASSUME IInv, Copied, pc[StorageWorker] = "handling", TakeEffect(StorageWorker)
  PROVE  Articles!Receive
<1> DEFINE w == StorageWorker
           done == effects[w]
           n == Len(done)
           p == pos[w]
<1>1. /\ done \in Seq(Nat) /\ n \in Nat /\ p \in Nat
      /\ log[ProcessedEvents] \in Seq(Nat) /\ Len(log[ProcessedEvents]) \in Nat
  BY Places DEF IInv, TypeOK
<1>2. p \in 1..Len(log[ProcessedEvents])
  <2>1. ConsumerInv(w) /\ cursor[w] \in Nat
    BY Places DEF IInv, TypeOK
  <2>2. cursor[w] <= Len(log[ProcessedEvents]) /\ p \in 1..cursor[w]
    BY <2>1, StorageAssumption DEF ConsumerInv, Busy
  <2> QED
    BY <1>1, <2>1, <2>2
<1>3. effects'[w] = Append(done, p) /\ log' = log
  <2>1. /\ effects' = [effects EXCEPT ![w] = Append(@, pos[w])]
        /\ log' = log
    BY EffectAppends, Places DEF IInv
  <2> QED
    BY <2>1, Places DEF IInv, TypeOK
<1>4. \A i \in 1..n : done[i] \in 1..Len(log[ProcessedEvents]) /\ done[i] < p
  BY StoredWereThere
<1>5. Article(p) \in 1..Len(log[RawNews])
  BY <1>2, CopiesIncrease DEF Article
<1>6. \A i \in 1..n : Article(done[i]) < Article(p)
  BY <1>2, <1>4, CopiesIncrease DEF Article, StrictlyIncreasing
<1>7. StoredArticles' = Append(StoredArticles, Article(p))
  <2>1. StoredArticles = [i \in 1..Len(done) |-> log[ProcessedEvents][done[i]]]
    BY DEF StoredArticles, Article
  <2>2. StoredArticles' = [i \in 1..Len(Append(done, p)) |->
                            log[ProcessedEvents][Append(done, p)[i]]]
    BY <1>3 DEF StoredArticles, Article
  <2>3. Article(p) = log[ProcessedEvents][p]
    BY DEF Article
  <2> HIDE DEF n, done, p
  <2> QED
    BY <1>1, <1>2, <1>4, <2>1, <2>2, <2>3, LookedUpAppend DEF n
<1>8. Articles!LastOut < Article(p) /\ Articles!LastOut \in Nat
  <2>1. CASE n = 0
    <3>1. StoredArticles = <<>>
      BY <2>1 DEF StoredArticles
    <3> QED
      BY <1>5, <3>1 DEF Articles!LastOut
  <2>2. CASE n # 0
    <3>1. /\ Len(StoredArticles) = n /\ StoredArticles # <<>>
          /\ StoredArticles[n] = Article(done[n]) /\ n \in 1..n
      BY <1>1, <2>2 DEF StoredArticles
    <3>2. Articles!LastOut = Article(done[n])
      BY <3>1 DEF Articles!LastOut
    <3>3. Article(done[n]) \in Nat
      <4>1. done[n] \in 1..Len(log[ProcessedEvents])
        BY <1>4, <3>1
      <4> QED
        BY <1>1, <4>1, CopiesIncrease DEF Article
    <3> QED
      BY <1>6, <3>1, <3>2, <3>3
  <2> QED
    BY <2>1, <2>2
<1>9. Len(log[RawNews]) \in Nat /\ Article(p) \in (Articles!LastOut + 1)..Len(log[RawNews])
  <2>1. Len(log[RawNews]) \in Nat
    BY Places DEF IInv, TypeOK
  <2> QED
    BY <1>5, <1>8, <2>1
<1> QED
  BY <1>3, <1>7, <1>9 DEF Articles!Receive

\* A step that stores nothing adds at most one article to raw.news.
LEMMA OthersSend ==
  ASSUME IInv, Next, effects'[StorageWorker] = effects[StorageWorker]
  PROVE  [Articles!Next]_<<Len(log[RawNews]), StoredArticles>>
<1>1. StoredArticles' = StoredArticles
  BY NextGrows, StoredStay DEF IInv
<1>2. Len(log'[RawNews]) \in {Len(log[RawNews]), Len(log[RawNews]) + 1}
  <2>1. Yield(Nlp) => log' = log
    BY DEF Yield, redis
  <2> QED
    BY <2>1, StepShape, Places, NlpAssumption DEF IInv
<1> QED
  BY <1>1, <1>2 DEF Articles!Next, Articles!Send

\* From an article on raw.news to a stored event the two processes are one lossy FIFO
\* channel: no article is stored twice and none overtakes another, for any batch size,
\* trimming, crashes, lost replies and failing calls.
THEOREM PipelineRefinesLossyFifo == Spec => ArticlesStoredAtMostOnce
<1>1. Init => Copied /\ Articles!Init
  <2> SUFFICES ASSUME Init PROVE Copied /\ Articles!Init
    OBVIOUS
  <2>1. log[RawNews] = <<>> /\ log[ProcessedEvents] = <<>> /\ effects[Nlp] = <<>>
        /\ effects[StorageWorker] = <<>>
    BY Places DEF Init
  <2>2. StoredArticles = <<>>
    BY <2>1 DEF StoredArticles
  <2> QED
    BY <2>1, <2>2 DEF Copied, Articles!Init
<1>2. IInv /\ Copied /\ [Next]_vars =>
        Copied' /\ [Articles!Next]_<<Len(log[RawNews]), StoredArticles>>
  <2> SUFFICES ASSUME IInv, Copied, [Next]_vars
               PROVE  Copied' /\ [Articles!Next]_<<Len(log[RawNews]), StoredArticles>>
    OBVIOUS
  <2>1. CASE UNCHANGED vars
    BY <2>1 DEF vars, Copied, StoredArticles, Article
  <2>2. CASE Next
    <3>1. Copied'
      BY <2>2, CopiedKept DEF IInv
    <3>2. CASE effects'[StorageWorker] = effects[StorageWorker]
      BY <2>2, <3>1, <3>2, OthersSend
    <3>3. CASE effects'[StorageWorker] # effects[StorageWorker]
      <4>1. PICK c \in Consumers : pc[c] = "handling" /\ TakeEffect(c)
        BY <2>2, <3>3, WhoWrites DEF IInv
      <4>2. c = StorageWorker
        BY <3>3, <4>1, EffectAppends, Places DEF IInv, TypeOK
      <4> QED
        BY <3>1, <4>1, <4>2, StoringReceives DEF Articles!Next
    <3> QED
      BY <3>2, <3>3
  <2> QED
    BY <2>1, <2>2
<1> QED
  BY <1>1, <1>2, InvariantHolds, PTL DEF Spec, ArticlesStoredAtMostOnce, Articles!Spec
=============================================================================
