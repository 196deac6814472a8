------------------------------- MODULE Ingest -------------------------------
(***************************************************************************)
(* The ingest runner of ChainPulse: the pollers of ingest/*.py, which ask  *)
(* their sources for articles again and again, publish_raw (common.py),    *)
(* which puts an article on raw.news once, and the Redis key that says it  *)
(* has been there (dedup.py).                                              *)
(*                                                                         *)
(* What a source would answer is Feeds[s]: for each request of one poll    *)
(* (an RSS feed, a query term, the GDELT export) the items of the answer,  *)
(* of which those listed at the moment come.  An item has the fields the   *)
(* pollers look at; Missing is an absent or empty one, Null a title the    *)
(* JSON gives as null.  Two runner processes can overlap (a deployment     *)
(* starts the new one before it stops the old one).                        *)
(*                                                                         *)
(* The polls of different sources share neither state nor keys (each key   *)
(* begins with its source), so a behaviour follows one source, whichever   *)
(* it is.  A poller whose API key is not configured returns at once: its   *)
(* source is not in Sources.                                               *)
(***************************************************************************)
EXTENDS Naturals, Sequences, FiniteSets

CONSTANTS
  Runners,      \* ingest runner processes
  Sources,      \* the sources polled
  Feeds,        \* Feeds[s]: a sequence of requests, each a sequence of items
  Failing,      \* the requests <<s, b>> that never succeed
  MaxFaults,    \* bound: failures of Redis, of a request, crashes
  MaxExpiries   \* bound: how often one deduplication key runs out

Missing == ""
Null == "null"

ASSUME SourcesAssumption ==
  /\ Sources \subseteq {"gdelt", "rss", "guardian", "newsapi", "gnews"}
  /\ IsFiniteSet(Sources)
  /\ \A s \in Sources : Feeds[s] \in Seq(Seq([id : STRING, url : STRING, title : STRING,
                                              valid : BOOLEAN]))
  /\ IsFiniteSet(Runners)
  /\ MaxFaults \in Nat /\ MaxExpiries \in Nat

-----------------------------------------------------------------------------
(* What a poller makes of one item: passed over, offered to publish_raw under a key, or *)
(* an exception outside publish_raw.                                                    *)

NoKey == <<"", "">>
Skip == [does |-> "skip", key |-> NoKey]
Raise == [does |-> "raise", key |-> NoKey]

\* publish_raw: the key is the source with its own id; what RawNews rejects is dropped.
Offer(s, item, rawId) ==
  IF item.valid THEN [does |-> "publish", key |-> <<s, rawId>>] ELSE Skip

\* Python's or.
Or(a, b) == IF a = Missing THEN b ELSE a

\* A row is valid when it is long enough and has one of the event codes wanted.
GdeltItem(row) == Offer("gdelt", row, row.id)

RssItem(entry) ==
  LET rawId == Or(entry.id, Or(entry.url, entry.title))
  IN  IF rawId = Missing \/ entry.title = Missing THEN Skip ELSE Offer("rss", entry, rawId)

\* item.get("webTitle", "").strip(): null has no strip.
Article(s, item, rawId) ==
  CASE item.title = Null -> Raise
    [] item.title = Missing -> Skip
    [] OTHER -> Offer(s, item, rawId)

GuardianItem(item) ==
  IF item.url = Missing THEN Skip ELSE Article("guardian", item, Or(item.id, item.url))

NewsapiItem(art) == IF art.url = Missing THEN Skip ELSE Article("newsapi", art, art.url)

GnewsItem(art) == IF art.url = Missing THEN Skip ELSE Article("gnews", art, art.url)

\* The requests of a poll, and the place of an item: source, request, index in the answer.
Requests == UNION {{s} \X DOMAIN Feeds[s] : s \in Sources}
Places == UNION {{<<r[1], r[2], i>> : i \in DOMAIN Feeds[r[1]][r[2]]} : r \in Requests}

Outcome(p) ==
  LET item == Feeds[p[1]][p[2]][p[3]]
  IN  CASE p[1] = "gdelt" -> GdeltItem(item)
        [] p[1] = "rss" -> RssItem(item)
        [] p[1] = "guardian" -> GuardianItem(item)
        [] p[1] = "newsapi" -> NewsapiItem(item)
        [] p[1] = "gnews" -> GnewsItem(item)

Offered == {p \in Places : Outcome(p).does = "publish"}
Keys == {Outcome(p).key : p \in Offered}

-----------------------------------------------------------------------------

VARIABLES
  source,     \* the source followed
  listed,     \* the places whose items it answers with at the moment
  up,         \* the runner processes that are up
  poll,       \* poll[r]: where runner r's poll of the source stands
  seen,       \* the deduplication keys in Redis
  published,  \* published[k]: how often the article with key k went to raw.news (history)
  expiries,   \* expiries[k]: how often its key has run out (history)
  faults      \* (history)

redis == <<seen, published, expiries>>
vars == <<source, listed, up, poll, seen, published, expiries, faults>>

\* batch is the request the poll has come to, todo the indexes of its answer it has not,
\* key what is between the deduplication key and the stream.
At(pc, batch, todo, key) == [pc |-> pc, batch |-> batch, todo |-> todo, key |-> key]
NoPoll == At("idle", 1, {}, NoKey)

Polls == [pc : {"idle", "asking", "stalled", "items", "adding"}, batch : Nat \ {0},
          todo : SUBSET Nat, key : Keys \cup {NoKey}]

\* A poll runs in a live process, has only items of its source before it, and holds a key,
\* one already set or run out since, exactly between its two calls to Redis.
PollOK(r) ==
  /\ poll[r].pc # "idle" => r \in up
  /\ poll[r].pc \in {"items", "adding"} =>
       \A i \in poll[r].todo : <<source, poll[r].batch, i>> \in Places
  /\ poll[r].pc = "adding" =>
       /\ poll[r].todo # {}
       /\ poll[r].key \in seen \/ expiries[poll[r].key] > 0
  /\ poll[r].pc # "adding" => poll[r].key = NoKey

TypeOK ==
  /\ source \in Sources /\ listed \subseteq Places
  /\ up \subseteq Runners
  /\ poll \in [Runners -> Polls]
  /\ seen \subseteq Keys
  /\ published \in [Keys -> Nat]
  /\ expiries \in [Keys -> 0..MaxExpiries]
  /\ faults \in 0..MaxFaults
  /\ \A r \in Runners : PollOK(r)

Init ==
  /\ source \in Sources
  /\ listed = {}
  /\ up = {}
  /\ poll = [r \in Runners |-> NoPoll]
  /\ seen = {}
  /\ published = [k \in Keys |-> 0]
  /\ expiries = [k \in Keys |-> 0]
  /\ faults = 0

Fault == faults < MaxFaults /\ faults' = faults + 1

-----------------------------------------------------------------------------
(* The source, the process and the scheduler *)

\* The source starts or stops to answer with an item.
List(p) ==
  /\ p[1] = source
  /\ listed' = IF p \in listed THEN listed \ {p} ELSE listed \cup {p}
  /\ UNCHANGED <<source, up, poll, redis, faults>>

StartRunner(r) ==
  /\ r \notin up
  /\ up' = up \cup {r}
  /\ UNCHANGED <<source, listed, poll, redis, faults>>

\* A kill, or a SIGTERM: shutdown(wait=False), and asyncio.run cancels the polls.
StopRunner(r) ==
  /\ r \in up
  /\ Fault
  /\ up' = up \ {r}
  /\ poll' = [poll EXCEPT ![r] = NoPoll]
  /\ UNCHANGED <<source, listed, redis>>

\* Which request a poll begins with: gnews makes one, chosen by the clock.
FirstRequests == IF source = "gnews" THEN DOMAIN Feeds[source]
                                     ELSE {1} \cap DOMAIN Feeds[source]

\* add_job(..., max_instances=1): no second poll while one is under way.
Tick(r, b) ==
  /\ r \in up
  /\ poll[r].pc = "idle"
  /\ b \in FirstRequests
  /\ poll' = [poll EXCEPT ![r] = At("asking", b, {}, NoKey)]
  /\ UNCHANGED <<source, listed, up, redis, faults>>

-----------------------------------------------------------------------------
(* A poll *)

\* for url in RSS_FEEDS, for term in QUERY_TERMS: the sources asked more than once.
LoopsOver == {"rss", "guardian", "newsapi"}

\* Faulty variant: a failed request ends the poll.
NextRequestReturns(r) == NoPoll

NextRequest(r) ==
  IF source \in LoopsOver /\ poll[r].batch + 1 \in DOMAIN Feeds[source]
  THEN At("asking", poll[r].batch + 1, {}, NoKey) ELSE NoPoll

\* An exception in the loop over the items: caught for each feed of rss, else the poll ends.
Raised(r) == IF source = "rss" THEN NextRequest(r) ELSE NoPoll

Answer(r) ==
  {i \in DOMAIN Feeds[source][poll[r].batch] : <<source, poll[r].batch, i>> \in listed}

Ask(r) ==
  /\ poll[r].pc = "asking"
  /\ <<source, poll[r].batch>> \notin Failing
  /\ poll' = [poll EXCEPT ![r] = At("items", @.batch, Answer(r), NoKey)]
  /\ UNCHANGED <<source, listed, up, redis, faults>>

\* The last attempt fails too: on to the next feed or term, or the end of the poll.
AskFails(r) ==
  /\ poll[r].pc \in {"asking", "stalled"}
  /\ Fault
  /\ poll' = [poll EXCEPT ![r] = NextRequest(r)]
  /\ UNCHANGED <<source, listed, up, redis>>

Refused(r) ==
  /\ poll[r].pc = "asking"
  /\ <<source, poll[r].batch>> \in Failing
  /\ poll' = [poll EXCEPT ![r] = NextRequest(r)]
  /\ UNCHANGED <<source, listed, up, redis, faults>>

\* feedparser.parse has no timeout: its thread waits for as long as the connection stays
\* open and silent.  The other sources give up after HTTP_TIMEOUT or 30 seconds.
Stalls(r) ==
  /\ poll[r].pc = "asking" /\ source = "rss"
  /\ poll' = [poll EXCEPT ![r] = At("stalled", @.batch, {}, NoKey)]
  /\ UNCHANGED <<source, listed, up, redis, faults>>

\* The feed says after all what it would have said, or closes the connection (AskFails).
AnswersLate(r) ==
  /\ poll[r].pc = "stalled"
  /\ poll' = [poll EXCEPT ![r] =
       IF <<source, @.batch>> \in Failing THEN NextRequest(r)
                                         ELSE At("items", @.batch, Answer(r), NoKey)]
  /\ UNCHANGED <<source, listed, up, redis, faults>>

AnswerDone(r) ==
  /\ poll[r].pc = "items" /\ poll[r].todo = {}
  /\ poll' = [poll EXCEPT ![r] = NextRequest(r)]
  /\ UNCHANGED <<source, listed, up, redis, faults>>

First(S) == CHOOSE i \in S : \A k \in S : i <= k

\* The item the poll has come to.
Here(r) == <<source, poll[r].batch, First(poll[r].todo)>>

AtItem(r, what) ==
  poll[r].pc = "items" /\ poll[r].todo # {} /\ Outcome(Here(r)).does = what

ItemDone(r) == At("items", poll[r].batch, poll[r].todo \ {First(poll[r].todo)}, NoKey)
Adding(r) == At("adding", poll[r].batch, poll[r].todo, Outcome(Here(r)).key)

PassOver(r) ==
  /\ AtItem(r, "skip")
  /\ poll' = [poll EXCEPT ![r] = ItemDone(r)]
  /\ UNCHANGED <<source, listed, up, redis, faults>>

ItemRaises(r) ==
  /\ AtItem(r, "raise")
  /\ poll' = [poll EXCEPT ![r] = Raised(r)]
  /\ UNCHANGED <<source, listed, up, redis, faults>>

\* is_new: SET NX finds the key.
NotNew(r) ==
  /\ AtItem(r, "publish")
  /\ Outcome(Here(r)).key \in seen
  /\ poll' = [poll EXCEPT ![r] = ItemDone(r)]
  /\ UNCHANGED <<source, listed, up, redis, faults>>

\* Faulty variants: the key is not looked at; the keys of the whole answer are set at once;
\* the key is only set after the article is on the stream.
MarkUnchecked(r) ==
  /\ AtItem(r, "publish")
  /\ seen' = seen \cup {Outcome(Here(r)).key}
  /\ poll' = [poll EXCEPT ![r] = Adding(r)]
  /\ UNCHANGED <<source, listed, up, published, expiries, faults>>
MarkAnswer(r) ==
  /\ AtItem(r, "publish")
  /\ Outcome(Here(r)).key \notin seen
  /\ seen' = seen \cup {Outcome(p).key : p \in Offered \cap
                          {<<source, poll[r].batch, i>> : i \in poll[r].todo}}
  /\ poll' = [poll EXCEPT ![r] = Adding(r)]
  /\ UNCHANGED <<source, listed, up, published, expiries, faults>>
MarkLater(r) ==
  /\ AtItem(r, "publish")
  /\ Outcome(Here(r)).key \notin seen
  /\ poll' = [poll EXCEPT ![r] = Adding(r)]
  /\ UNCHANGED <<source, listed, up, redis, faults>>

\* is_new: SET NX sets the key.
Mark(r) ==
  /\ AtItem(r, "publish")
  /\ Outcome(Here(r)).key \notin seen
  /\ seen' = seen \cup {Outcome(Here(r)).key}
  /\ poll' = [poll EXCEPT ![r] = Adding(r)]
  /\ UNCHANGED <<source, listed, up, published, expiries, faults>>

Publish(r) ==
  /\ poll[r].pc = "adding"
  /\ published' = [published EXCEPT ![poll[r].key] = @ + 1]
  /\ poll' = [poll EXCEPT ![r] = ItemDone(r)]
  /\ UNCHANGED <<source, listed, up, seen, expiries, faults>>

\* The SET fails; the server may have set the key all the same.
MarkFails(r) ==
  /\ AtItem(r, "publish")
  /\ Fault
  /\ seen' \in {seen, seen \cup {Outcome(Here(r)).key}}
  /\ poll' = [poll EXCEPT ![r] = Raised(r)]
  /\ UNCHANGED <<source, listed, up, published, expiries>>

\* The XADD fails; the server may have added the article all the same.
PublishFails(r) ==
  /\ poll[r].pc = "adding"
  /\ Fault
  /\ published' \in {published, [published EXCEPT ![poll[r].key] = @ + 1]}
  /\ poll' = [poll EXCEPT ![r] = Raised(r)]
  /\ UNCHANGED <<source, listed, up, seen, expiries>>

\* ex=DEDUP_TTL_SECONDS.
Expire(k) ==
  /\ k \in seen
  /\ expiries[k] < MaxExpiries
  /\ seen' = seen \ {k}
  /\ expiries' = [expiries EXCEPT ![k] = @ + 1]
  /\ UNCHANGED <<source, listed, up, poll, published, faults>>

-----------------------------------------------------------------------------

Poll(r) ==
  \/ Ask(r) \/ Refused(r) \/ AnswerDone(r)
  \/ PassOver(r) \/ ItemRaises(r) \/ NotNew(r) \/ Mark(r) \/ Publish(r)

Silence(r) == Stalls(r) \/ AnswersLate(r)

Failure(r) == StopRunner(r) \/ AskFails(r) \/ MarkFails(r) \/ PublishFails(r)

Next ==
  \/ \E p \in Places : List(p)
  \/ \E r \in Runners : \/ StartRunner(r)
                         \/ \E b \in FirstRequests : Tick(r, b)
                         \/ Poll(r) \/ Silence(r) \/ Failure(r)
  \/ \E k \in Keys : Expire(k)

Spec == Init /\ [][Next]_vars

\* supervisord starts a runner that is down, the scheduler fires its jobs, the clock takes
\* gnews through its terms, a poll goes on, keys run out.  A request is answered, fails or
\* runs into its timeout in the end, but for one of rss that has stalled: nothing ends it.
FairSpec ==
  /\ Spec
  /\ \A r \in Runners :
       /\ WF_vars(StartRunner(r))
       /\ WF_vars(Poll(r))
       /\ \A b \in UNION {DOMAIN Feeds[s] : s \in Sources} : SF_vars(Tick(r, b))
  /\ \A k \in Keys : WF_vars(Expire(k))

-----------------------------------------------------------------------------
(* Properties *)

\* An article goes to raw.news at most once for each time its key can be set, whatever
\* polls and runners overlap, stop or fail (common.py:23, dedup.py:20).
PublishedOncePerKey == \A k \in Keys : published[k] <= 1 + expiries[k]

\* The articles marked as seen that no poll is about to publish and that never came to the
\* stream: what is lost until the key runs out.
Lost == {k \in seen : published[k] = 0 /\ \A r \in Runners : poll[r].key # k}

\* publish_raw marks one article and publishes it before it marks the next: a fault loses
\* the one it strikes, never an answer.
LossBounded == Cardinality(Lost) <= faults

\* What keeps a poll from an item: its request fails each time, or an item before it in
\* the same poll raises.
Blocked(p) ==
  \/ <<p[1], p[2]>> \in Failing
  \/ \E q \in listed :
       /\ Outcome(q).does = "raise"
       /\ \/ q[2] = p[2] /\ q[3] < p[3]
          \/ q[2] < p[2] /\ p[1] \in LoopsOver

\* Every runner hangs in a request for a feed; it will not poll rss again before it ends.
AllStalled == \A r \in Runners : poll[r].pc = "stalled"

\* An article the source goes on answering with is published in the end, also one that a
\* fault lost, once its key has run out; a feed or a term that fails, or hangs for a
\* while, does not keep the articles of the others from the stream.  Only feeds that hang
\* for good stop rss, once every runner waits for one: max_instances=1 lets no poll begin
\* behind them (rss.py:26, scheduler.py:17).
ListedIsPublished ==
  \A p \in Offered :
    []<>~AllStalled =>
      (p \in listed ~> published[Outcome(p).key] > 0 \/ p \notin listed \/ Blocked(p))
=============================================================================
