# ChainPulse: a TLA+ verification project

ChainPulse reads supply-chain news, turns it into disruption events and tells its users how
the events delay their orders. This directory holds TLA+ modules that model the program's
core, TLC configurations that check them on small instances, and TLAPS proofs of the
properties that hold for every instance. `PROJECT.json` lists the runs, the lines each
definition models, the findings, the hazards and the theorems.

## The system

| Part | State it keeps | Operations | Hard part |
|---|---|---|---|
| Ingest pollers (`ingest/`, `services/dedup.py`) | Redis `seen:*` keys, 3 days | `poll_once` of five sources, `publish_raw` | the key is set before the publish; pollers overlap and crash |
| Stream consumers (`services/stream.py`, the runners, supervisord) | Redis streams `raw.news` and `processed.events`, a consumer group each, its cursor and pending list | `publish`, `ensure_group`, `consume` | crashes and lost replies between delivery and acknowledgement; an exception that ends the task |
| NLP pipeline (`services/nlp_pipeline.py`) | none | `process_one`, `run_consumer` | outside services fail; the publish stands outside the `try` |
| Storage pipeline (`services/storage_pipeline.py`, `postgres_writer.py`, `redis_broadcast.py`) | `events`, `user_event_impacts`, Redis `event:*` (300 s) | `process_one` | a chain of writes to four stores, any of which may fail |
| Delay engine (`services/delay_engine.py`) | `orders` (status, delay, ETA), `order_event_impacts` | `analyse_order`, `recompute_for_user_orders`, `_persist_analysis` | one transaction over the orders of all users, against requests |
| E-mail alerts (`services/email_alerts.py`) | Redis `alert:order:*` (6 h) | `maybe_alert` | mail first, key second |
| Orders API (`routers/orders.py`) | `orders` | create, list, analysis, mitigations, delete | two transactions per create, no lock |
| Extraction and geocoding (`services/groq_extractor.py`, `geo.py`) | none | `extract_event_from_news`, `resolve` | a model that may answer anything that is JSON |
| Predictor and rules (`delay_predictor.py`, `shipping_lanes.py`, `mitigations.py`) | the two regressors | `predict`, `supplier_uses_lane`, `suggest_mitigations` | rounding, defaults, two models trained apart |
| WebSocket fan-out (`services/connection_manager.py`, `routers/websocket.py`) | the registry of sockets and pump tasks | `connect`, `_pump`, `disconnect` | two tabs of one user share a key |
| Frontend (`frontend/js`) | the cards, the markers, the socket, the token | reload, update, add, remove, reconnect | replies and messages in any order |
| Profile, accounts, read-only APIs | one row each, or none | | little that TLC adds to |

The processes are `api`, `ingest`, `nlp` and `storage`, all started again by supervisord (or
systemd) when they exit. Ingest writes `raw.news`; nlp reads it and writes
`processed.events`; storage reads that and writes the databases, publishes on Redis channels
and sends mails; api serves requests, subscribes to the channels and forwards to sockets.
No two of them share memory: everything meets in Redis and Postgres.

What makes each part correct: the consumers hand over every entry at most once and in order
and account for each; an order's row says what the active events imply, its impact rows say
which events those are, its user is told what was committed, and is mailed about a critical
order once; an article is published once for each life of its key, and in the end; the
fan-out gives a socket its own messages once; the cards and markers show the rows; what a user
is told about an order adds up.

## The modules

**`LossyFifo`** is the abstract specification of a stream with its consumer: entries are
numbered as they are sent; each comes out at most once, in order; some never do.

**`StreamConsumer`** models `stream.py`, the two `run_consumer` loops and the runners, for
any set of streams and consumers. A stream (`log`, `trimmed`) is the sequence of all
entries ever added, of which a prefix has been trimmed. A consumer group is `group`,
`cursor` (last delivered id), `pel` (pending) and `acked` (history). `pc[c]` is where the
process stands: `down`, `starting` (before `ensure_group`), `reading` (at `xreadgroup`),
`dispatch` (at the next entry of the batch), `handling` (in the loop body), `acking` (the
generator resumed) or `dead` (the task ended, the process waits for a signal). There is one
action per step of the generator, one per outcome of the handler, and one per place a call
can fail: a failed Redis call may or may not have acted on the server. `Crash` takes the
process down at any point, a read under way included.

**`NewsPipeline`** puts the nlp and storage consumers in a row and states what the two
together promise, end to end, as a refinement of `LossyFifo`. `MCNewsPipeline` gives the
topology to TLC.

**`DelayAnalysis`** has `analyse_order` as operators: weight by distance and mode, rounding
half to even (in hundredths; the integer arithmetic gives the days the float products give
for predicted delays of up to 199 days), full credit for the top event and half for the
rest, status. Ties for the top are resolved by Redis SCAN order, so an analysis is one of a
set. It has no recursive operator.

**`OrderRecompute`** models the storage worker's `process_one` from the event row to the
mail, `create_order`, `delete_order` and the expiry of Redis keys, over Postgres at READ
COMMITTED. `worker` and `creator[o]` hold the local variables and the place of the storage
worker and of the request that creates order `o`. Its points of faithfulness:

- The scan of the cache has a beginning and an end; keys that expire or appear between may
  or may not be found (`Fetched`). A key that appears and expires within one scan is left out.
- An UPDATE writes the columns that differ from those loaded (`Updated`), which is what the
  SQLAlchemy session emits; when none differs there is no UPDATE and no row lock.
- The worker flushes one order at a time, keeps the locks up to its commit, and a DELETE of
  impact rows works on the rows its statement saw (`replaced`), also when it had to wait.
- A request's last transaction is one step once it can run: from its first lock to its
  commit nobody sees what it does. One pair of transactions can get in each other's way
  inside: a create that has deleted impact rows and now needs the order's key, and a delete
  that has the order and now cascades to those rows. Postgres aborts one of the two, which
  leaves what one of the orders of the two steps leaves.
- An UPDATE that finds no row raises and the worker's transaction is rolled back
  (`OrderGone`). The event is acknowledged all the same.
- Impact rows carry who wrote them, since nothing in the schema keeps the same event from
  being listed twice for an order.

What `analyse_order` returns is the constant `Analyses`, under an assumption TLC checks
(`AnalysesAssumption`); `MCOrderRecompute` gives it the operators of `DelayAnalysis`, which
meet the assumption for every finite set of events (`AnalysesFit`).

**`Ingest`** models the ingest runner: the five pollers, `publish_raw`, `is_new`, the
scheduler and the process. `Feeds` holds, for each source and each request of one poll, the
items the source could answer with; `listed` are those it answers with at the moment.
`poll[r]` is where runner `r` stands: at a request (`asking`), in one whose feed has gone
silent (`stalled`), at the items of its answer (`items`), or between `SET NX` and `XADD`
(`adding`). Only rss requests stall: `feedparser.parse` has no timeout (`rss.py:26`), the
other sources wait at most their httpx timeout of 30 seconds. One operator per poller says what it
makes of an item: published under a key, passed over, or an exception outside every `try`.
A call to Redis that fails may have acted on the server. The sources share neither keys nor
state, so a behaviour follows one source, whichever.

**`ConnectionManager`** models `/ws/events`, the registry with its two maps (`connections`,
`subs`), the pump tasks and Redis pub/sub. The API process has one thread, so what stands
between two awaits is one step: `Leave` takes registration and pump out and cancels the pump,
`CloseTaken` then closes the socket it took, which may be another tab's by then. `ServerSpec`
is the server among any browsers and any publishers; it is what the proofs are about.

**`Dashboard`** extends it to a tab: the WebSocket client, the card and the marker of one
order, the tab's GET, POST and DELETE, and the two writers of the order, each of which
loads the row, commits and publishes later. An order is represented by the number of its
version. What a writer publishes is its analysis, what it commits the columns in which the
analysis differs from the row it loaded, so that message and row can be different versions:
a create request whose analysis equals the row it loaded commits nothing and publishes that
older row (`AnalyseSame`); a writer whose row changed under it may leave a mixture of both
writers' columns, which nobody publishes (the second disjunct of `Writes`); else the row is
what will be published. `DeleteLost` is the delete request without an answer: `fetch`
rejects, and the code that takes card and marker away is not reached.

**`Extraction`** models the nlp runner's `process_one`: three attempts at the language model,
normalisation, the judgement, and the three ways to a place. A field of an answer is a value,
missing, null, or junk (of a type the code does not expect); a step that raises ends the work
on the article.

**`Assessment`** extends it and `DelayAnalysis`: `predict` (the formula, or two trained
regressors, which `Trained` brings in at any time), the row in Postgres that may refuse a
country, the event in the cache until it expires, the lanes a supplier uses, the recompute of
one order with the columns it leaves alone when nothing "changed", and on top of the row the
breakdown of the analysis page and every mitigation rule.

**`StreamConsumer_proofs`**, **`NewsPipeline_proofs`**, **`OrderRecompute_proofs`**,
**`DelayAnalysis_proofs`**, **`Assessment_proofs`**, **`Ingest_proofs`**,
**`ConnectionManager_proofs`** and **`Dashboard_proofs`** hold the theorems, each about the
module it is named after.

History variables (`handed`, `effects`, `acked`, `written`, `touched`, `owed`, `emails`,
`published`, `log`, `since`, `met`, `raced`, `expiries`, `faults`) are marked in the
declarations; no guard reads one but those that bound a run. Operators commented as faulty variants are used by no specification: they are the
mutated forms `PROJECT.json` lists for its properties.

## The runs

| Run | Configuration | Result |
|---|---|---|
| `news_pipeline` | `MCNewsPipeline.cfg` | 150 169 states; all hold |
| `pipeline_liveness` | `MCPipelineLiveness.cfg` | 15 487 states; holds |
| `dead_consumer` | `MCDeadConsumer.cfg` | violated |
| `orders` | `MCOrderRecompute.cfg` | 143 237 states; all hold |
| `delayed_without_cause` | `MCDelayedWithoutCause.cfg` | violated |
| `torn_row` | `MCTornRow.cfg` | violated |
| `deleted_order_aborts` | `MCDeletedOrderAborts.cfg` | violated |
| `critical_unmailed` | `MCCriticalUnmailed.cfg` | violated |
| `delay_outlives_events` | `MCDelayOutlivesEvents.cfg` | violated |
| `ingest` | `MCIngest.cfg` | 30 754 states; all hold |
| `live_updates` | `MCDashboard.cfg` | 2 456 950 states; all hold |
| `assessment` | `MCAssessment.cfg` | 264 903 states; all hold |

Deadlock is not checked: the outside producer stops at its bound, a consumer task may be
dead for good, keys are used up, sockets are used once, every article comes to an end and
users need not act, so the system may really stop.

### The stream consumers

`news_pipeline`: two consumers in a row, three entries from outside (decodable or not),
batches of two (so a batch has a middle), streams that keep two entries (so trimming runs
ahead of a slow consumer), and one fault per process of each kind: a crash, a reply lost
after delivery, an error that ends the task. `AtMostOnceInOrder`, `EffectsAtMostOnce`,
`AckedOnlyAfterHandling` and `NothingVanishes` together say what at-most-once means here: a
crash costs what was in flight, never order or uniqueness. `StrandedBounded` puts a number
on the cost, a batch per fault. `ArticlesStoredAtMostOnce` is the refinement of `LossyFifo`
by the whole pipeline, from an article on `raw.news` to the stored event.

`pipeline_liveness`: with crashes and lost replies, every entry is delivered (or trimmed
first), and acknowledged where no fault came in between. One entry kept per stream and two
entries sent: smaller, for the temporal check.

`dead_consumer`: `CrashedConsumerRestarts` fails. `main()` creates the task and waits for a
signal; a task ended by an exception leaves a process no supervisor has reason to restart.
`deploy/oracle/README.md:179` says a crashed service restarts within seconds.

Fairness: weak fairness of each consumer's `Step`. The event loop runs a ready task and
supervisord restarts a process that is down. No fault is fair; no producer need produce.

### Orders

`orders`: one order, two events (the second critical), one request creating the order,
deletion at any time, expiring events, one expiry of the alert key, one fault of any kind
anywhere. Two events are what a recompute needs to meet the result of another; one request
per order is all the code allows. `SettledReflectsActive` is the heart: after a recompute,
each order no request interfered with has the status and the minimum that follow from the
events the scan returned, the recompute's own among them. (Not the maximum: see the
hazards.) `ToldOnlyCommitted`, `EmailsBounded` and `DeletedStaysDeleted` relate what goes
out, and what a deletion leaves, to the order in which things were committed.
`EverybodyFinishes` needs weak fairness of the worker's and of each request's steps (two event
loops): with a fault, expiring keys and a deletion at any point nobody waits for ever, for a
lock or for a row that is gone.

The violated properties state what the repository's documents say:

- `DelayedHasCause`: a request loads a new order, reads the cache, a recompute for a new
  event commits status, delay and impact rows, then the request finds nothing to update,
  deletes the impact rows and inserts none. The user's last update is the older one, too.
- `RowIsOneAnalysis`: request and recompute each write the columns they changed.
- `RecomputeReachesEveryOrder`: two orders; one is deleted between the worker's SELECT and
  its UPDATE, and the other keeps its old status.
- `CriticalIsMailed`: three events; the order is critical, recovers, is critical again.
- `DelayEndsWithItsEvents`: the only event expires after the recompute. Under fairness, so
  that the counterexample is the system at rest and not one that stopped halfway.

The first, second and fourth need no fault; the runs allow none.

### Ingest

`ingest`: two runners (a deployment starts the new one before it stops the old one), five
sources with one or two requests, a feed and a term that always fail, items that are passed
over, items that raise, keys that run out once each, and one fault: a stop, a failed request,
or a failed call to Redis that may have acted; a feed may hang at any time. Two runners are
what it takes for two `SET NX` to meet; two requests, for one to come after a failed one.
`PublishedOncePerKey` counts publications against lives of the key; `LossBounded` says that
what is marked as seen and never published is at most one article per fault;
`ListedIsPublished` that what a source goes on listing is published in the end, a lost article
when its key has run out, unless (`Blocked`) its request always fails or an item before it in
the poll raises, which ends the poll at every tick, and unless every runner hangs in a feed
for good (`AllStalled`). Without that premise TLC finds both runners stalled for ever: with
`max_instances=1` no poll begins behind one that waits, and one silent feed stops rss.

Fairness: weak for starting a runner (supervisord), each poll and each expiry; strong for
`Tick`, per request, since the scheduler goes on firing a job that was skipped while the last
one ran, and the clock that selects the term of `gnews` comes to each. A request is assumed
to be answered, to fail or to reach its timeout, which the code guarantees for the four
sources that use httpx (its timeout bounds each read; a server that sends a byte now and then
for ever is left out). It does not for rss, so `Stalls` is possible at any rss request and
`AnswersLate` is not fair: a feed may stay silent for good.

### Live updates

`live_updates`: two sockets, each of which the tab or another tab of its user may open; five
versions of the order; two messages, one of which may be an event or another user's; one
fault. `OnlyOwnMessages` holds although a pump sends to whatever socket its key leads to by
then. `DeliveredOnceInOrder` and `RegistryExplained` except the sockets that shared a key
with another one (`met`): there a disconnect takes the other socket out, and a replaced pump
is left to run. Two sockets are what a replaced registration takes, two messages an order
between them, and both writers' announcements.

`CardCurrent` says when the tab is right: nothing under way, and none of six things
happened (`raced`): an update was published while the tab had no pump of its own, or was lost
before it arrived; an answer or an update with an older row arrived behind a newer one (a
request that publishes the row it loaded over a newer commit is of this kind, and one that is
delivered before the newer one does no harm); the order was deleted elsewhere or before an
update or an answer with it arrived; a publication or a request failed, or its answer was
lost; an UPDATE left columns of the other writer in the row. Each is set where the code lets
it happen, and each is needed: TLC finds the tab wrong, at rest, without any one of them (for
the mixed row it takes three messages of the order, one more than the run allows; one socket
and no fault are enough).

The constraint `Followed` stops a behaviour where `raced` becomes true: `CardCurrent` holds
trivially from there on, so nothing is hidden from it, and the server's properties are
checked on the behaviours up to that point. It also stops one step after the third version
of the order or message of others: a commit beyond is still made, what follows it is not. The sockets are interchangeable, hence the symmetry,
which is sound as the run checks invariants only.

### From an article to an assessment

`assessment`: three articles, eight answers of the model (a known port, coordinates from the
model alone, a place from GeoNames, no place, nulls and junk in each field a step trips over,
answers that are dropped), both kinds of prediction with regressors that cross, and two
orders that differ in mode, lanes, quantity and country. Three events are what it takes for
one to take the full credit from another beside a third; one of them may expire.

`RangeOrdered` and `MoreEventsNoFewerDays` are about rounding event by event and halving all
but the largest. The second compares every set of events in the cache with each of its
subsets, and with itself in another SCAN order: the minimum does not fall when events are
added, and does not depend on which of the largest is on top; the status can fall, from a
critical event on top to one that is not, and only so. It says nothing of the maximum, which
falls when an event with a higher minimum and a lower maximum goes on top (alone, 3 to 12
days; with one of 4 to 5 on top, 11). The run has critical and other events that tie.
`BreakdownAddsUp` bounds what the page's contributions and their adjustment
differ from the delay: the rounding of each half, which is not nothing. `SuggestionsModest`
makes one exception, a split shipment, which promises a day on an order that is on time.
`CountryOfCoordinates` and `LocatedIsStored` are about where an event's country comes from;
the exception of the second is an event that has no coordinates, whose country is the model's
uncut. `EveryArticleEnds` has weak fairness of the two runners' steps on the article.

## The proofs

`StreamConsumer_proofs` proves for any consumers, streams, batch size, trimming and number of
faults: `TypeCorrect`, `HandOffAtMostOnce`, `EffectAtMostOnce`, `AckAfterHandling`,
`NoEntryVanishes`, and `HandOffRefinesLossyFifo`, that each consumer with its stream
implements `LossyFifo`. They rest on `TopologyAssumption`, `OneWriterAssumption` and
`BoundsAssumption`. None of the properties is inductive: that `handed` increases
follows only because what was handed over lies behind the place in the batch, and the batch
behind the cursor. `ConsumerInv` says so for each consumer (`HandedLimit`, `EffectsLimit` and
`AckedLimit` are the limits by control state), `NextKeeps` proves it inductive, one lemma per
kind of step. An action of one consumer touches another only by appending to the stream the
other reads; `NextGrows` and `Frame` say once that appending disturbs nothing.

`StrandedAtMostBatches` has an invariant of its own on top of it, `StrandedInv`: what is
stranded is finite and at most a batch per fault, and a busy consumer's cursor is less than a
batch past its place, so that the fault that ends its batch strands no more than one.

`NewsPipeline_proofs` proves `PipelineRefinesLossyFifo`: with `NlpAssumption` and
`StorageAssumption` (who reads and writes what) the two processes implement one `LossyFifo`.
A step of the first that drops, one of the second that drops, and the storing itself each map
to a step of the channel or a stutter. What makes the positions of the two streams composable
is `Copied`: `processed.events` is the sequence of the first consumer's effects, since it has
no other writer.

`OrderRecompute_proofs` proves, for any orders and events, whatever `analyse_order` returns
within `AnalysesAssumption`, and any number of faults and expiries, all the properties of the
run `orders`: `TypeCorrect`, `RecomputeSettles`, `ToldWasCommitted`, `DeletedIsFinal` and
`MailedOnce`. Each has an inductive invariant of its own on top of `TypeInv`, which adds to the
types that a locked row is there and that worker and requests have in hand what they use next:

- `SettleInv`: while the worker goes over the orders, the row of an order nobody else writes
  to is the one it loaded, or gone (`Rewriting`); so the columns an UPDATE leaves out are
  right already, and the commit makes the row what the analysis says. That its own event is
  among those found goes back to the beginning of the scan (`FoundOwnEvent`). A request that
  may still write when the worker selects the orders makes an order count as touched.
- `ToldInv`: what the worker has left to tell, and a request about to tell, is committed.
- `GoneInv`: an order without a row has no impacts; `RowSteps` lists what a step may do to one.
- `MailInv`: an order without a key, and not about to get one, is a mail below the bound.

`Ingest_proofs` proves, for any finite set of runners, any feeds and failing requests and any
number of faults and expiries, the safety properties of the run `ingest`, from
`SourcesAssumption`: `TypeCorrect`, `PublishedOnce` and `LossIsBounded`. `TypeInv` adds that a
poll between its two calls has the key of an article. `PublishedOncePerKey` is not inductive:
what a poll is about to publish has to be counted too. `OnceInv` says that the publications
of an article and the polls about to publish it are at most the times its key has run out,
and one more while the key is set. `LossInv` adds to `LossBounded` that what is lost is
finite; each step either leaves nothing new lost, or one article along with its fault.

`DelayAnalysis_proofs` is about the operators alone, for any finite set of events and any
contributions in whole days with a minimum within the maximum (`DaysInOrder`). The sums of the
community modules are folds over finite sets; `SubsetInduction` (from the well-foundedness of
the strict subsets of a finite set) gives them the laws one needs: an element can be taken out
(`SumTakesOut`), a sum grows with its terms (`SumGrows`). On top of that:

- `AnalysesFit`: an analysis exists, its minimum is within its maximum, and it is the row of a
  new order exactly when nothing matched.
- `MoreEventsAddUp`: with more events the minimum is no less. The total is the halves of
  all, and the other half of the largest (`CombinedDays`); both grow, since a part of a sum is
  no larger (`SumOfPart`), rounding half to even is monotone, and so is what it takes away
  (`HalfGrows`). With a minimum no less the status is a lesser one only where the top was
  critical and is not any more (`StatusGrows`).
- `ShownNear`: credits and adjustment miss the total by at most a day per halved event.

`Assessment_proofs` proves all the invariants of the run `assessment`, for any articles,
answers, gazetteer, GeoNames, orders, lanes and trained models: `AssessmentTypes`,
`RangesOrdered`, `MoreEventsNeverFewerDays`, `BreakdownsAddUp`, `SuggestionsAreModest`,
`CountriesOfCoordinates` and `LocatedAreStored`. They rest on the tables being what they are
(`AnswersAssumption`, `TablesAssumption`, `PlacesAssumption`: numbers where the code
calculates, the modes the API validates (`schemas/order.py:11`), two-letter countries in
`port_gazetteer.json` and from GeoNames, and the cut of `geo.py:97`). `AssessmentInv` has three parts. `WorkInv` says what an article has in
hand at each stage, in particular that its event has no coordinates or those of a known place
with their country; `StoredInv` the same of what is stored, with the predicted days in order;
`RowInv` that the row's minimum is still what the events it names add up to. The last is why
the breakdown adds up when the cache has changed since: stored events and the order's mode
never change, so the contributions stay (`RowStays`).

`ConnectionManager_proofs` proves, for any sockets, users, publishers and messages,
`ServerTypes`, `ServerOwnMessages`, `ServerRegistry` and `ServerDelivery`, from
`NamesAssumption`. `ServerInv` adds to types and registry that what waits in a pump's queue is
on the channels of its socket (`OwnInv`; with `OnlyOwnMessages` alone a step that forwards
could send anything), and that for a socket that never shared its key, what was sent and what
waits together are the messages of its channels since it subscribed, in order (`DeliveryInv`).

`Dashboard_proofs` first proves `Spec => ServerSpec` (`DashboardHasServer`): tab, writers and
requests are browsers and publishers like any other, so `DashboardOwnMessages`,
`DashboardRegistry` and `DashboardDelivery` follow. For `DashboardTypes` and
`DashboardCardCurrent` it has `DashInv`. `CardCurrent` speaks of a system at rest; the
invariant says of every state without a race that a card behind the committed version still
has somebody who brings it (`Carried`): the worker or the request that committed it, an answer
that was read since, or an update that waits where it will arrive. There is no seventh way
for card and marker to go stale, although what a writer publishes need not be the row. `MeAssumption` is all they
need: the tab's user is a user and there is a version to commit.

Only model-checked: the liveness properties (`EveryEntryDelivered`, `EveryEntryAcked`,
`EverybodyFinishes`, `ListedIsPublished`, `EveryArticleEnds`), since the prover does not handle
fairness. Every other property of the passing runs has a theorem. That the integer arithmetic
gives the days of the code's floats is neither checked nor proved in TLA+.

## Assumptions about what is outside the code

Redis executes a command at most once per call, and an entry stays where a group's cursor
has it; a client library that sends a command again on its own is not modelled
(`requirements.txt` allows several). A consumer name has one process. Postgres runs at READ
COMMITTED, the default the code leaves. The mail server is configured and alerts enabled,
or no mail is ever sent. Event ids are new for each article.

Redis pub/sub hands a message to those subscribed when it is published, in order per
connection, and keeps nothing. The answers of the language model, of GeoNames and of the
regressors are constants, of which the runs take a choice; distances, ports, countries and
the lanes near a place are data. Fractions are in hundredths: up to 60 days, and apart from a
few exact halves, the code's floats round to the same days.

## Not modelled, and the plan

Done: every module above, their runs, and a theorem for every safety property of theirs. What
is left, in this order:

1. Proofs: the lanes of `Assessment`, as facts about the operators; the safety of 2.
2. `Ingest` composed in front of `NewsPipeline`, so that the way from a source to a stored
   event refines `LossyFifo`.
3. The profile API: two first saves of a profile at once (`profile.py:28` reads, then
   inserts), and the dashboard's lookup by a key nothing is cached under (`profile.py:83`).
4. The event lists of the frontend (sidebar, ticker, statistics, event markers): what the
   backfill and the messages of `events:*` leave in each of them.
5. The pool of Postgres connections that open sockets hold (`websocket.py:22`).

Left out of the modelled parts: the rows of `user_event_impacts`, which only the
profile's list of events reads; the SHAP explanation and the training script (numerical libraries); the
failed answer of the request that Postgres aborts to break a deadlock.

Left out for good: accounts and tokens (one guarded INSERT, stateless tokens), the read-only
APIs, the Neo4j graph (an idempotent write nobody reads back), connections and settings,
layout and styling, deployment scripts.
