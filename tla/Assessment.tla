----------------------------- MODULE Assessment -----------------------------
(***************************************************************************)
(* From an article to what a user is told about an order: the event made   *)
(* of it (Extraction) is given its predicted delays (delay_predictor.py)   *)
(* and stored, weighed against the order (DelayAnalysis, with the lanes of *)
(* shipping_lanes.py), and shown: the row, the breakdown of the analysis   *)
(* page (routers/orders.py) and the suggestions (mitigations.py).          *)
(*                                                                         *)
(* It follows one order.  How far a place is from the order's supplier,    *)
(* the lanes that pass it, and the tables of ports and countries are data. *)
(* Fractions are in hundredths; up to 60 days, and apart from a few exact  *)
(* halves, the code's floats round to the same days.                       *)
(***************************************************************************)
EXTENDS Extraction, DelayAnalysis, Integers

CONSTANTS
  Orders,         \* orders: [mode, country, qty], qty 0 where none is given
  Km,             \* Km[at]: kilometres from the supplier
  LanesAt,        \* LanesAt[at]: the lanes that pass within ROUTE_BUFFER_KM
  PortRank,       \* PortRank[name], of the ports that have one
  CountryRisk,    \* CountryRisk[country], of those that have one
  TrainedModel,   \* TrainedModel[type]: what the two regressors say, [min, max]
  SourceBegins,   \* SourceBegins[a]: the countries whose letters begin the source's name
  MaxExpired      \* bound of the model: expired events

VARIABLES
  order,     \* the order followed
  trained,   \* both regressors could be loaded
  stored,    \* stored[a]: the event made of article a, with its delays
  active,    \* the articles whose events are in the cache
  row        \* the order's row, with the events its impact rows name

vars == <<work, fate, order, trained, stored, active, row>>

\* CHAR(2): the database refuses a longer country, and the event is not cached.
Fits(country) == country = "none" \/ \E c \in DOMAIN Cut : country = Cut[c]

\* The tables hold numbers, and the API takes the modes of transport it knows.
ASSUME TablesAssumption ==
  /\ \A name \in DOMAIN PortRank : PortRank[name] \in Nat
  /\ \A country \in DOMAIN CountryRisk : CountryRisk[country] \in Nat
  /\ \A type \in EventTypes : TrainedModel[type].min \in Int /\ TrainedModel[type].max \in Int
  /\ \A at \in DOMAIN Km : Km[at] \in Nat
  /\ \A o \in Orders : o.mode \in DOMAIN SHIPPING_MODE_FACTORS

\* Ports, and what GeoNames finds, are somewhere and have a country of two letters; the
\* country of an answer that has coordinates is cut to two.
ASSUME PlacesAssumption ==
  LET known(place) == place.at \in DOMAIN Km /\ Fits(place.country)
  IN  /\ \A l \in DOMAIN Gazetteer : known(Gazetteer[l])
      /\ \A l \in DOMAIN GeoNames : GeoNames[l] \in {NoPlace, Broken} \/ known(GeoNames[l])
      /\ \A answer \in Answers :
           Given(answer.coords) /\ answer.coords # Junk =>
             answer.coords \in DOMAIN Km /\ CountryOf(answer) \in DOMAIN Cut

-----------------------------------------------------------------------------
(* The predictor *)

SeverityNum == [low |-> 1, medium |-> 2, high |-> 3, critical |-> 4]

HistoricalDays(type) ==
  CASE type = "PORT_STRIKE" -> 10
    [] type = "WEATHER_EVENT" -> 5
    [] type \in {"FACTORY_CLOSURE", "GEOPOLITICAL"} -> 14
    [] type = "SANCTIONS" -> 30
    [] type = "LOGISTICS_DELAY" -> 4
    [] type = "OTHER" -> 3

AtLeast(n, least) == IF n < least THEN least ELSE n

Lookup(table, key, default) == IF key \in DOMAIN table THEN table[key] ELSE default

\* The formula used while there are no trained models.
Stub(event) ==
  LET base == HistoricalDays(event.type) * SeverityNum[event.severity]
      rank == Lookup(PortRank, event.place.name, 50)
      risk == Lookup(CountryRisk, event.place.country, 5)
      rankFactor == AtLeast(101 - rank, 40)
  IN  [min |-> Rounded(base * 4 * rankFactor, 1000),
       max |-> Rounded(base * 9 * rankFactor + risk * 600, 1000)]

\* Faulty variant: the two predictions are bounded one by one.
PredictEach(event) ==
  LET raw == IF trained THEN TrainedModel[event.type] ELSE Stub(event)
  IN  [min |-> AtLeast(raw.min, 1), max |-> AtLeast(raw.max, 1)]

\* predict: at least a day, and at least a day between the two.
Predict(event) ==
  LET raw == IF trained THEN TrainedModel[event.type] ELSE Stub(event)
      min == AtLeast(raw.min, 1)
  IN  [min |-> min, max |-> AtLeast(raw.max, min + 1)]

-----------------------------------------------------------------------------
(* One event and the order *)

Asia == {"CN", "HK", "TW", "JP", "KR", "VN", "TH", "MY", "SG", "ID", "PH"}
Europe == {"DE", "NL", "BE", "FR", "GB", "ES", "IT", "GR", "PL"}
America == {"US", "CA", "MX", "BR"}
MiddleEast == {"AE", "SA", "EG", "IL", "QA"}

SupplierUsesLane(country, lane) ==
  country \in CASE lane = "transpacific_east" -> Asia \cup America
                [] lane \in {"asia_europe_suez", "middle_east_corridor"} ->
                     Asia \cup Europe \cup MiddleEast
                [] lane \in {"transatlantic", "south_america_east"} -> Europe \cup America
                [] lane = "panama_corridor" -> America
                [] lane = "intra_asia" -> Asia
                [] lane = "australia_asia" -> {"AU", "NZ"} \cup Asia
                [] OTHER -> {}

\* One of the lanes near the place is one the supplier uses.
OnLane(at) == \E lane \in LanesAt[at] : SupplierUsesLane(order.country, lane)

\* An event without coordinates is passed over.
ContributionOf(a) ==
  LET event == stored[a]
      at == event.place.at
      days(n) == IF at = NoPlace.at THEN 0
                 ELSE Contribution(Km[at], order.mode, OnLane(at), n)
  IN  [min |-> days(event.min), max |-> days(event.max), severity |-> event.severity]

Contributions == [a \in DOMAIN stored |-> ContributionOf(a)]

-----------------------------------------------------------------------------

TypeOK ==
  /\ work.at \in {"idle", "asking", "judging", "locating", "storing"}
  /\ work.article \in Articles \cup {Missing} /\ work.tries \in 0..MaxTries
  /\ work.at \in {"asking", "judging", "locating", "storing"} <=> work # Idle
  /\ fate \in [Articles -> {"waiting", "dropped", "raised", "refused", "stored"}]
  /\ order \in Orders /\ trained \in BOOLEAN
  /\ DOMAIN stored = {a \in Articles : fate[a] = "stored"}
  /\ active \subseteq DOMAIN stored
  /\ row.status \in Statuses /\ row.min \in Nat /\ row.max \in Nat
  /\ row.matched \subseteq DOMAIN stored

Init ==
  /\ ExtractionInit
  /\ order \in Orders /\ trained = FALSE
  /\ stored = <<>> /\ active = {}
  /\ row = OnSchedule

\* The NLP runner's part.
Extract ==
  /\ \/ \E a \in Articles : Take(a)
     \/ AskFails \/ Judge \/ Locate \/ GeoNamesAnswers \/ GeoNamesFails
     \/ \E answer \in Answers : Asked(answer)
  /\ UNCHANGED <<order, trained, stored, active, row>>

\* Both regressors are there from now on: predict looks for them until it has them.
Trained ==
  /\ ~trained /\ trained' = TRUE
  /\ UNCHANGED <<work, fate, order, stored, active, row>>

Store ==
  /\ work.at = "storing" /\ Fits(work.event.place.country)
  /\ LET delays == Predict(work.event)
         event == [type |-> work.event.type, severity |-> work.event.severity,
                   place |-> work.event.place, min |-> delays.min, max |-> delays.max]
     IN  stored' = [a \in DOMAIN stored \cup {work.article} |->
                      IF a = work.article THEN event ELSE stored[a]]
  /\ active' = active \cup {work.article}
  /\ End("stored")
  /\ UNCHANGED <<order, trained, row>>

StoreRefused ==
  /\ work.at = "storing" /\ ~Fits(work.event.place.country)
  /\ End("refused")
  /\ UNCHANGED <<order, trained, stored, active, row>>

\* Its 300 seconds in the cache are over.
Expire(a) ==
  /\ a \in active /\ Cardinality(DOMAIN stored \ active) < MaxExpired
  /\ active' = active \ {a}
  /\ UNCHANGED <<work, fate, order, trained, stored, row>>

\* recompute_for_user_orders: only a new status or minimum is persisted.
Recompute ==
  /\ \E analysis \in AnalysesOf(Contributions, active) :
       row' = IF <<analysis.status, analysis.min>> # <<row.status, row.min>> THEN analysis
              ELSE row
  /\ UNCHANGED <<work, fate, order, trained, stored, active>>

Next ==
  \/ Extract \/ Trained \/ Store \/ StoreRefused \/ Recompute
  \/ \E a \in Articles : Expire(a)

Spec == Init /\ [][Next]_vars

\* The runners go on with what they have begun and take what waits.
FairSpec == Spec /\ WF_vars(Extract \/ Store \/ StoreRefused)

-----------------------------------------------------------------------------
(* The analysis page *)

\* The matched events come by their contributions: one of the largest first.
Largest(matched) ==
  {t \in matched : \A e \in matched : Contributions[e].min <= Contributions[t].min}

DaysOf(events) == [e \in events |-> Contributions[e].min]
Credits(events) == SumFunctionOnSet(DaysOf(events), events)
Halves(events) == SumFunctionOnSet(Halved(DaysOf(events)), events)

\* Faulty variant: the largest contribution is adjusted too.
OverlapAdjustmentAll(matched) == 0 - Halves(matched)

\* overlap_adjustment_days, worked out again from the impact rows.
OverlapAdjustment(matched) ==
  IF matched = {} THEN 0
  ELSE LET first == CHOOSE t \in Largest(matched) : TRUE IN 0 - Halves(matched \ {first})

-----------------------------------------------------------------------------
(* The suggestions, with the days each promises *)

Suggestion(action, days) == [action |-> action, days |-> days]

AirSwitch ==
  LET days == AtLeast(row.min - Rounded(row.min * 15, SHIPPING_MODE_FACTORS[order.mode]), 0)
  IN  {Suggestion("air", d) : d \in {n \in {days} : order.mode # "Air freight" /\ n >= 2}}

\* By the largest contribution, when it is less than 500 km away.
Reroute ==
  {Suggestion("reroute", Contributions[e].min \div 2) :
     e \in {t \in Largest(row.matched) : Km[stored[t].place.at] < 500}}

SafetyStock == {Suggestion("stock", 0) : d \in {n \in {row.min} : n >= 3}}

\* Faulty variant: a share of the maximum.
SplitShipmentOfMax ==
  {Suggestion("split", AtLeast((row.max * 4) \div 10, 1)) :
     q \in {n \in {order.qty} : n >= 500}}

SplitShipment ==
  {Suggestion("split", AtLeast((row.min * 4) \div 10, 1)) :
     q \in {n \in {order.qty} : n >= 500}}

\* The name of an event's source begins like the supplier's country.
ChangeSupplier ==
  {Suggestion("supplier", (row.min * 8) \div 10) :
     c \in {order.country} \cap UNION {SourceBegins[a] : a \in row.matched}}

Suggestions ==
  AirSwitch \cup Reroute \cup SafetyStock \cup SplitShipment \cup ChangeSupplier

-----------------------------------------------------------------------------
(* Properties *)

\* Neither the predicted days of an event nor the days of an order, rounded event by
\* event and halved for each but the largest, end with a minimum above the maximum, also
\* when the row keeps an older maximum.
RangeOrdered ==
  /\ row.min <= row.max
  /\ \A a \in DOMAIN stored : stored[a].min \in 1..(stored[a].max - 1)

\* Whatever events are added to some, and in whatever order SCAN gives equal contributions,
\* the minimum delay of an order does not fall, though another event may get the full
\* credit; and its status falls only where an event that is not critical goes above one
\* that is. (The maximum may fall: it has no part in who is on top.)
MoreEventsNoFewerDays ==
  \A fewer \in SUBSET active :
    \A a \in AnalysesOf(Contributions, fewer), b \in AnalysesOf(Contributions, active) :
      /\ a.min <= b.min
      /\ Rank[b.status] < Rank[a.status] =>
           \E c \in fewer, t \in active :
             /\ stored[c].severity = "critical" /\ stored[t].severity # "critical"
             /\ Contributions[c].min <= Contributions[t].min

\* What the analysis page shows, the contributions and their adjustment, adds up to the
\* order's delay but for the rounding of each half.
BreakdownAddsUp ==
  LET shown == Credits(row.matched) + OverlapAdjustment(row.matched)
      others == AtLeast(Cardinality(row.matched) - 1, 0)
  IN  row.min - shown \in (0 - others)..others

\* No suggestion promises more days than the order is late, but for the split shipment,
\* which promises a day at least.
SuggestionsModest ==
  \A s \in Suggestions : s.days <= row.min \/ (s.action = "split" /\ s.days = 1)

\* An event's country belongs to the coordinates it has: both are of the gazetteer, of
\* GeoNames or of the model.
CountryOfCoordinates ==
  \A a \in DOMAIN stored :
    LET place == stored[a].place
    IN  \/ place.at = NoPlace.at
        \/ \E l \in DOMAIN Gazetteer : Gazetteer[l] = place
        \/ \E l \in DOMAIN GeoNames : GeoNames[l] = place
        \/ \E answer \in Answers :
             answer.coords = place.at /\ Cut[CountryOf(answer)] = place.country

\* Only an event that could not be located is refused by the database.
LocatedIsStored ==
  work.at = "storing" /\ work.event.place.at # NoPlace.at => Fits(work.event.place.country)

\* Every article comes to an end, however the model and GeoNames answer or fail.
EveryArticleEnds == \A a \in Articles : fate[a] = "waiting" ~> fate[a] # "waiting"
=============================================================================
