------------------------- MODULE Assessment_proofs -------------------------
(***************************************************************************)
(* Proofs about Assessment, for any articles, answers of the model, places *)
(* and orders within the assumptions on the tables.                        *)
(***************************************************************************)
EXTENDS Assessment, DelayAnalysis_proofs

\* Where an event's country comes from.
OwnCountry(place) ==
  \/ \E l \in DOMAIN Gazetteer : Gazetteer[l] = place
  \/ \E l \in DOMAIN GeoNames : GeoNames[l] = place
  \/ \E answer \in Answers :
       answer.coords = place.at /\ Cut[CountryOf(answer)] = place.country

\* A place without coordinates, or one the tables know, with the country that belongs to it.
PlaceOK(place) ==
  \/ place.at = NoPlace.at
  \/ place.at \in DOMAIN Km /\ Fits(place.country) /\ OwnCountry(place)

EventOK(event) ==
  event.type \in EventTypes /\ event.severity \in ValidSeverities /\ PlaceOK(event.place)

\* What is at hand at each stage of an article.
WorkInv ==
  /\ DOMAIN work = {"at", "article", "tries", "answer", "event"}
  /\ work.at \in {"idle", "asking", "judging", "locating", "storing"}
  /\ work.article \in Articles \cup {Missing} /\ work.tries \in 0..MaxTries
  /\ work.at = "idle" => work = Idle
  /\ fate \in [Articles -> {"waiting", "dropped", "raised", "refused", "stored"}]
  /\ work.at # "idle" => work.article \in Articles /\ fate[work.article] = "waiting"
  /\ work.at = "judging" => work.answer \in Answers
  /\ work.at = "locating" => \E answer \in Answers : work.answer = Normalised(answer)
  /\ work.at = "locating" /\ work.tries > 0 => work.answer.location \in DOMAIN GeoNames
  /\ work.at = "storing" => EventOK(work.event)

\* What is stored, and when.
StoredInv ==
  /\ order \in Orders /\ trained \in BOOLEAN
  /\ IsFiniteSet(DOMAIN stored)
  /\ DOMAIN stored = {a \in Articles : fate[a] = "stored"}
  /\ active \subseteq DOMAIN stored
  /\ \A a \in DOMAIN stored :
       /\ EventOK(stored[a])
       /\ stored[a].min \in Nat /\ stored[a].max \in Nat
       /\ 1 <= stored[a].min /\ stored[a].min < stored[a].max

\* The row's minimum is still what follows from the events it names: neither they nor the
\* order ever change.
RowInv ==
  /\ row \in [status : Statuses, min : Nat, max : Nat, matched : SUBSET DOMAIN stored]
  /\ row.min <= row.max
  /\ \/ row.matched = {} /\ row.min = 0
     \/ \E t \in Largest(row.matched) :
          row.min = DaysOf(row.matched)[t]
                    + SumFunctionOnSet(Halved(DaysOf(row.matched)), row.matched \ {t})

AssessmentInv == WorkInv /\ StoredInv /\ RowInv

-----------------------------------------------------------------------------
(* The places an event can have *)

\* Normalising an answer leaves alone what it says of the place.
LEMMA NormalisedAnswer ==
  ASSUME NEW answer \in Answers
  PROVE  LET n == Normalised(answer)
         IN  /\ n.type \in EventTypes /\ n.severity \in ValidSeverities
             /\ n.coords = answer.coords /\ n.location = answer.location
             /\ n.country = answer.country
BY AnswersAssumption DEF Normalised, EventTypes, ValidSeverities

LEMMA NoPlaceOK == PlaceOK(NoPlace)
BY DEF PlaceOK

LEMMA GazetteerOK ==
  ASSUME NEW l \in DOMAIN Gazetteer
  PROVE  PlaceOK(Gazetteer[l])
BY PlacesAssumption DEF PlaceOK, OwnCountry

LEMMA GeoNamesOK ==
  ASSUME NEW l \in DOMAIN GeoNames
  PROVE  GeoNames[l] = Broken \/ PlaceOK(GeoNames[l])
BY PlacesAssumption, NoPlaceOK DEF PlaceOK, OwnCountry

LEMMA LlmPlaceOK ==
  ASSUME NEW answer \in Answers
  PROVE  LlmPlace(Normalised(answer)) = Broken \/ PlaceOK(LlmPlace(Normalised(answer)))
<1> DEFINE n == Normalised(answer)
<1>1. n.coords = answer.coords /\ CountryOf(n) = CountryOf(answer)
  BY NormalisedAnswer DEF CountryOf
<1> HIDE DEF n
<1>2. CASE ~Given(n.coords)
  <2>1. LlmPlace(n) = NoPlace
    BY <1>2 DEF LlmPlace, Given, Null, Missing, Junk
  <2> QED
    BY <2>1, NoPlaceOK DEF n
<1>3. CASE Given(n.coords) /\ n.coords = Junk
  BY <1>3 DEF LlmPlace, n
<1>4. CASE Given(n.coords) /\ n.coords # Junk
  <2> DEFINE place == Place(Named(n), n.coords, Cut[CountryOf(n)])
  <2>1. LlmPlace(n) = place
    BY <1>4 DEF LlmPlace
  <2>2. place.at = answer.coords /\ place.country = Cut[CountryOf(answer)]
    BY <1>1 DEF Place
  <2>3. answer.coords \in DOMAIN Km /\ CountryOf(answer) \in DOMAIN Cut
    BY <1>1, <1>4, PlacesAssumption
  <2> HIDE DEF place
  <2>4. PlaceOK(place)
    BY <2>2, <2>3 DEF PlaceOK, OwnCountry, Fits
  <2> QED
    BY <2>1, <2>4 DEF n
<1> QED
  BY <1>2, <1>3, <1>4

-----------------------------------------------------------------------------
(* The work on an article *)

LEMMA EndKeeps ==
  ASSUME WorkInv, work.at # "idle",
         NEW how \in {"dropped", "raised", "refused", "stored"}, End(how)
  PROVE  /\ WorkInv'
         /\ {a \in Articles : fate'[a] = "stored"}
              = {a \in Articles : fate[a] = "stored"} \cup
                (IF how = "stored" THEN {work.article} ELSE {})
<1>1. /\ work' = Idle /\ fate' = [fate EXCEPT ![work.article] = how]
      /\ work.article \in Articles /\ fate[work.article] = "waiting"
      /\ fate \in [Articles -> {"waiting", "dropped", "raised", "refused", "stored"}]
  BY DEF End, WorkInv
<1>2. fate' \in [Articles -> {"waiting", "dropped", "raised", "refused", "stored"}]
  BY <1>1
<1>3. WorkInv'
  BY <1>1, <1>2 DEF WorkInv, Idle, MaxTries
<1>4. \A a \in Articles : fate'[a] = IF a = work.article THEN how ELSE fate[a]
  BY <1>1
<1> QED
  BY <1>1, <1>3, <1>4

\* A step on to the next stage.
LEMMA GotoKeeps ==
  ASSUME WorkInv, NEW step, Goto(step),
         DOMAIN step = {"at", "article", "tries", "answer", "event"},
         step.at \in {"asking", "judging", "locating", "storing"},
         step.article \in Articles, fate[step.article] = "waiting", step.tries \in 0..MaxTries,
         step.at = "judging" => step.answer \in Answers,
         step.at = "locating" => \E answer \in Answers : step.answer = Normalised(answer),
         step.at = "locating" /\ step.tries > 0 => step.answer.location \in DOMAIN GeoNames,
         step.at = "storing" => EventOK(step.event)
  PROVE  WorkInv' /\ fate' = fate
<1>1. work' = step /\ fate' = fate
  BY DEF Goto
<1> QED
  BY <1>1 DEF WorkInv, EventOK

\* The place found, good or broken, ends the location.
LEMMA LocatedKeeps ==
  ASSUME WorkInv, work.at = "locating", NEW place, place = Broken \/ PlaceOK(place),
         Located(place)
  PROVE  WorkInv' /\ {a \in Articles : fate'[a] = "stored"} = {a \in Articles : fate[a] = "stored"}
<1>1. CASE End("raised")
  BY <1>1, EndKeeps
<1>2. CASE place # Broken /\ Goto([work EXCEPT !.at = "storing",
                                              !.event = EventOf(work.answer, place)])
  <2> DEFINE step == [work EXCEPT !.at = "storing", !.event = EventOf(work.answer, place)]
  <2>1. PICK answer \in Answers : work.answer = Normalised(answer)
    BY DEF WorkInv
  <2>2. EventOK(EventOf(work.answer, place))
    <3>1. work.answer.type \in EventTypes /\ work.answer.severity \in ValidSeverities
      BY <2>1, NormalisedAnswer
    <3>2. CASE place # NoPlace
      BY <1>2, <3>1, <3>2 DEF EventOf, EventOK
    <3>3. CASE place = NoPlace
      <4>1. Place(Named(work.answer), NoPlace.at, CountryOf(work.answer)).at = NoPlace.at
        BY DEF Place
      <4> QED
        BY <3>1, <3>3, <4>1 DEF EventOf, EventOK, PlaceOK
    <3> QED
      BY <3>2, <3>3
  <2>3. /\ DOMAIN step = {"at", "article", "tries", "answer", "event"}
        /\ step.at = "storing"
        /\ step.article = work.article
        /\ step.tries = work.tries
        /\ step.answer = work.answer
        /\ step.event = EventOf(work.answer, place)
    BY DEF WorkInv
  <2>4. Goto(step)
    BY <1>2
  <2>5. work.article \in Articles /\ fate[work.article] = "waiting" /\ work.tries \in 0..MaxTries
    BY DEF WorkInv
  <2> HIDE DEF step
  <2> QED
    BY <2>2, <2>3, <2>4, <2>5, GotoKeeps
<1> QED
  BY <1>1, <1>2 DEF Located

\* Every step of the NLP runner leaves an article with what its next stage needs, and
\* stores nothing.
LEMMA ExtractKeeps ==
  ASSUME WorkInv, Extract
  PROVE  WorkInv' /\ {a \in Articles : fate'[a] = "stored"} = {a \in Articles : fate[a] = "stored"}
<1> DEFINE Kept == WorkInv' /\ {a \in Articles : fate'[a] = "stored"}
                                 = {a \in Articles : fate[a] = "stored"}
<1>1. ASSUME NEW a \in Articles, Take(a) PROVE Kept
  <2> DEFINE step == [Idle EXCEPT !.at = "asking", !.article = a, !.tries = 1]
  <2>1. /\ DOMAIN step = {"at", "article", "tries", "answer", "event"}
        /\ step.at = "asking"
        /\ step.article = a
        /\ step.tries = 1
        /\ step.answer = Missing
        /\ step.event = NoEvent
    BY DEF Idle
  <2>2. Goto(step) /\ fate[a] = "waiting" /\ 1 \in 0..MaxTries
    BY <1>1 DEF Take, MaxTries
  <2> HIDE DEF step
  <2> QED
    BY <2>1, <2>2, GotoKeeps
<1>2. CASE AskFails
  <2>1. work.at = "asking"
    BY <1>2 DEF AskFails
  <2>2. CASE End("dropped")
    BY <2>1, <2>2, EndKeeps
  <2>3. CASE work.tries < MaxTries /\ Goto([work EXCEPT !.tries = @ + 1])
    <3> DEFINE step == [work EXCEPT !.tries = @ + 1]
    <3>1. /\ DOMAIN step = {"at", "article", "tries", "answer", "event"}
          /\ step.at = "asking"
          /\ step.article = work.article
          /\ step.tries = work.tries + 1
          /\ step.answer = work.answer
          /\ step.event = work.event
      BY <2>1 DEF WorkInv
    <3>2. /\ Goto(step) /\ work.tries + 1 \in 0..MaxTries
          /\ work.article \in Articles /\ fate[work.article] = "waiting"
      BY <2>1, <2>3 DEF WorkInv, MaxTries
    <3> HIDE DEF step
    <3> QED
      BY <3>1, <3>2, GotoKeeps
  <2> QED
    BY <1>2, <2>2, <2>3 DEF AskFails
<1>3. ASSUME NEW answer \in Answers, Asked(answer) PROVE Kept
  <2> DEFINE step == [work EXCEPT !.at = "judging", !.answer = answer]
  <2>1. /\ DOMAIN step = {"at", "article", "tries", "answer", "event"}
        /\ step.at = "judging"
        /\ step.article = work.article
        /\ step.tries = work.tries
        /\ step.answer = answer
        /\ step.event = work.event
    BY DEF WorkInv
  <2>2. /\ Goto(step) /\ work.tries \in 0..MaxTries
        /\ work.article \in Articles /\ fate[work.article] = "waiting"
    BY <1>3 DEF Asked, WorkInv
  <2> HIDE DEF step
  <2> QED
    BY <2>1, <2>2, GotoKeeps
<1>4. CASE Judge
  <2>1. work.at = "judging" /\ work.answer \in Answers
    BY <1>4 DEF Judge, WorkInv
  <2>2. CASE End("raised") \/ End("dropped")
    BY <2>1, <2>2, EndKeeps
  <2>3. CASE Goto([work EXCEPT !.at = "locating", !.answer = Normalised(work.answer),
                               !.tries = 0])
    <3> DEFINE step == [work EXCEPT !.at = "locating", !.answer = Normalised(work.answer),
                                    !.tries = 0]
    <3>1. /\ DOMAIN step = {"at", "article", "tries", "answer", "event"}
          /\ step.at = "locating"
          /\ step.article = work.article
          /\ step.tries = 0
          /\ step.answer = Normalised(work.answer)
          /\ step.event = work.event
      BY DEF WorkInv
    <3>2. /\ Goto(step) /\ 0 \in 0..MaxTries
          /\ work.article \in Articles /\ fate[work.article] = "waiting"
      BY <2>1, <2>3 DEF WorkInv, MaxTries
    <3> HIDE DEF step
    <3> QED
      BY <2>1, <3>1, <3>2, GotoKeeps
  <2> QED
    BY <1>4, <2>2, <2>3 DEF Judge
<1>5. ASSUME work.at = "locating", NEW tries \in 0..MaxTries,
             work.answer.location \in DOMAIN GeoNames, Goto([work EXCEPT !.tries = tries])
      PROVE  Kept
  <2> DEFINE step == [work EXCEPT !.tries = tries]
  <2>1. /\ DOMAIN step = {"at", "article", "tries", "answer", "event"}
        /\ step.at = "locating"
        /\ step.article = work.article
        /\ step.tries = tries
        /\ step.answer = work.answer
        /\ step.event = work.event
    BY <1>5 DEF WorkInv
  <2>2. /\ Goto(step) /\ \E answer \in Answers : work.answer = Normalised(answer)
        /\ work.article \in Articles /\ fate[work.article] = "waiting"
    BY <1>5 DEF WorkInv
  <2> HIDE DEF step
  <2> QED
    BY <1>5, <2>1, <2>2, GotoKeeps
<1>6. ASSUME work.at = "locating", Located(LlmPlace(work.answer))
      PROVE  Kept
  <2>1. LlmPlace(work.answer) = Broken \/ PlaceOK(LlmPlace(work.answer))
    BY <1>6, LlmPlaceOK DEF WorkInv
  <2> QED
    BY <1>6, <2>1, LocatedKeeps
<1>7. CASE Locate
  <2>1. work.at = "locating"
    BY <1>7 DEF Locate
  <2>2. CASE End("raised")
    BY <2>1, <2>2, EndKeeps
  <2>3. CASE InGazetteer(work.answer.location) /\ Located(Gazetteer[work.answer.location])
    BY <2>1, <2>3, GazetteerOK, LocatedKeeps DEF InGazetteer
  <2>4. CASE /\ Given(work.answer.location) /\ work.answer.location # Junk
             /\ ~InGazetteer(work.answer.location) /\ Goto([work EXCEPT !.tries = 1])
    <3>1. PICK answer \in Answers : work.answer = Normalised(answer)
      BY <2>1 DEF WorkInv
    <3>2. work.answer.location = answer.location
      BY <3>1, NormalisedAnswer
    <3>3. work.answer.location \in DOMAIN GeoNames
      BY <2>4, <3>2, AnswersAssumption DEF Given, InGazetteer
    <3> QED
      BY <1>5, <2>1, <2>4, <3>3 DEF MaxTries
  <2>5. \/ Located(LlmPlace(work.answer)) \/ End("raised")
        \/ InGazetteer(work.answer.location) /\ Located(Gazetteer[work.answer.location])
        \/ /\ Given(work.answer.location) /\ work.answer.location # Junk
           /\ ~InGazetteer(work.answer.location) /\ Goto([work EXCEPT !.tries = 1])
    BY <1>7 DEF Locate
  <2> QED
    BY <1>6, <2>1, <2>2, <2>3, <2>4, <2>5
<1>8. CASE GeoNamesFails
  <2>1. work.at = "locating" /\ work.answer.location \in DOMAIN GeoNames
    BY <1>8 DEF GeoNamesFails, WorkInv
  <2> QED
    BY <1>5, <1>6, <1>8, <2>1 DEF GeoNamesFails, MaxTries
<1>9. CASE GeoNamesAnswers
  <2>1. work.at = "locating" /\ work.answer.location \in DOMAIN GeoNames
    BY <1>9 DEF GeoNamesAnswers, WorkInv
  <2>2. \/ Located(LlmPlace(work.answer))
        \/ Located(GeoNames[work.answer.location])
    BY <1>9 DEF GeoNamesAnswers
  <2>3. CASE Located(GeoNames[work.answer.location])
    BY <1>9, <2>1, <2>3, GeoNamesOK, LocatedKeeps
  <2> QED
    BY <1>6, <2>1, <2>2, <2>3
<1> QED
  BY <1>1, <1>2, <1>3, <1>4, <1>7, <1>8, <1>9 DEF Extract

-----------------------------------------------------------------------------
(* The predicted delays *)

\* The formula gives a number of days, whatever the tables rank.
LEMMA StubIsNat ==
  ASSUME NEW event, event.type \in EventTypes, event.severity \in ValidSeverities
  PROVE  Stub(event).min \in Nat /\ Stub(event).max \in Nat
<1> DEFINE days == HistoricalDays(event.type)
           severity == SeverityNum[event.severity]
           base == days * severity
           rank == Lookup(PortRank, event.place.name, 50)
           risk == Lookup(CountryRisk, event.place.country, 5)
           rankFactor == AtLeast(101 - rank, 40)
           low == base * 4 * rankFactor
           high == base * 9 * rankFactor + risk * 600
<1>1. days \in Nat
  BY DEF HistoricalDays, EventTypes
<1>2. severity \in Nat
  BY DEF SeverityNum, ValidSeverities
<1>3. rank \in Nat /\ risk \in Nat
  BY TablesAssumption DEF Lookup
<1>4. Stub(event).min = Rounded(low, 1000) /\ Stub(event).max = Rounded(high, 1000)
  BY DEF Stub
<1> HIDE DEF days, severity, rank, risk
<1>5. base \in Nat
  BY <1>1, <1>2, Products
<1>6. rankFactor \in Nat
  BY <1>3 DEF AtLeast
<1> HIDE DEF base, rankFactor
<1>7. base * 4 \in Nat /\ base * 9 \in Nat /\ risk * 600 \in Nat
  BY <1>3, <1>5
<1>8. base * 4 * rankFactor \in Nat /\ base * 9 * rankFactor \in Nat
  BY <1>6, <1>7, Products
<1>9. low \in Nat /\ high \in Nat
  BY <1>7, <1>8
<1> HIDE DEF low, high
<1> QED
  BY <1>4, <1>9, RoundedIsNat

\* Models or formula: at least a day, and the maximum above the minimum.
LEMMA PredictOrdered ==
  ASSUME NEW event, event.type \in EventTypes, event.severity \in ValidSeverities
  PROVE  /\ Predict(event).min \in Nat /\ Predict(event).max \in Nat
         /\ 1 <= Predict(event).min /\ Predict(event).min < Predict(event).max
<1> DEFINE raw == IF trained THEN TrainedModel[event.type] ELSE Stub(event)
           min == AtLeast(raw.min, 1)
           max == AtLeast(raw.max, min + 1)
<1>1. raw.min \in Int /\ raw.max \in Int
  BY TablesAssumption, StubIsNat
<1>2. Predict(event).min = min /\ Predict(event).max = max
  BY DEF Predict
<1> HIDE DEF raw
<1>3. min \in Int /\ min >= 1
  BY <1>1 DEF AtLeast
<1>4. max \in Int /\ max >= min + 1
  <2> HIDE DEF min
  <2> QED
    BY <1>1, <1>3 DEF AtLeast
<1> HIDE DEF min, max
<1> QED
  BY <1>2, <1>3, <1>4

\* What each event contributes to the order: whole days, the minimum within the maximum.
LEMMA ContributionsOrdered ==
  ASSUME StoredInv
  PROVE  DaysInOrder(Contributions, DOMAIN stored)
<1> SUFFICES ASSUME NEW a \in DOMAIN stored
             PROVE  /\ Contributions[a].min \in Nat /\ Contributions[a].max \in Nat
                    /\ Contributions[a].min <= Contributions[a].max
  BY DEF DaysInOrder
<1> DEFINE at == stored[a].place.at
           days(n) == IF at = NoPlace.at THEN 0
                      ELSE Contribution(Km[at], order.mode, OnLane(at), n)
<1>1. /\ Contributions[a].min = days(stored[a].min)
      /\ Contributions[a].max = days(stored[a].max)
  BY DEF Contributions, ContributionOf
<1>2. /\ stored[a].min \in Nat /\ stored[a].max \in Nat /\ stored[a].min <= stored[a].max
  BY DEF StoredInv
<1>3. CASE at = NoPlace.at
  BY <1>1, <1>2, <1>3
<1>4. CASE at # NoPlace.at
  <2>1. Km[at] \in Nat
    BY <1>4, TablesAssumption DEF StoredInv, EventOK, PlaceOK
  <2>2. order.mode \in DOMAIN SHIPPING_MODE_FACTORS
    BY TablesAssumption DEF StoredInv
  <2>3. OnLane(at) \in BOOLEAN
    BY DEF OnLane
  <2> DEFINE lane == OnLane(at)
  <2>4. /\ Contributions[a].min = Contribution(Km[at], order.mode, lane, stored[a].min)
        /\ Contributions[a].max = Contribution(Km[at], order.mode, lane, stored[a].max)
    BY <1>1, <1>4
  <2>5. lane \in BOOLEAN
    BY <2>3
  <2> HIDE DEF lane, at
  <2> QED
    BY <1>1, <1>2, <2>1, <2>2, <2>4, <2>5, ContributionGrows
<1> QED
  BY <1>3, <1>4

-----------------------------------------------------------------------------
(* The invariant *)

LEMMA InitInv ==
  ASSUME Init
  PROVE  AssessmentInv
<1>1. WorkInv
  BY DEF Init, ExtractionInit, WorkInv, Idle, MaxTries
<1>2. DOMAIN stored = {} /\ active = {} /\ row = OnSchedule
  BY DEF Init
<1>3. StoredInv
  <2>1. IsFiniteSet(DOMAIN stored)
    BY <1>2, FS_EmptySet
  <2>2. {a \in Articles : fate[a] = "stored"} = {}
    BY DEF Init, ExtractionInit
  <2> QED
    BY <1>2, <2>1, <2>2 DEF Init, StoredInv
<1>4. RowInv
  BY <1>2 DEF RowInv, OnSchedule, Statuses
<1> QED
  BY <1>1, <1>3, <1>4 DEF AssessmentInv

\* What the order knows of the events it has seen stays as it was.
LEMMA RowStays ==
  ASSUME RowInv, row' = row, DOMAIN stored \subseteq DOMAIN stored',
         order' = order, \A a \in DOMAIN stored : stored'[a] = stored[a]
  PROVE  RowInv'
<1>1. row.matched \subseteq DOMAIN stored
  BY DEF RowInv
<1>2. \A a \in DOMAIN stored : Contributions'[a] = Contributions[a]
  BY DEF Contributions, ContributionOf, OnLane
<1>3. /\ Largest(row.matched)' = Largest(row.matched)
      /\ DaysOf(row.matched)' = DaysOf(row.matched)
  BY <1>1, <1>2 DEF Largest, DaysOf
<1> DEFINE days == DaysOf(row.matched)
<1>4. \/ row.matched = {} /\ row.min = 0
      \/ \E t \in Largest(row.matched) :
           row.min = days[t] + SumFunctionOnSet(Halved(days), row.matched \ {t})
  BY DEF RowInv
<1>5. row \in [status : Statuses, min : Nat, max : Nat, matched : SUBSET DOMAIN stored]'
  BY DEF RowInv
<1> HIDE DEF days
<1>6. days' = days
  BY <1>3 DEF days
<1>7. \/ row'.matched = {} /\ row'.min = 0
      \/ \E t \in Largest(row.matched)' :
           row'.min = days'[t] + SumFunctionOnSet(Halved(days'), row'.matched \ {t})
  BY <1>3, <1>4, <1>6
<1> QED
  BY <1>5, <1>7 DEF RowInv, days

\* A recomputation puts a row there that follows from the events in the cache.
LEMMA AnalysisFitsRow ==
  ASSUME StoredInv, NEW analysis \in AnalysesOf(Contributions, active), row' = analysis,
         UNCHANGED <<stored, order>>
  PROVE  RowInv'
<1>1. IsFiniteSet(active) /\ DaysInOrder(Contributions, active)
  BY ContributionsOrdered, FS_Subset DEF StoredInv, DaysInOrder
<1> DEFINE matched == Matched(Contributions, active)
           days == MinDays(Contributions, matched)
<1>2. /\ analysis \in [status : Statuses, min : Nat, max : Nat, matched : SUBSET active]
      /\ analysis.min <= analysis.max /\ analysis.matched = matched
  BY <1>1, AnalysesFit
<1>3. \/ matched = {} /\ analysis.min = 0
      \/ \E t \in Tops(Contributions, matched) :
           analysis.min = days[t] + SumFunctionOnSet(Halved(days), matched \ {t})
  BY <1>1, NoMatchNoDays, MinOfAnalysis
<1>4. Contributions' = Contributions
  BY DEF Contributions, ContributionOf, OnLane
<1>5. DaysOf(row.matched)' = days /\ Largest(row.matched)' = Tops(Contributions, matched)
  BY <1>2, <1>4 DEF DaysOf, MinDays, Largest, Tops
<1> DEFINE shown == DaysOf(row.matched)
<1>6. shown' = days /\ row'.matched = matched
  BY <1>2, <1>5
<1>7. \/ row'.matched = {} /\ row'.min = 0
      \/ \E t \in Largest(row.matched)' :
           row'.min = shown'[t] + SumFunctionOnSet(Halved(shown'), row'.matched \ {t})
  <2> HIDE DEF days, shown, matched
  <2> QED
    BY <1>3, <1>5, <1>6
<1>8. /\ row' \in [status : Statuses, min : Nat, max : Nat, matched : SUBSET DOMAIN stored]
      /\ row'.min <= row'.max
  BY <1>2 DEF StoredInv
<1> HIDE DEF days, matched
<1> QED
  BY <1>7, <1>8 DEF RowInv

\* An event stored has its delays, and the order's row does not change for it.
LEMMA StoreKeeps ==
  ASSUME AssessmentInv, Store
  PROVE  AssessmentInv'
<1> DEFINE delays == Predict(work.event)
           event == [type |-> work.event.type, severity |-> work.event.severity,
                     place |-> work.event.place, min |-> delays.min, max |-> delays.max]
<1>1. /\ work.at = "storing" /\ EventOK(work.event) /\ work.article \in Articles
      /\ fate[work.article] = "waiting" /\ WorkInv /\ StoredInv /\ RowInv
  BY DEF Store, AssessmentInv, WorkInv
<1>2. /\ stored' = [a \in DOMAIN stored \cup {work.article} |->
                      IF a = work.article THEN event ELSE stored[a]]
      /\ active' = active \cup {work.article} /\ End("stored")
      /\ UNCHANGED <<order, trained, row>>
  BY DEF Store
<1>3. /\ WorkInv'
      /\ {a \in Articles : fate'[a] = "stored"}
           = {a \in Articles : fate[a] = "stored"} \cup {work.article}
  BY <1>1, <1>2, EndKeeps
<1>4. /\ EventOK(event) /\ event.min \in Nat /\ event.max \in Nat
      /\ 1 <= event.min /\ event.min < event.max
  <2>1. EventOK(event)
    BY <1>1 DEF EventOK
  <2>2. /\ delays.min \in Nat /\ delays.max \in Nat
        /\ 1 <= delays.min /\ delays.min < delays.max
    BY <1>1, PredictOrdered DEF EventOK
  <2> HIDE DEF delays
  <2> QED
    BY <2>1, <2>2
<1>5. DOMAIN stored' = DOMAIN stored \cup {work.article} /\ work.article \notin DOMAIN stored
  BY <1>1, <1>2 DEF StoredInv
<1>6. \A a \in DOMAIN stored : stored'[a] = stored[a]
  BY <1>2, <1>5
<1>7. stored'[work.article] = event
  BY <1>2
<1> HIDE DEF event, delays
<1>8. StoredInv'
  <2>1. IsFiniteSet(DOMAIN stored')
    BY <1>1, <1>5, FS_AddElement DEF StoredInv
  <2>2. \A a \in DOMAIN stored' :
          /\ EventOK(stored'[a])
          /\ stored'[a].min \in Nat /\ stored'[a].max \in Nat
          /\ 1 <= stored'[a].min /\ stored'[a].min < stored'[a].max
    <3> SUFFICES ASSUME NEW a \in DOMAIN stored'
                 PROVE  /\ EventOK(stored'[a])
                        /\ stored'[a].min \in Nat /\ stored'[a].max \in Nat
                        /\ 1 <= stored'[a].min /\ stored'[a].min < stored'[a].max
      OBVIOUS
    <3>1. CASE a = work.article
      BY <1>4, <1>7, <3>1
    <3>2. CASE a # work.article
      BY <1>1, <1>5, <1>6, <3>2 DEF StoredInv
    <3> QED
      BY <3>1, <3>2
  <2> QED
    BY <1>1, <1>2, <1>3, <1>5, <2>1, <2>2
       DEF StoredInv, EventOK, PlaceOK, OwnCountry, Fits
<1>9. RowInv'
  BY <1>1, <1>2, <1>5, <1>6, RowStays
<1> QED
  BY <1>3, <1>8, <1>9 DEF AssessmentInv

\* Every step keeps the invariant.
LEMMA StepKeeps ==
  ASSUME AssessmentInv, [Next]_vars
  PROVE  AssessmentInv'
<1> USE DEF AssessmentInv
<1>1. ASSUME WorkInv', {a \in Articles : fate'[a] = "stored"} = {a \in Articles : fate[a] = "stored"},
             UNCHANGED <<order, trained, stored, active, row>>
      PROVE  AssessmentInv'
  <2>1. StoredInv'
    BY <1>1 DEF StoredInv, EventOK, PlaceOK, OwnCountry, Fits
  <2>2. RowInv'
    BY <1>1, RowStays
  <2> QED
    BY <1>1, <2>1, <2>2
<1>2. CASE Extract
  <2>1. UNCHANGED <<order, trained, stored, active, row>>
    BY <1>2 DEF Extract
  <2> QED
    BY <1>1, <1>2, <2>1, ExtractKeeps
<1>3. CASE Trained
  <2>1. UNCHANGED <<work, fate, order, stored, active, row>> /\ trained' \in BOOLEAN
    BY <1>3 DEF Trained
  <2>2. WorkInv'
    BY <2>1 DEF WorkInv, EventOK, PlaceOK, OwnCountry, Fits
  <2>3. StoredInv'
    BY <2>1 DEF StoredInv, EventOK, PlaceOK, OwnCountry, Fits
  <2>4. RowInv'
    BY <2>1, RowStays
  <2> QED
    BY <2>2, <2>3, <2>4
<1>4. CASE StoreRefused
  <2>1. UNCHANGED <<order, trained, stored, active, row>> /\ work.at # "idle" /\ End("refused")
    BY <1>4 DEF StoreRefused
  <2> QED
    BY <1>1, <2>1, EndKeeps
<1>5. CASE Store
  BY <1>5, StoreKeeps
<1>6. CASE Recompute
  <2>1. UNCHANGED <<work, fate, order, trained, stored, active>>
    BY <1>6 DEF Recompute
  <2>2. WorkInv'
    BY <2>1 DEF WorkInv, EventOK, PlaceOK, OwnCountry, Fits
  <2>3. StoredInv'
    BY <2>1 DEF StoredInv, EventOK, PlaceOK, OwnCountry, Fits
  <2>4. CASE row' = row
    BY <2>1, <2>2, <2>3, <2>4, RowStays
  <2>5. CASE row' # row
    <3>1. PICK analysis \in AnalysesOf(Contributions, active) : row' = analysis
      BY <1>6, <2>5 DEF Recompute
    <3>2. RowInv'
      BY <2>1, <3>1, AnalysisFitsRow
    <3> QED
      BY <2>2, <2>3, <3>2
  <2> QED
    BY <2>4, <2>5
<1>7. ASSUME NEW a \in Articles, Expire(a) PROVE AssessmentInv'
  <2>1. UNCHANGED <<work, fate, order, trained, stored, row>> /\ active' \subseteq active
    BY <1>7 DEF Expire
  <2>2. WorkInv'
    BY <2>1 DEF WorkInv, EventOK, PlaceOK, OwnCountry, Fits
  <2>3. StoredInv'
    BY <2>1 DEF StoredInv, EventOK, PlaceOK, OwnCountry, Fits
  <2>4. RowInv'
    BY <2>1, RowStays
  <2> QED
    BY <2>2, <2>3, <2>4
<1>8. CASE UNCHANGED vars
  <2>1. UNCHANGED <<work, fate, order, trained, stored, active, row>>
    BY <1>8 DEF vars
  <2>2. WorkInv'
    BY <2>1 DEF WorkInv, EventOK, PlaceOK, OwnCountry, Fits
  <2> QED
    BY <1>1, <2>1, <2>2
<1> QED
  BY <1>2, <1>3, <1>4, <1>5, <1>6, <1>7, <1>8 DEF Next

\* The inductive invariant holds in every behaviour: an article at hand has what its next
\* stage needs (process_one), an event stored has a place that is known and delays in order
\* (predict), and the row follows from the events it names (analyse_order).
THEOREM AssessmentInvariant == Spec => []AssessmentInv
<1>1. Init => AssessmentInv
  BY InitInv
<1>2. AssessmentInv /\ [Next]_vars => AssessmentInv'
  BY StepKeeps
<1> QED
  BY <1>1, <1>2, PTL DEF Spec

-----------------------------------------------------------------------------
(* What follows from it *)

\* Every variable has its type: events are stored for the articles that got so far, and
\* the row names stored events only.
THEOREM AssessmentTypes == Spec => []TypeOK
<1>1. AssessmentInv => TypeOK
  BY DEF AssessmentInv, WorkInv, StoredInv, RowInv, TypeOK, Idle
<1> QED
  BY <1>1, AssessmentInvariant, PTL

\* Neither predict nor analyse_order ends with a minimum above the maximum.
THEOREM RangesOrdered == Spec => []RangeOrdered
<1>1. AssessmentInv => RangeOrdered
  <2> SUFFICES ASSUME AssessmentInv PROVE RangeOrdered
    OBVIOUS
  <2>1. row.min <= row.max
    BY DEF AssessmentInv, RowInv
  <2>2. ASSUME NEW a \in DOMAIN stored
        PROVE  stored[a].min \in 1..(stored[a].max - 1)
    <3>1. /\ stored[a].min \in Nat /\ stored[a].max \in Nat
          /\ 1 <= stored[a].min /\ stored[a].min < stored[a].max
      BY DEF AssessmentInv, StoredInv
    <3> QED
      BY <3>1
  <2> QED
    BY <2>1, <2>2 DEF RangeOrdered
<1> QED
  BY <1>1, AssessmentInvariant, PTL

\* The country of a stored event belongs to the coordinates it has (resolve).
THEOREM CountriesOfCoordinates == Spec => []CountryOfCoordinates
<1>1. AssessmentInv => CountryOfCoordinates
  BY DEF AssessmentInv, StoredInv, EventOK, PlaceOK, OwnCountry, CountryOfCoordinates
<1> QED
  BY <1>1, AssessmentInvariant, PTL

\* What has coordinates has a country that fits the column: the database refuses only
\* events that could not be located.
THEOREM LocatedAreStored == Spec => []LocatedIsStored
<1>1. AssessmentInv => LocatedIsStored
  BY DEF AssessmentInv, WorkInv, EventOK, PlaceOK, LocatedIsStored
<1> QED
  BY <1>1, AssessmentInvariant, PTL

\* Whatever the events in the cache contribute, and whichever of them SCAN returns first,
\* adding some never brings the minimum delay of the order down, and its status only from a
\* critical event to one that is not and contributes as much (analyse_order).
THEOREM MoreEventsNeverFewerDays == Spec => []MoreEventsNoFewerDays
<1>1. ASSUME AssessmentInv PROVE MoreEventsNoFewerDays
  <2> SUFFICES ASSUME NEW fewer \in SUBSET active,
                      NEW a \in AnalysesOf(Contributions, fewer),
                      NEW b \in AnalysesOf(Contributions, active)
               PROVE  /\ a.min <= b.min
                      /\ Rank[b.status] < Rank[a.status] =>
                           \E c \in fewer, t \in active :
                             /\ stored[c].severity = "critical"
                             /\ stored[t].severity # "critical"
                             /\ Contributions[c].min <= Contributions[t].min
    BY DEF MoreEventsNoFewerDays
  <2>1. IsFiniteSet(active) /\ active \subseteq DOMAIN stored
    BY <1>1, FS_Subset DEF AssessmentInv, StoredInv
  <2>2. DaysInOrder(Contributions, active)
    BY <1>1, <2>1, ContributionsOrdered DEF AssessmentInv, DaysInOrder
  <2>3. \A x \in active : Contributions[x].severity = stored[x].severity
    BY <2>1 DEF Contributions, ContributionOf
  <2> QED
    BY <2>1, <2>2, <2>3, MoreEventsAddUp
<1> QED
  BY <1>1, AssessmentInvariant, PTL

\* The largest contributions are all the same, and within the order's delay.
LEMMA LargestWithinRow ==
  ASSUME AssessmentInv, row.matched # {}
  PROVE  LET days == DaysOf(row.matched)
         IN  /\ IsFiniteSet(row.matched) /\ row.matched = DOMAIN days
             /\ \A e \in row.matched : days[e] \in Nat /\ days[e] = Contributions[e].min
             /\ \E t \in Largest(row.matched) :
                  /\ row.min = days[t] + SumFunctionOnSet(Halved(days), row.matched \ {t})
                  /\ SumFunctionOnSet(Halved(days), row.matched \ {t}) \in Nat
                  /\ \A u \in Largest(row.matched) : days[u] = days[t]
<1> DEFINE days == DaysOf(row.matched)
<1>1. row.matched \subseteq DOMAIN stored /\ IsFiniteSet(row.matched)
  BY FS_Subset DEF AssessmentInv, StoredInv, RowInv
<1>2. \A e \in row.matched : days[e] \in Nat /\ days[e] = Contributions[e].min
  BY <1>1, ContributionsOrdered DEF AssessmentInv, DaysInOrder, DaysOf
<1>3. row.matched = DOMAIN days
  BY DEF DaysOf
<1>4. PICK t \in Largest(row.matched) :
        row.min = days[t] + SumFunctionOnSet(Halved(days), row.matched \ {t})
  BY DEF AssessmentInv, RowInv
<1>5. t \in row.matched
  BY DEF Largest
<1>6. \A u \in Largest(row.matched) : days[u] = days[t]
  <2> SUFFICES ASSUME NEW u \in Largest(row.matched) PROVE days[u] = days[t]
    OBVIOUS
  <2>1. /\ u \in row.matched /\ Contributions[t].min <= Contributions[u].min
        /\ Contributions[u].min <= Contributions[t].min
    BY <1>5 DEF Largest
  <2> HIDE DEF days
  <2> QED
    BY <1>2, <1>5, <2>1
<1> HIDE DEF days
<1>7. SumFunctionOnSet(Halved(days), row.matched \ {t}) \in Nat
  BY <1>1, <1>2, <1>3, <1>5, HalvesTakeOut
<1> QED
  BY <1>1, <1>2, <1>3, <1>4, <1>6, <1>7 DEF days

\* The contributions and the adjustment of the analysis page (order_analysis) miss the
\* order's delay by less than a day for each of the events that are halved.
THEOREM BreakdownsAddUp == Spec => []BreakdownAddsUp
<1>1. ASSUME AssessmentInv PROVE BreakdownAddsUp
  <2> DEFINE S == row.matched
             days == DaysOf(S)
             others == AtLeast(Cardinality(S) - 1, 0)
             shown == Credits(S) + OverlapAdjustment(S)
  <2>1. CASE S = {}
    <3>1. row.min = 0
      BY <1>1, <2>1 DEF AssessmentInv, RowInv, Largest
    <3>2. Credits(S) = 0 /\ OverlapAdjustment(S) = 0
      BY <2>1, SumOfNone DEF Credits, OverlapAdjustment
    <3>3. others = 0
      BY <2>1, FS_EmptySet DEF AtLeast
    <3> HIDE DEF others, S
    <3>4. row.min - shown \in (0 - others)..others
      BY <3>1, <3>2, <3>3
    <3> QED
      BY <3>4 DEF BreakdownAddsUp, others, S
  <2>2. CASE S # {}
    <3>1. PICK t \in Largest(S) :
            /\ row.min = days[t] + SumFunctionOnSet(Halved(days), S \ {t})
            /\ \A u \in Largest(S) : days[u] = days[t]
      BY <1>1, <2>2, LargestWithinRow
    <3>2. /\ IsFiniteSet(S) /\ S = DOMAIN days /\ \A e \in S : days[e] \in Nat
      BY <1>1, <2>2, LargestWithinRow
    <3>3. PICK u \in Largest(S) : OverlapAdjustment(S) = 0 - Halves(S \ {u})
      BY <2>2, <3>1 DEF OverlapAdjustment
    <3>4. t \in S /\ u \in S /\ days[t] = days[u]
      BY <3>1 DEF Largest
    <3>5. Halves(S \ {u}) = SumFunctionOnSet(Halved(days), S \ {u})
      <4> DEFINE rest == S \ {u}
                 fewer == DaysOf(rest)
      <4>1. IsFiniteSet(rest)
        BY <3>2, FS_Subset
      <4>2. DOMAIN fewer = rest /\ \A e \in rest : fewer[e] = days[e] /\ days[e] \in Nat
        BY <3>2 DEF DaysOf
      <4>3. Halves(rest) = SumFunctionOnSet(Halved(fewer), rest)
        BY DEF Halves
      <4> HIDE DEF S, days, fewer
      <4>4. \A e \in rest : Halved(fewer)[e] \in Int /\ Halved(fewer)[e] = Halved(days)[e]
        BY <3>2, <4>2, HalfNear DEF Halved
      <4> HIDE DEF rest
      <4>5. SumFunctionOnSet(Halved(fewer), rest) = SumFunctionOnSet(Halved(days), rest)
        BY <4>1, <4>4, SumOfSame
      <4> QED
        BY <4>3, <4>5 DEF rest
    <3>6. Credits(S) = SumFunctionOnSet(days, S)
      BY DEF Credits
    <3> DEFINE whole == SumFunctionOnSet(days, S)
               halves == SumFunctionOnSet(Halved(days), S \ {u})
    <3> HIDE DEF S, days
    <3>7. /\ Cardinality(S) \in Nat /\ Cardinality(S) >= 1 /\ row.min \in Nat
          /\ whole - halves \in Int
          /\ 0 - (Cardinality(S) - 1) <= row.min - (whole - halves)
          /\ row.min - (whole - halves) <= Cardinality(S) - 1
      BY <3>1, <3>2, <3>4, ShownNear
    <3>8. whole \in Int /\ halves \in Int
      <4>1. whole \in Int
        BY <3>2, SumIsInt
      <4>2. halves \in Nat
        BY <3>2, <3>4, HalvesTakeOut
      <4> QED
        BY <4>1, <4>2
    <3>9. shown = whole - halves
      <4> HIDE DEF whole, halves
      <4>1. Credits(S) = whole /\ OverlapAdjustment(S) = 0 - halves
        BY <3>3, <3>5, <3>6 DEF whole, halves
      <4> QED
        BY <3>8, <4>1
    <3>10. others = Cardinality(S) - 1
      BY <3>7 DEF AtLeast
    <3> HIDE DEF whole, halves, shown, others
    <3>11. row.min - shown \in (0 - others)..others
      BY <3>7, <3>8, <3>9, <3>10
    <3> QED
      BY <3>11 DEF BreakdownAddsUp, shown, others, S
  <2> QED
    BY <2>1, <2>2
<1> QED
  BY <1>1, AssessmentInvariant, PTL

\* No suggestion (mitigations.py) promises more days than the order is late, but for the
\* split shipment, which promises at least one.
THEOREM SuggestionsAreModest == Spec => []SuggestionsModest
<1>1. ASSUME AssessmentInv PROVE SuggestionsModest
  <2> SUFFICES ASSUME NEW s \in Suggestions
               PROVE  s.days <= row.min \/ (s.action = "split" /\ s.days = 1)
    BY DEF SuggestionsModest
  <2>1. row.min \in Nat /\ row.max \in Nat
    BY <1>1 DEF AssessmentInv, RowInv
  <2>2. CASE s \in AirSwitch
    <3> DEFINE left == Rounded(row.min * 15, SHIPPING_MODE_FACTORS[order.mode])
    <3>1. order.mode \in DOMAIN SHIPPING_MODE_FACTORS
      BY <1>1, TablesAssumption DEF AssessmentInv, StoredInv
    <3>2. left \in Nat
      BY <2>1, <3>1, ByAir
    <3>3. s.days = AtLeast(row.min - left, 0)
      <4>1. PICK d \in {n \in {AtLeast(row.min - left, 0)} :
                          order.mode # "Air freight" /\ n >= 2} : s = Suggestion("air", d)
        BY <2>2 DEF AirSwitch
      <4> HIDE DEF left
      <4> QED
        BY <4>1 DEF Suggestion
    <3> HIDE DEF left
    <3> QED
      BY <2>1, <3>2, <3>3 DEF AtLeast
  <2>3. CASE s \in Reroute
    <3>1. PICK e \in Largest(row.matched) : s.days = Contributions[e].min \div 2
      BY <2>3 DEF Reroute, Suggestion
    <3>2. e \in row.matched
      BY DEF Largest
    <3> DEFINE days == DaysOf(row.matched)
    <3>3. PICK t \in Largest(row.matched) :
            /\ row.min = days[t] + SumFunctionOnSet(Halved(days), row.matched \ {t})
            /\ SumFunctionOnSet(Halved(days), row.matched \ {t}) \in Nat
            /\ \A u \in Largest(row.matched) : days[u] = days[t]
      BY <1>1, <3>2, LargestWithinRow
    <3>4. days[e] \in Nat /\ days[e] = Contributions[e].min
      BY <1>1, <3>2, LargestWithinRow
    <3> DEFINE rest == SumFunctionOnSet(Halved(days), row.matched \ {t})
    <3>5. row.min = days[e] + rest /\ rest \in Nat
      BY <3>3
    <3> HIDE DEF days, rest
    <3> QED
      BY <2>1, <3>1, <3>4, <3>5
  <2>4. CASE s \in SafetyStock
    <3>1. s.days = 0
      BY <2>4 DEF SafetyStock, Suggestion
    <3> QED
      BY <2>1, <3>1
  <2>5. CASE s \in SplitShipment
    <3>1. s.action = "split" /\ s.days = AtLeast((row.min * 4) \div 10, 1)
      BY <2>5 DEF SplitShipment, Suggestion
    <3> QED
      BY <2>1, <3>1 DEF AtLeast
  <2>6. CASE s \in ChangeSupplier
    <3>1. s.days = (row.min * 8) \div 10
      BY <2>6 DEF ChangeSupplier, Suggestion
    <3> QED
      BY <2>1, <3>1
  <2> QED
    BY <2>2, <2>3, <2>4, <2>5, <2>6 DEF Suggestions
<1> QED
  BY <1>1, AssessmentInvariant, PTL
=============================================================================
