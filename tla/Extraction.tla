----------------------------- MODULE Extraction -----------------------------
(***************************************************************************)
(* process_one of the NLP runner (services/nlp_pipeline.py): an article is *)
(* put to the language model (groq_extractor.py), what comes back is       *)
(* normalised, judged and located (geo.py), and becomes an event.          *)
(*                                                                         *)
(* The model may answer anything that is JSON.  A field of an answer is a  *)
(* value, Missing, Null, or Junk: a value of a type the code does not      *)
(* expect.  A step that raises ends the work on the article; the consumer  *)
(* acknowledges it all the same (StreamConsumer).                          *)
(***************************************************************************)
EXTENDS Naturals, FiniteSets

CONSTANTS
  Articles,
  Answers,     \* the answers of the model: records of the fields below
  Gazetteer,   \* the place each location named in it leads to
  GeoNames,    \* what GeoNames finds for a location: a place, NoPlace or Broken
  Cut          \* Cut[c]: the first two letters of country c in capitals

Missing == "missing"
Null == "null"
Junk == "junk"

EventTypes == {"PORT_STRIKE", "WEATHER_EVENT", "FACTORY_CLOSURE", "SANCTIONS",
               "GEOPOLITICAL", "LOGISTICS_DELAY", "OTHER"}
ValidSeverities == {"critical", "high", "medium", "low"}

\* A place: its name, where it is and its country.  Broken: coordinates float() refuses.
Place(name, at, country) == [name |-> name, at |-> at, country |-> country]
NoPlace == Place("none", "nowhere", "none")
Broken == Place("none", "broken", "none")

\* An answer has each field, if only as Missing, and GeoNames finds something, if only
\* NoPlace, for a location the gazetteer does not have.
ASSUME AnswersAssumption ==
  \A answer \in Answers :
    /\ DOMAIN answer = {"relevant", "type", "severity", "confidence", "title", "location",
                        "country", "coords"}
    /\ answer.location \in DOMAIN Gazetteer \cup DOMAIN GeoNames \cup {Missing, Null, Junk}

\* ProcessedEvent, the fields the delay engine looks at.
NoEvent == [type |-> "none", severity |-> "none", place |-> NoPlace]

VARIABLES
  work,   \* the article under way: [at, article, tries, answer, event]
  fate    \* fate[a]: what became of article a

extractionVars == <<work, fate>>

Idle == [at |-> "idle", article |-> Missing, tries |-> 0, answer |-> Missing,
         event |-> NoEvent]

ExtractionInit ==
  /\ work = Idle
  /\ fate = [a \in Articles |-> "waiting"]

\* The work on the article ends.
End(how) == work' = Idle /\ fate' = [fate EXCEPT ![work.article] = how]

Goto(step) == work' = step /\ UNCHANGED fate

-----------------------------------------------------------------------------
(* The language model *)

MaxTries == 3

Take(a) ==
  /\ work = Idle /\ fate[a] = "waiting"
  /\ Goto([Idle EXCEPT !.at = "asking", !.article = a, !.tries = 1])

\* Faulty variant: after the last attempt it starts again.
AskAgain ==
  /\ work.at = "asking"
  /\ Goto([work EXCEPT !.tries = IF @ < MaxTries THEN @ + 1 ELSE 1])

\* Faulty variant: one attempt more.
AskOnceMore ==
  /\ work.at = "asking"
  /\ IF work.tries <= MaxTries THEN Goto([work EXCEPT !.tries = @ + 1]) ELSE End("dropped")

\* The call fails or its content is not JSON; after the third time the article is dropped.
AskFails ==
  /\ work.at = "asking"
  /\ IF work.tries < MaxTries THEN Goto([work EXCEPT !.tries = @ + 1]) ELSE End("dropped")

Asked(answer) ==
  /\ work.at = "asking"
  /\ Goto([work EXCEPT !.at = "judging", !.answer = answer])

Default(v, d) == IF v = Missing THEN d ELSE v

\* The answer normalised.  setdefault fills in what is missing, not what is null.
Normalised(answer) ==
  LET type == Default(answer.type, "OTHER")
      severity == Default(answer.severity, "low")
  IN  [answer EXCEPT
         !.relevant = Default(@, "yes"),
         !.type = IF type \in EventTypes THEN type ELSE "OTHER",
         !.severity = IF severity \in ValidSeverities THEN severity ELSE "low",
         !.title = Default(@, "headline"),
         !.confidence = IF @ \in {Missing, Null, Junk} THEN "high" ELSE @]

\* A list or an object in the place of an enumerated value cannot be looked up in a set.
Unhashable(answer) == Junk \in {answer.type, answer.severity}

\* Not about supply chains, or of no known type, and below DROP_CONFIDENCE.
DropIt(n) == (n.relevant \in {"no", Null} \/ n.type = "OTHER") /\ n.confidence = "low"

Judge ==
  /\ work.at = "judging"
  /\ IF Unhashable(work.answer) THEN End("raised")
     ELSE LET n == Normalised(work.answer)
          IN  IF DropIt(n) THEN End("dropped")
              ELSE Goto([work EXCEPT !.at = "locating", !.answer = n, !.tries = 0])

-----------------------------------------------------------------------------
(* resolve: gazetteer, then GeoNames, then what the model says *)

Given(v) == v \notin {Missing, Null}

Named(n) == IF Given(n.location) THEN n.location ELSE "Unknown"
CountryOf(n) == IF Given(n.country) THEN n.country ELSE "none"

\* Faulty variant: the country of the model as it is.
LlmPlaceUncut(n) ==
  CASE ~Given(n.coords) -> NoPlace
    [] n.coords = Junk -> Broken
    [] OTHER -> Place(Named(n), n.coords, CountryOf(n))

\* The coordinates of the model, with two letters of its country.
LlmPlace(n) ==
  CASE ~Given(n.coords) -> NoPlace
    [] n.coords = Junk -> Broken
    [] OTHER -> Place(Named(n), n.coords, Cut[CountryOf(n)])

\* Faulty variant: the model's country whatever the place.
EventOfMixed(n, place) ==
  [type |-> n.type, severity |-> n.severity,
   place |-> [place EXCEPT !.country = CountryOf(n)]]

\* Without a place the event has the model's location and country, and no coordinates.
EventOf(n, place) ==
  [type |-> n.type, severity |-> n.severity,
   place |-> IF place # NoPlace THEN place ELSE Place(Named(n), NoPlace.at, CountryOf(n))]

\* float() refuses the coordinates, or a null title cannot be sliced.
Located(place) ==
  IF place = Broken \/ work.answer.title = Null THEN End("raised")
  ELSE Goto([work EXCEPT !.at = "storing", !.event = EventOf(work.answer, place)])

\* As it is written, or with the name of a port or a city in it.
InGazetteer(location) == location \in DOMAIN Gazetteer

Locate ==
  /\ work.at = "locating" /\ work.tries = 0
  /\ LET location == work.answer.location
     IN  CASE ~Given(location) -> Located(LlmPlace(work.answer))
           [] location = Junk -> End("raised")
           [] InGazetteer(location) -> Located(Gazetteer[location])
           [] OTHER -> Goto([work EXCEPT !.tries = 1])

GeoNamesAnswers ==
  /\ work.at = "locating" /\ work.tries > 0
  /\ LET found == GeoNames[work.answer.location]
     IN  Located(IF found = NoPlace THEN LlmPlace(work.answer) ELSE found)

\* Two attempts.
GeoNamesFails ==
  /\ work.at = "locating" /\ work.tries > 0
  /\ IF work.tries < 2 THEN Goto([work EXCEPT !.tries = 2])
                       ELSE Located(LlmPlace(work.answer))
=============================================================================
