---------------------------- MODULE MCAssessment ----------------------------
(* A handful of answers, places and orders for TLC. *)
EXTENDS Assessment, TLC

CONSTANTS a1, a2, a3

Answer(type, severity, location, country) ==
  [relevant |-> "yes", type |-> type, severity |-> severity, confidence |-> "high",
   title |-> "t", location |-> location, country |-> country, coords |-> Missing]

Shanghai == Place("Port of Shanghai", "shanghai", "CN")
Basel == Place("Basel", "basel", "CH")

\* A critical strike at a port and a lesser one, sanctions found by the model alone, a flood GeoNames knows, an event
\* without a place, and answers that are dropped or raise.
MCAnswers ==
  {Answer("PORT_STRIKE", "critical", "Port of Shanghai", "US"),
   [Answer("SANCTIONS", "medium", "Suez", "Egypt") EXCEPT !.coords = "suez"],
   Answer("WEATHER_EVENT", Missing, "Basel", "DE"),
   [Answer("LOGISTICS_DELAY", "low", "somewhere", "China") EXCEPT !.relevant = Junk],
   [Answer("strike", Null, "somewhere", "US") EXCEPT !.confidence = "low"],
   [Answer("LOGISTICS_DELAY", "low", Missing, Null) EXCEPT !.coords = Junk,
                                                          !.title = Null],
   Answer("PORT_STRIKE", Junk, "Port of Shanghai", "CN"),
   Answer("LOGISTICS_DELAY", "low", "nulls", "CN")}

MCGazetteer == "Port of Shanghai" :> Shanghai
MCGeoNames ==
  ("Suez" :> NoPlace) @@ ("Basel" :> Basel) @@ ("somewhere" :> NoPlace) @@ ("nulls" :> Broken)

MCCut == ("Egypt" :> "EG") @@ ("China" :> "CH") @@ ("US" :> "US") @@ ("DE" :> "DE")
           @@ ("CN" :> "CN") @@ ("none" :> "none") @@ ("CH" :> "CH") @@ ("EG" :> "EG")

MCOrders ==
  {[mode |-> "Multimodal", country |-> "CN", qty |-> 600],
   [mode |-> "Rail", country |-> "DE", qty |-> 0]}

MCKm == [shanghai |-> 120, suez |-> 7000, basel |-> 600, nowhere |-> 0]
MCLanesAt == [shanghai |-> {"intra_asia"}, suez |-> {"asia_europe_suez"},
              basel |-> {}, nowhere |-> {}]
MCSourceBegins == a1 :> {"DE"} @@ a2 :> {"CN", "US"} @@ a3 :> {}
MCPortRank == "Port of Shanghai" :> 1
MCCountryRisk == [CN |-> 5, EG |-> 7]

\* The two regressors are trained apart and may cross.
MCTrainedModel == [t \in EventTypes |-> CASE t = "SANCTIONS" -> [min |-> 9, max |-> 7]
                                           [] t = "PORT_STRIKE" -> [min |-> 1, max |-> 12]
                                           [] OTHER -> [min |-> 0, max |-> 5]]
=============================================================================
