SPECIFICATION FairSpec
CONSTANTS
  a1 = a1
  a2 = a2
  a3 = a3
  Articles = {a1, a2, a3}
  Answers <- MCAnswers
  Gazetteer <- MCGazetteer
  GeoNames <- MCGeoNames
  Cut <- MCCut
  Orders <- MCOrders
  Km <- MCKm
  LanesAt <- MCLanesAt
  PortRank <- MCPortRank
  CountryRisk <- MCCountryRisk
  SourceBegins <- MCSourceBegins
  MaxExpired = 1
  TrainedModel <- MCTrainedModel
INVARIANTS
  TypeOK
  RangeOrdered
  MoreEventsNoFewerDays
  BreakdownAddsUp
  SuggestionsModest
  CountryOfCoordinates
  LocatedIsStored
PROPERTIES
  EveryArticleEnds
CHECK_DEADLOCK FALSE
