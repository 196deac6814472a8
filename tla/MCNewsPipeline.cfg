SPECIFICATION Spec
CONSTANTS
  Nlp = nlp
  StorageWorker = storage
  RawNews = raw
  ProcessedEvents = processed
  NoStream = none
  Consumers = {nlp, storage}
  Streams = {raw, processed}
  Source <- MCSource
  Target <- MCTarget
  FatalPublish = {nlp}
  BatchSize = 2
  MaxLen = 2
  MaxEntries = 3
  MaxFaults = 1
  FaultKinds = {"crash", "lostReply", "fatal"}
INVARIANTS
  TypeOK
  AtMostOnceInOrder
  EffectsAtMostOnce
  AckedOnlyAfterHandling
  NothingVanishes
  StrandedBounded
PROPERTIES
  ArticlesStoredAtMostOnce
CHECK_DEADLOCK FALSE
