SPECIFICATION FairSpec
CONSTANTS
  Nlp = nlp
  StorageWorker = storage
  RawNews = raw
  ProcessedEvents = processed
  NoStream = none
  Consumers = {nlp, storage}
  Streams = {raw, processed}
  Source <- MCSource
  Target <- MCTarget
  FatalPublish = {nlp}
  BatchSize = 2
  MaxLen = 1
  MaxEntries = 2
  MaxFaults = 1
  FaultKinds = {"crash", "lostReply"}
PROPERTIES
  EveryEntryDelivered
  EveryEntryAcked
CHECK_DEADLOCK FALSE
