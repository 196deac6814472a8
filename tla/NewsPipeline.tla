---------------------------- MODULE NewsPipeline ----------------------------
(***************************************************************************)
(* The two consumer processes in a row: nlp-1 reads raw.news and publishes *)
(* processed.events (nlp_runner.py, nlp_pipeline.py), storage-1 reads      *)
(* those and stores them (storage_runner.py, storage_pipeline.py).  Both   *)
(* run the same consume() generator; they differ in where an exception of  *)
(* the handler's last step goes.                                           *)
(***************************************************************************)
EXTENDS StreamConsumer

CONSTANTS Nlp, StorageWorker, RawNews, ProcessedEvents

\* run_consumer of nlp_pipeline.py: consume(raw_stream, ...), publish(processed_stream, ...).
ASSUME NlpAssumption ==
  /\ Source[Nlp] = RawNews
  /\ Target[Nlp] = ProcessedEvents
  /\ Nlp \in FatalPublish

\* run_consumer of storage_pipeline.py: everything process_one raises is caught.
ASSUME StorageAssumption ==
  /\ StorageWorker \in Consumers
  /\ Source[StorageWorker] = ProcessedEvents
  /\ Target[StorageWorker] = NoStream
  /\ StorageWorker \notin FatalPublish

\* The article an entry of processed.events was made from.
Article(e) == log[ProcessedEvents][e]

\* The articles stored, in the order they were stored.
StoredArticles == [i \in 1..Len(effects[StorageWorker]) |-> Article(effects[StorageWorker][i])]

Articles == INSTANCE LossyFifo WITH sent <- Len(log[RawNews]), out <- StoredArticles

\* End to end, from an article on raw.news to a stored event, the two processes are one
\* lossy FIFO channel: no article is stored twice and none overtakes another, whatever
\* crashes, restarts and lost replies come in between.
ArticlesStoredAtMostOnce == Articles!Spec
=============================================================================
