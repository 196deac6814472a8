--------------------------- MODULE MCNewsPipeline ---------------------------
(* Two consumers in a row on two streams, for TLC. *)
EXTENDS NewsPipeline, TLC

MCSource == (Nlp :> RawNews) @@ (StorageWorker :> ProcessedEvents)
MCTarget == (Nlp :> ProcessedEvents) @@ (StorageWorker :> NoStream)
=============================================================================
