------------------------ MODULE MCProcessingWorker ------------------------
(* Instances of ProcessingWorker for TLC. *)
EXTENDS ProcessingWorker, TLC
CONSTANTS g1, m1, m2, r1

\* The message of one ingest and a requeue of it; two messages of one ingest.
RedeliveryBody == (m1 :> g1) @@ (r1 :> g1)
TwiceBody == (m1 :> g1) @@ (m2 :> g1)
=============================================================================
