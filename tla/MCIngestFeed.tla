----------------------------- MODULE MCIngestFeed -----------------------------
(* Instances of IngestFeed for TLC. *)
EXTENDS IngestFeed
=============================================================================
