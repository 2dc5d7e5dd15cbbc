----------------------------- MODULE MCCrawlFetch -----------------------------
(* Instances of CrawlFetch for TLC. *)
EXTENDS CrawlFetch

MCKind == [t \in 1..MaxTx |-> IF t = 1 THEN "transfer" ELSE "plain"]
=============================================================================
