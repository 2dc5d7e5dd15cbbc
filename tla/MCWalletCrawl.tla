---------------------------- MODULE MCWalletCrawl ----------------------------
(* Instances of WalletCrawl for TLC. *)
EXTENDS WalletCrawl, TLC

\* The second transaction is malformed, the third yields no edge.
MCKind == [t \in 1..MaxTx |-> IF t = 2 THEN "malformed" ELSE IF t = 3 THEN "plain"
                              ELSE "transfer"]

CrawlerSymmetry == Permutations(Crawlers)
=============================================================================
