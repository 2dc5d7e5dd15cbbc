----------------------------- MODULE GraphQueries -----------------------------
(***************************************************************************)
(* The read-only Cypher of the pumpy command (internal/graph:              *)
(* stats_queries.go, whois_queries.go) over the relationships and the      *)
(* nodes of TransferGraph.  Amounts stay in lamports.                      *)
(***************************************************************************)
EXTENDS Integers, Sequences, FiniteSets, FiniteSetsExt, SequencesExt

\* ORDER BY: each before the next; which of two equals comes first is left open.
Ranked(set, Before(_, _)) ==
    CHOOSE f \in SetToSeqs(set) : \A i, j \in DOMAIN f : i < j => Before(f[i], f[j])

\* LIMIT; 0 is no limit.
Limited(ranked, limit) ==
    IF limit = 0 THEN ranked ELSE SubSeq(ranked, 1, Min({Len(ranked), limit}))

DiscoveredWalletCount(nodes) == Cardinality({a \in DOMAIN nodes : nodes[a] = "discovered"})

\* The APOC statistics and the scan count the same.
EdgeCount(edges) == Cardinality(edges)

TopPumpWalletsByExternalTrades(edges, nodes, limit) ==
    LET external == {e \in edges : nodes[e.from] = "pump_seed" /\ nodes[e.to] = "discovered"}
        rows == {[wallet |-> a, trades |-> Cardinality({e \in external : e.from = a})] :
                   a \in {e.from : e \in external}}
    IN  Limited(Ranked(rows, LAMBDA x, y : x.trades >= y.trades), limit)

\* recent: the signatures with block_time >= since.
WalletOutboundCounterparties(edges, wallet, recent, limit) ==
    LET sent == {e \in edges : e.from = wallet /\ e.sig \in recent}
        To(b) == {e \in sent : e.to = b}
        rows == {[wallet |-> b, total |-> SumFunction([e \in To(b) |-> e.lamports]),
                  count |-> Cardinality(To(b))] : b \in {e.to : e \in sent}}
    IN  Limited(Ranked(rows, LAMBDA x, y : x.total >= y.total), limit)
=============================================================================
