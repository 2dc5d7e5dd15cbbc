----------------------------- MODULE TransferGraph -----------------------------
(***************************************************************************)
(* The transfer graph in Neo4j (internal/graph/neo4j.go) as the crawls of  *)
(* several wallets build it (internal/crawler/runner.go), each seeing the  *)
(* same transaction from its own side.  WalletCrawl has the order of       *)
(* pages, offsets and crashes; here any unseen transaction may be next,    *)
(* and a page may be lost at any point.                                    *)
(*                                                                         *)
(* External.  chain[s] is what happened on chain under signature s, with   *)
(* the raw form in which Dune returns it: the transfers made (moves),      *)
(* those of outer instructions before those of inner ones as Dune lists    *)
(* them, whether it failed, whether it touched a pump program (pump),      *)
(* whether it is a trade the ingester will store (trade), and whether the  *)
(* raw form is intact (intact).  ChainAssumption says how Solana writes    *)
(* the one down as the other.                                              *)
(***************************************************************************)
EXTENDS ChainTx, GraphQueries

CONSTANTS
    Sigs,
    Wallets,       \* wallets of wallet_crawl_state: traders on pump.fun
    Addresses,     \* all accounts
    ChainTxs       \* the transactions that may be on chain

ASSUME GraphAssumption ==
    /\ Wallets \subseteq Addresses
    /\ IsFiniteSet(Sigs) /\ IsFiniteSet(Addresses)

-----------------------------------------------------------------------------
(* External: the message format of Solana.                                 *)

AccountKeys == Addresses \cup PumpPrograms \cup {SystemProgram}

Ix == [program      : AccountKeys \cup {Inline},
       programIndex : Int,
       form         : {"indices", "addresses"},
       accounts     : Seq(Int) \cup Seq(AccountKeys),
       data         : [len : Nat, discriminator : Nat, lamports : Nat]]

RawTx == [static : Seq(AccountKeys), writable : Seq(AccountKeys), readonly : Seq(AccountKeys),
          instructions : Seq(Ix), inner : Seq(Seq(Ix)), failed : BOOLEAN]

Transfer == [from : Addresses, to : Addresses, lamports : Nat]

\* An index, from 0, counts through the static, the writable and the readonly keys.
Names(raw, index, key) ==
    \/ \E k \in DOMAIN raw.static : index = k - 1 /\ key = raw.static[k]
    \/ \E k \in DOMAIN raw.writable : index = Len(raw.static) + k - 1 /\ key = raw.writable[k]
    \/ \E k \in DOMAIN raw.readonly :
          index = Len(raw.static) + Len(raw.writable) + k - 1 /\ key = raw.readonly[k]

Calls(raw, ix, program) ==
    IF ix.program = Inline THEN Names(raw, ix.programIndex, program) ELSE ix.program = program

Passes(raw, ix, k, account) ==
    IF ix.form = "indices" THEN Names(raw, ix.accounts[k], account) ELSE ix.accounts[k] = account

Executed(raw) ==
    {raw.instructions[i] : i \in DOMAIN raw.instructions}
    \cup UNION {{raw.inner[i][j] : j \in DOMAIN raw.inner[i]} : i \in DOMAIN raw.inner}

\* The system program takes ix for move.
Makes(raw, ix, move) ==
    /\ Calls(raw, ix, SystemProgram)
    /\ ix.data.len >= 12 /\ ix.data.discriminator = 2 /\ ix.data.lamports = move.lamports
    /\ {1, 2} \subseteq DOMAIN ix.accounts
    /\ Passes(raw, ix, 1, move.from) /\ Passes(raw, ix, 2, move.to)

\* Dune lists the outer instructions, then the inner ones.
Listed(raw) == raw.instructions \o FlattenSeq(raw.inner)

\* The list has every move, in the order of moves.
IsListed(raw, moves) ==
    \E at \in [DOMAIN moves -> DOMAIN Listed(raw)] :
       /\ \A k \in DOMAIN moves : Makes(raw, Listed(raw)[at[k]], moves[k])
       /\ \A k, l \in DOMAIN moves : k < l => at[k] < at[l]
       /\ \A i \in DOMAIN Listed(raw) :
             (\E move \in ToSet(moves) : Makes(raw, Listed(raw)[i], move)) =>
                \E k \in DOMAIN moves : at[k] = i

ASSUME ChainAssumption ==
    \A tx \in ChainTxs :
       /\ tx \in [moves : Seq(Transfer), raw : RawTx, pump : BOOLEAN, trade : BOOLEAN,
                  intact : BOOLEAN]
       /\ \A ix \in Executed(tx.raw) :
             /\ ix.accounts \in IF ix.form = "indices" THEN Seq(Int) ELSE Seq(AccountKeys)
             /\ ~tx.raw.failed =>
                   \A from, to \in AccountKeys :
                      LET move == [from |-> from, to |-> to, lamports |-> ix.data.lamports]
                      IN  Makes(tx.raw, ix, move) => move \in ToSet(tx.moves)
             /\ tx.intact =>
                   /\ \E program \in AccountKeys : Calls(tx.raw, ix, program)
                   /\ \A k \in DOMAIN ix.accounts :
                         \E account \in AccountKeys : Passes(tx.raw, ix, k, account)
       /\ tx.intact /\ ~tx.raw.failed => IsListed(tx.raw, tx.moves)
       /\ tx.pump <=>
             \E program \in PumpPrograms :
                \/ \E list \in {tx.raw.static, tx.raw.writable, tx.raw.readonly} :
                      program \in ToSet(list)
                \/ \E ix \in Executed(tx.raw) : Calls(tx.raw, ix, program)

-----------------------------------------------------------------------------

VARIABLES
    chain,     \* chain[s], external
    known,     \* signatures in the trades table
    seen,      \* wallet_tx_seen: pairs of wallet and signature
    page,      \* page[w]: signatures and edges of the page being worked on
    nodes,     \* nodes[a]: source of the Wallet node, or "none"
    edges,     \* TRANSFER relationships
    written    \* history: pairs of wallet and signature whose page was written

vars == <<chain, known, seen, page, nodes, edges, written>>

EdgeType == [sig : Sigs, from : Addresses, to : Addresses, lamports : Nat]

TypeOK ==
    /\ chain \in [Sigs -> ChainTxs]
    /\ known \subseteq Sigs
    /\ seen \subseteq Wallets \X Sigs
    /\ page \in [Wallets -> [sigs : SUBSET Sigs, edges : Seq(EdgeType)]]
    /\ nodes \in [Addresses -> {"none", "pump_seed", "discovered"}]
    /\ edges \subseteq EdgeType
    /\ written \subseteq seen

NoPage == [sigs |-> {}, edges |-> << >>]

Init ==
    /\ chain \in [Sigs -> ChainTxs]
    /\ known = {}
    /\ seen = {}
    /\ page = [w \in Wallets |-> NoPage]
    /\ nodes = [a \in Addresses |-> "none"]
    /\ edges = {}
    /\ written = {}

\* The ingester stores a trade, or drops the partition it is in.
StoreTrade(s) ==
    /\ chain[s].trade
    /\ known' = IF s \in known THEN known \ {s} ELSE known \cup {s}
    /\ UNCHANGED <<chain, seen, page, nodes, edges, written>>

\* Fault: a transaction that cannot be normalised is not marked.
ExtractUnmarked(w, s) ==
    LET raw == chain[s].raw
        n == Normalize(raw)
        new == Normalizes(raw) /\ ~raw.failed /\ ~Excluded(n, s \in known)
    IN  /\ <<w, s>> \notin seen
        /\ seen' = IF Normalizes(raw) THEN seen \cup {<<w, s>>} ELSE seen
        /\ page' = [page EXCEPT
             ![w].sigs = @ \cup {s},
             ![w].edges = IF new THEN @ \o ExtractSOLEdges(n, s, w) ELSE @]
        /\ UNCHANGED <<chain, known, nodes, edges, written>>

\* One turn of CrawlOnce's loop over a page.
Extract(w, s) ==
    LET raw == chain[s].raw
        n == Normalize(raw)
        new == Normalizes(raw) /\ ~raw.failed /\ ~Excluded(n, s \in known)
    IN  /\ <<w, s>> \notin seen
        /\ seen' = seen \cup {<<w, s>>}
        /\ page' = [page EXCEPT
             ![w].sigs = @ \cup {s},
             ![w].edges = IF new THEN @ \o ExtractSOLEdges(n, s, w) ELSE @]
        /\ UNCHANGED <<chain, known, nodes, edges, written>>

\* Fault: a relationship that is there gets the amount of the new edge.
MergeEdgeOverwrites(stored, e) ==
    {x \in stored : <<x.sig, x.from, x.to>> # <<e.sig, e.from, e.to>>} \cup {e}

\* MERGE of a relationship: its key is the signature and both ends.
MergeEdge(stored, e) ==
    IF \E x \in stored : <<x.sig, x.from, x.to>> = <<e.sig, e.from, e.to>>
    THEN stored ELSE stored \cup {e}

\* MERGE of the two nodes; only a new one gets a source.
MergeNodes(sources, e) ==
    [a \in Addresses |->
       IF sources[a] # "none" THEN sources[a]
       ELSE IF a = e.from THEN "pump_seed"
       ELSE IF a = e.to THEN "discovered"
       ELSE "none"]

\* UpsertEdges, one write transaction that goes through the page's edges.
UpsertEdges(w) ==
    /\ page[w].sigs # {}
    /\ edges' = FoldLeft(MergeEdge, edges, page[w].edges)
    /\ nodes' = FoldLeft(MergeNodes, nodes, page[w].edges)
    /\ written' = written \cup ({w} \X page[w].sigs)
    /\ page' = [page EXCEPT ![w] = NoPage]
    /\ UNCHANGED <<chain, known, seen>>

\* The run ends before the page is written; what it marked stays seen.
LosePage(w) ==
    /\ page[w].sigs # {}
    /\ page' = [page EXCEPT ![w] = NoPage]
    /\ UNCHANGED <<chain, known, seen, nodes, edges, written>>

Next ==
    \/ \E s \in Sigs : StoreTrade(s)
    \/ \E w \in Wallets, s \in Sigs : Extract(w, s)
    \/ \E w \in Wallets : UpsertEdges(w) \/ LosePage(w)

Spec == Init /\ [][Next]_vars

-----------------------------------------------------------------------------
(* Properties, stated over what happened on chain and never over its raw   *)
(* form.                                                                   *)

\* A move the graph is about: of enough lamports, between two accounts.
Counts(move) == move.lamports >= MinTransferLamps /\ move.from # move.to

\* "Every edge is a SOL system transfer that did not touch a pump.fun program"
\* (dashboards/wallet-graph.json:24): it was really made, by a transaction
\* that succeeded, in whatever encoding it came (normalize.go:152-188,
\* exclude.go:27-36, runner.go:118-137).
EdgesAreTransfers ==
    \A e \in edges :
       LET tx == chain[e.sig]
       IN  /\ ~tx.raw.failed
           /\ ~tx.pump
           /\ \E i \in DOMAIN tx.moves :
                 /\ Counts(tx.moves[i])
                 /\ [from |-> e.from, to |-> e.to, lamports |-> e.lamports] = tx.moves[i]

\* Once a page is written, every move of its transactions that has the wallet
\* at either end is an edge, whoever crawled the other end before
\* (runner.go:93-101, neo4j.go:95-113).  Trades are excluded or not according
\* to when the ingester stored them.
WrittenIsComplete ==
    \A w \in Wallets, s \in Sigs :
       LET tx == chain[s]
       IN  <<w, s>> \in written /\ ~tx.raw.failed /\ ~tx.pump /\ ~tx.trade /\ tx.intact =>
             \A i \in DOMAIN tx.moves :
                Counts(tx.moves[i]) /\ w \in {tx.moves[i].from, tx.moves[i].to} =>
                   \E e \in edges : /\ e.sig = s
                                    /\ e.from = tx.moves[i].from
                                    /\ e.to = tx.moves[i].to

\* The amount of the first of the moves from a to b.
First(moves, a, b) ==
    LET Between == {i \in DOMAIN moves : /\ Counts(moves[i])
                                         /\ moves[i].from = a /\ moves[i].to = b}
    IN  moves[Min(Between)].lamports

Page(a) == WalletOutboundCounterparties(edges, a, Sigs, 0)

SigsOf(a, b) == {s \in Sigs : \E e \in edges : e.sig = s /\ e.from = a /\ e.to = b}

\* What the page of a counts towards the wallets of the set to.
Count(a, to) ==
    SumFunction([i \in DOMAIN Page(a) |->
                   IF Page(a)[i].wallet \in to THEN Page(a)[i].count ELSE 0])

Source(source) == {a \in Addresses : nodes[a] = source}

\* What the command shows of the graph is what happened on chain, whatever the
\* order of the crawls and whichever end was crawled: a signature counts once
\* for every pair of accounts, with the first of its moves between them if its
\* raw form is intact (neo4j.go:102-113, whois_queries.go:26-32), every account
\* at an edge is there, and the tiles of stats agree with the pages
\* (stats_queries.go:25, 60, 86-89).
OutboundTotals ==
    LET top == TopPumpWalletsByExternalTrades(edges, nodes, 1)
    IN  /\ \A a \in Addresses : \A i \in DOMAIN Page(a) :
              LET row == Page(a)[i]
                  sigs == SigsOf(a, row.wallet)
              IN  /\ row.count = Cardinality(sigs)
                  /\ (\A s \in sigs : chain[s].intact) =>
                        row.total = SumFunction([s \in sigs |->
                                                   First(chain[s].moves, a, row.wallet)])
        /\ EdgeCount(edges) = SumFunction([a \in Addresses |-> Count(a, Addresses)])
        /\ DiscoveredWalletCount(nodes) =
              Cardinality({e.from : e \in edges} \cup {e.to : e \in edges})
              - Cardinality(Source("pump_seed"))
        /\ \A a \in Source("pump_seed") :
              Count(a, Source("discovered")) <= IF top = << >> THEN 0 ELSE top[1].trades
=============================================================================
