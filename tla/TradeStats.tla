------------------------------ MODULE TradeStats ------------------------------
(***************************************************************************)
(* What the pumpy command shows (cmd/pumpy: top, stats and whois) of the   *)
(* table as ingester and pruner leave it: TradeQueries over the rows of    *)
(* TradeTable, against the trades that were really made.                   *)
(***************************************************************************)
EXTENDS TradeTable, TradeQueries

CONSTANTS
    Windows,       \* the windows the command offers, in days: 24h, 7d, 14d
    BoardLimit,    \* 5 for stats, --limit for top
    TokenLimit,    \* tokens on the page of a wallet, 5 in the code
    HourTicks

ASSUME StatsAssumption ==
    /\ Windows \subseteq 1..RetainDays
    /\ BoardLimit \in Nat \ {0} /\ TokenLimit \in Nat \ {0}
    /\ HourTicks \in 0..TicksPerDay
    /\ IsFiniteSet(Traders) /\ IsFiniteSet(Mints)

DB == {trades[n] : n \in rows}

InTicks(window) == window * TicksPerDay

Board(window, desc) == RealizedPnL(DB, now, InTicks(window), BoardLimit, desc)

Whois(window, wallet) ==
    LET w == InTicks(window)
    IN  [pnl    |-> WalletRealizedPnLSOL(DB, now, w, wallet),
         count  |-> WalletTradeCount(DB, now, w, wallet),
         tokens |-> WalletDistinctPumpTokens(DB, now, w, wallet),
         top    |-> WalletTopTokensByVolume(DB, now, w, wallet, TokenLimit)]

Stats ==
    [active  |-> ActiveWallets24h(DB, now, TicksPerDay),
     volume  |-> Volume24h(DB, now, TicksPerDay),
     ratio   |-> BuySellRatio24h(DB, now, TicksPerDay),
     hottest |-> HottestToken1h(DB, now, HourTicks)]

-----------------------------------------------------------------------------
(* Properties.                                                             *)

\* The pruner takes nothing away that the command shows: the answers about
\* windows within RETAIN_DAYS are the same before and after its tick, up to
\* the very edge of the window (schema.go:178-188 against the WHERE clauses of
\* queries.go, whois_queries.go and stats_queries.go).
AnswersSurvivePruning ==
    [][PrunerTick =>
         /\ Stats' = Stats
         /\ \A window \in Windows :
               /\ \A desc \in BOOLEAN : Board(window, desc)' = Board(window, desc)
               /\ \A w \in Traders : Whois(window, w)' = Whois(window, w)]_vars

\* The leaderboard and the page of a wallet are two translations of one idea of
\* profit (queries.go:35-58, whois_queries.go:22-43): they agree on every
\* wallet, and who is not on a full board has no more than the last on it.
BoardMatchesWhois ==
    \A window \in Windows :
       LET top == Board(window, TRUE)
           OnBoard == {top[i].trader : i \in DOMAIN top}
       IN  /\ \A i \in DOMAIN top : top[i].pnl = Whois(window, top[i].trader).pnl
           /\ \A w \in Traders \ OnBoard :
                 LET pnl == Whois(window, w).pnl
                 IN  pnl = 0 \/ (Len(top) = BoardLimit /\ pnl <= top[Len(top)].pnl)

\* The tiles of stats and the pages of all wallets count the same trades
\* (stats_queries.go:21-109, whois_queries.go:50-112): the tokens listed on the
\* pages have no more volume than the tile shows, and all of it when no wallet
\* traded more tokens than its page has room for (whois.go:78).
StatsMatchWhois ==
    LET Page(w) == Whois(1, w)
        Volume(top) == SumFunction([i \in DOMAIN top |-> top[i].volume])
        listed == SumFunction([w \in Traders |-> Volume(Page(w).top)])
    IN  /\ listed <= Stats.volume
        /\ (\A w \in Traders : Page(w).tokens <= TokenLimit) => listed = Stats.volume
        /\ Stats.active = Cardinality({w \in Traders : Page(w).count > 0})
        /\ Stats.active <= WalletCount(DB)
        /\ Stats.ratio.buys + Stats.ratio.sells <= SumFunction([w \in Traders |-> Page(w).count])
        /\ \A w \in Traders : Len(Page(w).top) = Min({Page(w).tokens, TokenLimit})
        /\ Stats.hottest # << >> => LastTradeAt(DB) >= now - HourTicks

\* The answers of the three subcommands agree with each other at any moment.
PagesAgree == BoardMatchesWhois /\ StatsMatchWhois

\* The trades w has made, the tokens they are of, and what w really gained on the
\* positions it left.
MadeBy(w) == {trades[n] : n \in {i \in 1..made : trades[i].trader = w}}

Tokens(w, mint, sides, last) ==
    SumFunction([r \in {x \in MadeBy(w) : x.mint = mint /\ x.side \in sides /\ x.n <= last}
                    |-> r.tokens])

Gain(w) ==
    LET Holds(m) == Tokens(w, m, {"sell"}, made) < Tokens(w, m, {"buy", "create"}, made)
        Amounts(sides) == TotalLamports({r \in MadeBy(w) : ~Holds(r.mint) /\ r.side \in sides})
    IN  Amounts({"sell"}) - Amounts({"buy", "create"})

\* "realized PnL (in SOL) for closed positions opened and closed within the
\* given Postgres interval window" (whois_queries.go:19-20): it is the wallet's
\* gain, when all its trades were captured, lie in the window, none created a
\* token (whose price is no buy, main.go:78), and its balance is what it bought
\* and did not sell, nothing having come or gone by a plain transfer.  The query
\* itself asks for none of the four.
PnLIsGain ==
    \A w \in Traders, window \in Windows :
       (\A r \in MadeBy(w) :
           /\ r \in Since(DB, now, InTicks(window))
           /\ r.side # "create"
           /\ Tokens(w, r.mint, {"sell"}, r.n) + r.bal
                 = Tokens(w, r.mint, {"buy", "create"}, r.n))
       => Whois(window, w).pnl = Gain(w)
=============================================================================
