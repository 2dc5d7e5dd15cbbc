----------------------------- MODULE TradeQueries -----------------------------
(***************************************************************************)
(* The read-only SQL of the pumpy command as operators over the rows of    *)
(* trades: internal/store/queries.go, whois_queries.go and                 *)
(* stats_queries.go.  now and window are ticks.  captured_at grows with    *)
(* the number n of a row, which stands in for it where rows are ordered.   *)
(* Amounts stay in lamports.                                               *)
(***************************************************************************)
EXTENDS Integers, Sequences, FiniteSets, FiniteSetsExt, SequencesExt

\* WHERE captured_at >= now - window.
Since(db, now, window) == {r \in db : r.at >= now - window}

\* WHERE trader = wallet, too.
Mine(db, now, window, wallet) == {r \in Since(db, now, window) : r.trader = wallet}

TotalLamports(db) == SumFunction([r \in db |-> r.sol])

\* SUM of the sells - SUM of the buys; rows of a creation are neither.
Flow(db) == TotalLamports({r \in db : r.side = "sell"})
            - TotalLamports({r \in db : r.side = "buy"})

\* ORDER BY: each before the next; which of two equals comes first is left open.
Ranked(set, Before(_, _)) ==
    CHOOSE f \in SetToSeqs(set) : \A i, j \in DOMAIN f : i < j => Before(f[i], f[j])

\* LIMIT.
Limited(ranked, limit) == SubSeq(ranked, 1, Min({Len(ranked), limit}))

-----------------------------------------------------------------------------
(* queries.go.                                                             *)

\* Fault: the rows are joined by trader alone.
RealizedPnLByTrader(db, now, window, limit, desc) ==
    LET w == Since(db, now, window)
        lastBal == {r \in w : \A x \in w :
                      x.trader = r.trader /\ x.mint = r.mint => x.n <= r.n}
        closed == {r.trader : r \in {x \in lastBal : x.bal = 0}}
        joined == {r \in w : r.trader \in closed}
        flows == {[trader |-> t, pnl |-> Flow({r \in joined : r.trader = t})] :
                    t \in {r.trader : r \in joined}}
        ranked == Ranked(flows, LAMBDA a, b : IF desc THEN a.pnl >= b.pnl ELSE a.pnl <= b.pnl)
    IN  Limited(ranked, limit)

RealizedPnL(db, now, window, limit, desc) ==
    LET w == Since(db, now, window)
        lastBal == {r \in w : \A x \in w :
                      x.trader = r.trader /\ x.mint = r.mint => x.n <= r.n}
        closed == {<<r.trader, r.mint>> : r \in {x \in lastBal : x.bal = 0}}
        joined == {r \in w : <<r.trader, r.mint>> \in closed}
        flows == {[trader |-> t, pnl |-> Flow({r \in joined : r.trader = t})] :
                    t \in {r.trader : r \in joined}}
        ranked == Ranked(flows, LAMBDA a, b : IF desc THEN a.pnl >= b.pnl ELSE a.pnl <= b.pnl)
    IN  Limited(ranked, limit)

-----------------------------------------------------------------------------
(* whois_queries.go.                                                       *)

\* Fault: a position counts as closed once anything of it was sold.
WalletRealizedPnLSOLAnySale(db, now, window, wallet) ==
    LET mine == Mine(db, now, window, wallet)
        closed == {r.mint : r \in {x \in mine : x.side = "sell"}}
    IN  Flow({r \in mine : r.mint \in closed})

WalletRealizedPnLSOL(db, now, window, wallet) ==
    LET mine == Mine(db, now, window, wallet)
        lastBal == {r \in mine : \A x \in mine : x.mint = r.mint => x.n <= r.n}
        closed == {r.mint : r \in {x \in lastBal : x.bal = 0}}
    IN  Flow({r \in mine : r.mint \in closed})

WalletTradeCount(db, now, window, wallet) == Cardinality(Mine(db, now, window, wallet))

WalletDistinctPumpTokens(db, now, window, wallet) ==
    Cardinality({r.mint : r \in Mine(db, now, window, wallet)})

WalletTopTokensByVolume(db, now, window, wallet, limit) ==
    LET mine == Mine(db, now, window, wallet)
        Of(m) == {r \in mine : r.mint = m}
        tokens == {[mint |-> m, volume |-> TotalLamports(Of(m)), trades |-> Cardinality(Of(m))] :
                     m \in {r.mint : r \in mine}}
    IN  Limited(Ranked(tokens, LAMBDA a, b : a.volume >= b.volume), limit)

-----------------------------------------------------------------------------
(* stats_queries.go.  day and hour are the lengths of 24 h and of 1 h.     *)

WalletCount(db) == Cardinality({r.trader : r \in db})

Volume24h(db, now, day) == TotalLamports(Since(db, now, day))

ActiveWallets24h(db, now, day) == Cardinality({r.trader : r \in Since(db, now, day)})

BuySellRatio24h(db, now, day) ==
    LET Count(side) == Cardinality({r \in Since(db, now, day) : r.side = side})
    IN  [buys |-> Count("buy"), sells |-> Count("sell")]

\* The token and its trades; no token if there were none.
HottestToken1h(db, now, hour) ==
    LET w == Since(db, now, hour)
        Of(m) == {r \in w : r.mint = m}
        tokens == {[mint |-> m, trades |-> Cardinality(Of(m))] : m \in {r.mint : r \in w}}
    IN  Limited(Ranked(tokens, LAMBDA a, b : a.trades >= b.trades), 1)

\* 0 stands for 1970.
LastTradeAt(db) == Max({r.at : r \in db} \cup {0})
=============================================================================
