----------------------------- MODULE MCTradeStats -----------------------------
(* Instances of TradeStats for TLC. *)
EXTENDS TradeStats

CONSTANTS a, b, m1, m2

Made(n, at, trader, mint, side, sol, tokens, bal) ==
    [n |-> n, at |-> at, trader |-> trader, mint |-> mint, side |-> side,
     sol |-> sol, tokens |-> tokens, bal |-> bal]

\* No two sets of trades of a history have the same sum of lamports.
MCHistories == {
    \* Two closed positions of one mint, over two days.
    << Made(1, 2, a, m1, "buy", 1, 1, 1), Made(2, 3, b, m1, "buy", 2, 1, 1),
       Made(3, 3, a, m1, "sell", 4, 1, 0), Made(4, 4, b, m1, "sell", 8, 1, 0) >>,
    \* One position is left, some of the other one is kept.
    << Made(1, 3, a, m1, "buy", 1, 1, 1), Made(2, 3, a, m2, "buy", 2, 1, 1),
       Made(3, 3, a, m2, "buy", 4, 2, 3), Made(4, 4, a, m1, "sell", 8, 1, 0),
       Made(5, 4, a, m2, "sell", 16, 2, 1) >>,
    \* A creator sells; another position is opened a day before it is closed.
    << Made(1, 2, a, m1, "create", 1, 1, 1), Made(2, 3, b, m1, "buy", 2, 1, 1),
       Made(3, 3, a, m1, "sell", 4, 1, 0), Made(4, 6, b, m1, "sell", 8, 1, 0) >> }
=============================================================================
