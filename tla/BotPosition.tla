---------------------------- MODULE BotPosition ----------------------------
(***************************************************************************)
(* The pure part of a bot position (internal/bot/position.go): how the     *)
(* price of a mint, relative to its price at creation, selects a tier, and *)
(* how much a tier sells.                                                  *)
(*                                                                         *)
(* The code computes with floats.  Here a market cap is a natural number   *)
(* of grains, Grain grains to one step of the code's fixed-point store     *)
(* (1e-6 SOL); ratios and percentages are integer percents and SOL amounts *)
(* are lamports, so a comparison of quotients is a cross-multiplication.   *)
(***************************************************************************)
EXTENDS Integers

CONSTANTS
    Grain,        \* grains of market cap in one fixed-point step
    TierSRatio,   \* config tier_s_ratio, in percent
    TierQRatio,   \* config tier_q_ratio, in percent
    TierSPct,     \* config tier_s_pct
    TierQPct,     \* config tier_q_pct
    TierAllPct,   \* config tier_all_pct
    BuySol        \* config buy_sol, in lamports

\* validate (config.go:111-125) only requires buy_sol > 0: ratios and
\* percentages may be in any order and 0 (below 0 they act like 0).
ASSUME ConfigAssumption ==
    /\ Grain \in Nat \ {0}
    /\ BuySol \in Nat \ {0}
    /\ {TierSRatio, TierQRatio, TierSPct, TierQPct, TierAllPct} \subseteq Nat

TierS   == 0
TierQ   == 1
TierAll == 2
Tiers   == {TierS, TierQ, TierAll}

\* SetLastMcap: uint64(mcap * 1e6) drops what is below one step.
Fixed(mcap) == mcap \div Grain

\* PriceRatio() >= pct/100, for the stored value last and the float creation.
\* The ratio of a position created at market cap 0 is 0.
RatioAtLeast(last, creation, pct) ==
    IF creation = 0 THEN pct = 0 ELSE last * Grain * 100 >= pct * creation

\* Fault: below both ratios the position counts as done.
EvaluateTierDone(last, creation) ==
    IF RatioAtLeast(last, creation, TierSRatio) THEN TierS
    ELSE IF RatioAtLeast(last, creation, TierQRatio) THEN TierQ
    ELSE 3

EvaluateTier(last, creation) ==
    IF RatioAtLeast(last, creation, TierSRatio) THEN TierS
    ELSE IF RatioAtLeast(last, creation, TierQRatio) THEN TierQ
    ELSE TierAll

SellPct(tier) ==
    CASE tier = TierS -> TierSPct
      [] tier = TierQ -> TierQPct
      [] OTHER        -> TierAllPct

\* evaluateSell's amount.  Nothing ever calls SetRemainingTokens, so the code
\* always takes its fallback, a fixed fraction of the original buy.
SellAmount(tier) == (BuySol * SellPct(tier)) \div 100

\* sellAmount <= 0, on the float amount before it is cut to lamports
SellsNothing(tier) == SellPct(tier) = 0

\* win := solReceived > pos.BoughtSol()
IsWin(tier) == SellPct(tier) > 100
=============================================================================
