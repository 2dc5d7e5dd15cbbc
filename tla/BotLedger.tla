----------------------------- MODULE BotLedger -----------------------------
(***************************************************************************)
(* The session counters of internal/bot/ledger.go.  Every counter is an    *)
(* atomic of its own and is only read by the dashboard, so one call of a   *)
(* Record method is one change of the record.  openPositions is a signed   *)
(* counter that the code may take below zero.  The ring buffer of recent   *)
(* transactions and the wallet balance are not part of this record.        *)
(***************************************************************************)
EXTENDS Integers

Ledger == [spent : Nat, sold : Nat, buys : Nat, sells : Nat,
           open : Int, closed : Nat, wins : Nat]

NewLedger == [spent |-> 0, sold |-> 0, buys |-> 0, sells |-> 0,
              open |-> 0, closed |-> 0, wins |-> 0]

RecordBuy(l, sol) ==
    [l EXCEPT !.spent = @ + sol, !.buys = @ + 1, !.open = @ + 1]

RecordSell(l, sol) ==
    [l EXCEPT !.sold = @ + sol, !.sells = @ + 1]

RecordPositionClosed(l, win) ==
    [l EXCEPT !.open = @ - 1, !.closed = @ + 1,
              !.wins = @ + (IF win THEN 1 ELSE 0)]
=============================================================================
