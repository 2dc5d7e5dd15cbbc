------------------------------ MODULE TradeCall ------------------------------
(***************************************************************************)
(* What a caller of lightning.Client.Trade may rely on, and no more: a     *)
(* call returns once, a signature means the trade was executed at least    *)
(* once, and however the call ends the trade is executed at most Limit     *)
(* times.  An error says nothing about the trade: it may have been         *)
(* executed, and may even be executed after the error was returned.        *)
(***************************************************************************)
EXTENDS Integers

CONSTANTS Calls, Limit

VARIABLES outcome, executions

vars == <<outcome, executions>>

Init ==
    /\ outcome = [c \in Calls |-> "pending"]
    /\ executions = [c \in Calls |-> 0]

Execute(c) ==
    /\ executions[c] < Limit
    /\ executions' = [executions EXCEPT ![c] = @ + 1]
    /\ UNCHANGED outcome

Return(c, result) ==
    /\ outcome[c] = "pending"
    /\ result = "ok" => executions[c] > 0
    /\ outcome' = [outcome EXCEPT ![c] = result]
    /\ UNCHANGED executions

Next == \E c \in Calls : Execute(c) \/ \E result \in {"ok", "err"} : Return(c, result)

Spec == Init /\ [][Next]_vars
=============================================================================
