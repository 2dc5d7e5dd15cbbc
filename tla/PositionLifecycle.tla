------------------------- MODULE PositionLifecycle -------------------------
(***************************************************************************)
(* What the bot promises about each position, without its goroutines and   *)
(* locks: a position is opened at most once, its tier only rises from S    *)
(* over Q to ALL, every executed sell is made at the tier of the moment,   *)
(* and it is closed only after a sell of everything.  A sell that had been *)
(* decided before the close may still be executed after it, and then it    *)
(* sells everything once more; no partial sell ever follows.               *)
(***************************************************************************)
EXTENDS Integers, Sequences

CONSTANT Mints

VARIABLES status, tier, sells

vars == <<status, tier, sells>>

S   == 0
Q   == 1
All == 2

Init ==
    /\ status = [m \in Mints |-> "none"]
    /\ tier = [m \in Mints |-> S]
    /\ sells = [m \in Mints |-> << >>]

Open(m) ==
    /\ status[m] = "none"
    /\ status' = [status EXCEPT ![m] = "open"]
    /\ UNCHANGED <<tier, sells>>

Raise(m, t) ==
    /\ status[m] = "open"
    /\ t > tier[m]
    /\ tier' = [tier EXCEPT ![m] = t]
    /\ UNCHANGED <<status, sells>>

Sell(m) ==
    /\ status[m] = "open" \/ (status[m] = "closed" /\ tier[m] = All)
    /\ sells' = [sells EXCEPT ![m] = Append(@, tier[m])]
    /\ UNCHANGED <<status, tier>>

Close(m) ==
    /\ status[m] = "open"
    /\ sells[m] # << >>
    /\ sells[m][Len(sells[m])] = All
    /\ status' = [status EXCEPT ![m] = "closed"]
    /\ UNCHANGED <<tier, sells>>

Next ==
    \E m \in Mints :
       \/ Open(m) \/ Sell(m) \/ Close(m)
       \/ \E t \in {Q, All} : Raise(m, t)

Spec == Init /\ [][Next]_vars
=============================================================================
