--------------------------- MODULE LightningTrade ---------------------------
(***************************************************************************)
(* lightning.Client.Trade (internal/lightning/client.go): one POST per     *)
(* attempt, retried with a backoff.  A call gives up on an attempt after   *)
(* the HTTP timeout, but the request may have reached the service and be   *)
(* executed there at any later time.                                       *)
(*                                                                         *)
(* A response is known by the class of its status:                         *)
(*    "ok" 200, "refused" 400, 401 or 403, "busy" 429, "server" 500 and    *)
(*    more, "other" the rest;                                              *)
(* "lost" stands for every error of http.Client.Do.                        *)
(***************************************************************************)
EXTENDS Integers, FiniteSets, Sequences

CONSTANTS
    Calls,         \* concurrent calls of Trade
    Cancellable,   \* those with a deadline: buys (15 s); sells have none
    MaxRetries     \* Client.maxRetries

ASSUME TradeAssumption ==
    /\ Cancellable \subseteq Calls
    /\ MaxRetries \in Nat

Attempts == 0..MaxRetries
Statuses == {"ok", "refused", "busy", "server", "other"}

VARIABLES
    pc,          \* pc[c]: "send", "wait", "backoff", "ok" or "err"
    attempt,     \* attempt[c]: the loop variable
    cancelled,   \* cancelled[c]: the context is done
    seen,        \* history: what the attempts of c so far ended with
    reply,       \* reply[c]: a response on its way to c, or "none"
    post         \* post[c][k]: the request of attempt k, at the service

vars == <<pc, attempt, cancelled, seen, reply, post>>

TypeOK ==
    /\ pc \in [Calls -> {"send", "wait", "backoff", "ok", "err"}]
    /\ attempt \in [Calls -> Attempts]
    /\ cancelled \in [Calls -> BOOLEAN]
    /\ seen \in [Calls -> Seq(Statuses \cup {"lost"})]
    /\ reply \in [Calls -> Statuses \cup {"none"}]
    /\ post \in [Calls -> [Attempts -> {"none", "sent", "executed", "dropped"}]]

Init ==
    /\ pc = [c \in Calls |-> "send"]
    /\ attempt = [c \in Calls |-> 0]
    /\ cancelled = [c \in Calls |-> FALSE]
    /\ seen = [c \in Calls |-> << >>]
    /\ reply = [c \in Calls |-> "none"]
    /\ post = [c \in Calls |-> [k \in Attempts |-> "none"]]

Returned(c) == pc[c] \in {"ok", "err"}

-----------------------------------------------------------------------------
(* The client.                                                             *)

\* http.Client.Do writes the request.
Send(c) ==
    /\ pc[c] = "send"
    /\ pc' = [pc EXCEPT ![c] = "wait"]
    /\ post' = [post EXCEPT ![c][attempt[c]] = "sent"]
    /\ UNCHANGED <<attempt, cancelled, seen, reply>>

\* Fault: every answer but a refusal is tried again.
RetriedUnlessRefused(status) == status # "refused"

\* Statuses the loop tries again after.
Retried(status) == status \in {"lost", "server", "busy"}

\* Fault: one attempt too many.
EndedOneMore(c, status) ==
    /\ seen' = [seen EXCEPT ![c] = Append(@, status)]
    /\ reply' = [reply EXCEPT ![c] = "none"]
    /\ IF Retried(status) /\ attempt[c] <= MaxRetries
       THEN /\ pc' = [pc EXCEPT ![c] = "backoff"]
            /\ attempt' = [attempt EXCEPT ![c] = @ + 1]
       ELSE /\ pc' = [pc EXCEPT ![c] = IF status = "ok" THEN "ok" ELSE "err"]
            /\ UNCHANGED attempt
    /\ UNCHANGED <<cancelled, post>>

\* Fault: the body of a status that is no error is taken for a signature.
EndedAnyStatus(c, status) ==
    /\ seen' = [seen EXCEPT ![c] = Append(@, status)]
    /\ reply' = [reply EXCEPT ![c] = "none"]
    /\ IF Retried(status) /\ attempt[c] < MaxRetries
       THEN /\ pc' = [pc EXCEPT ![c] = "backoff"]
            /\ attempt' = [attempt EXCEPT ![c] = @ + 1]
       ELSE /\ pc' = [pc EXCEPT ![c] = IF status \in {"ok", "other"} THEN "ok" ELSE "err"]
            /\ UNCHANGED attempt
    /\ UNCHANGED <<cancelled, post>>

\* The attempt ended with status: return, try again after a backoff, or give up.
Ended(c, status) ==
    /\ seen' = [seen EXCEPT ![c] = Append(@, status)]
    /\ reply' = [reply EXCEPT ![c] = "none"]
    /\ IF Retried(status) /\ attempt[c] < MaxRetries
       THEN /\ pc' = [pc EXCEPT ![c] = "backoff"]
            /\ attempt' = [attempt EXCEPT ![c] = @ + 1]
       ELSE /\ pc' = [pc EXCEPT ![c] = IF status = "ok" THEN "ok" ELSE "err"]
            /\ UNCHANGED attempt
    /\ UNCHANGED <<cancelled, post>>

\* Fault: an http.Client without a timeout.
NetworkErrorNoTimeout(c) ==
    /\ pc[c] = "send" \/ (pc[c] = "wait" /\ cancelled[c])
    /\ Ended(c, "lost")

\* Do fails: no connection (before the request is written), a broken one, the
\* client's timeout, or the context.  A response on its way is not read.
NetworkError(c) ==
    /\ pc[c] \in {"send", "wait"}
    /\ Ended(c, "lost")

Receive(c) ==
    /\ pc[c] = "wait"
    /\ reply[c] # "none"
    /\ Ended(c, reply[c])

\* The backoff timer fires.
BackoffOver(c) ==
    /\ pc[c] = "backoff"
    /\ pc' = [pc EXCEPT ![c] = "send"]
    /\ UNCHANGED <<attempt, cancelled, seen, reply, post>>

\* ctx.Done() wins the select of the backoff.
BackoffCancelled(c) ==
    /\ pc[c] = "backoff"
    /\ cancelled[c]
    /\ pc' = [pc EXCEPT ![c] = "err"]
    /\ UNCHANGED <<attempt, cancelled, seen, reply, post>>

\* The deadline of the caller's context passes.
Cancel(c) ==
    /\ c \in Cancellable
    /\ ~cancelled[c]
    /\ cancelled' = [cancelled EXCEPT ![c] = TRUE]
    /\ UNCHANGED <<pc, attempt, seen, reply, post>>

-----------------------------------------------------------------------------
(* The service: it executes a request or drops it, now or long after the   *)
(* client stopped waiting, and answers only a client that still waits.  It *)
(* answers 200 to what it executed, and does not execute what it refuses.  *)

Process(c, k, status, result) ==
    /\ post[c][k] = "sent"
    /\ status = "ok" => result = "executed"
    /\ status \in {"refused", "busy"} => result = "dropped"
    /\ post' = [post EXCEPT ![c][k] = result]
    /\ reply' = IF pc[c] = "wait" /\ attempt[c] = k
                THEN [reply EXCEPT ![c] = status] ELSE reply
    /\ UNCHANGED <<pc, attempt, cancelled, seen>>

-----------------------------------------------------------------------------
Trade(c) == Send(c) \/ NetworkError(c) \/ Receive(c) \/ BackoffOver(c) \/ BackoffCancelled(c)

Next ==
    \E c \in Calls :
       \/ Trade(c)
       \/ Cancel(c)
       \/ \E k \in Attempts, status \in Statuses, result \in {"executed", "dropped"} :
             Process(c, k, status, result)

Spec == Init /\ [][Next]_vars

\* The goroutine of a call runs, and every wait in it has a timeout.
FairSpec == Spec /\ \A c \in Calls : WF_vars(Trade(c))

-----------------------------------------------------------------------------
(* Properties.                                                             *)

Executions(c) == Cardinality({k \in Attempts : post[c][k] = "executed"})

\* The trade of one call is executed twice only when the client could not know
\* better: every executed attempt but the last one was answered with a network
\* or server error (client.go:60-66, 73-78), never with a status that said it
\* was executed or that it never would be.
RepeatedOnlyInDoubt ==
    \A c \in Calls : \A k \in Attempts :
       post[c][k] = "executed" /\ k + 1 <= Len(seen[c])
          => \/ seen[c][k + 1] \in {"lost", "server", "other"}
             \/ seen[c][k + 1] = "ok" /\ k + 1 = Len(seen[c])

\* The call is a TradeCall.
Call == INSTANCE TradeCall WITH
           Limit      <- MaxRetries + 1,
           outcome    <- [c \in Calls |-> IF Returned(c) THEN pc[c] ELSE "pending"],
           executions <- [c \in Calls |-> Executions(c)]

\* A signature means an execution, and none is executed too often (the loop
\* bound of client.go:41), whatever is lost and however late it arrives.
ImplementsTradeCall == Call!Spec

\* Every call returns, so that the lock its caller holds is released.
CallReturns == \A c \in Calls : <>Returned(c)
=============================================================================
