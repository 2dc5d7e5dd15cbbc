----------------------------- MODULE TradeStore -----------------------------
(***************************************************************************)
(* The trade store (internal/store/store.go): a bounded queue, and one     *)
(* goroutine that collects rows into a batch and copies it to Postgres     *)
(* when it is full or a ticker fires.  A COPY is atomic: it stores the     *)
(* whole batch or nothing, and the batch is forgotten in both cases.       *)
(* A row is the number of its event.                                       *)
(***************************************************************************)
EXTENDS Integers, Sequences, SequencesExt

CONSTANTS
    QueueCap,    \* capacity of Store.queue, 8192 in the code
    FlushSize    \* flushSize, 500 in the code

ASSUME StoreAssumption == QueueCap \in Nat \ {0} /\ FlushSize \in Nat \ {0}

VARIABLES
    queue,     \* Store.queue
    batch,     \* the writer's batch
    trades,    \* the rows of table trades, in the order of the COPYs
    unstored,  \* history: rows that were given up
    accepted   \* history: rows EnqueueTrade has taken

storeVars == <<queue, batch, trades, unstored, accepted>>

StoreTypeOK ==
    /\ queue \in Seq(Nat) /\ Len(queue) <= QueueCap
    /\ batch \in Seq(Nat) /\ Len(batch) <= FlushSize
    /\ trades \in Seq(Nat)
    /\ unstored \subseteq Nat /\ accepted \subseteq Nat

StoreInit ==
    /\ queue = << >> /\ batch = << >> /\ trades = << >>
    /\ unstored = {} /\ accepted = {}

\* Fault: a full queue loses the row.
EnqueueTradeDrops(n) ==
    /\ queue' = IF Len(queue) < QueueCap THEN Append(queue, n) ELSE queue
    /\ accepted' = accepted \cup {n}
    /\ UNCHANGED <<batch, trades, unstored>>

\* EnqueueTrade waits while the queue is full.
EnqueueTrade(n) ==
    /\ Len(queue) < QueueCap
    /\ queue' = Append(queue, n)
    /\ accepted' = accepted \cup {n}
    /\ UNCHANGED <<batch, trades, unstored>>

\* Fault: a failed batch is kept and grows on.
FlushedKeepsFailed(rows) ==
    \/ /\ trades' = trades \o rows
       /\ batch' = << >>
       /\ UNCHANGED unstored
    \/ /\ batch' = rows
       /\ UNCHANGED <<trades, unstored>>

\* Fault: the batch is not cut after a successful COPY.
FlushedTwice(rows) ==
    \/ /\ trades' = trades \o rows
       /\ batch' = IF Len(rows) < FlushSize THEN rows ELSE << >>
       /\ UNCHANGED unstored
    \/ /\ unstored' = unstored \cup ToSet(rows)
       /\ batch' = << >>
       /\ UNCHANGED trades

\* flush: copyTrades succeeds or fails.  A COPY that commits although its answer
\* is lost is a success: but for the log the code does the same.
Flushed(rows) ==
    /\ batch' = << >>
    /\ \/ /\ trades' = trades \o rows
          /\ UNCHANGED unstored
       \/ /\ unstored' = unstored \cup ToSet(rows)
          /\ UNCHANGED trades

\* Fault: a full batch is flushed without the row that filled it.
CollectLosesLast ==
    LET rows == Append(batch, Head(queue))
    IN  /\ queue # << >>
        /\ queue' = Tail(queue)
        /\ IF Len(rows) >= FlushSize
           THEN Flushed(batch)
           ELSE batch' = rows /\ UNCHANGED <<trades, unstored>>
        /\ UNCHANGED accepted

\* The writer takes a row; a full batch is flushed.
Collect ==
    LET rows == Append(batch, Head(queue))
    IN  /\ queue # << >>
        /\ queue' = Tail(queue)
        /\ IF Len(rows) >= FlushSize
           THEN Flushed(rows)
           ELSE batch' = rows /\ UNCHANGED <<trades, unstored>>
        /\ UNCHANGED accepted

\* Fault: the ticker waits for a batch of at least two rows.
TickLarge ==
    /\ Len(batch) >= 2
    /\ Flushed(batch)
    /\ UNCHANGED <<queue, accepted>>

\* The ticker fires.
Tick ==
    /\ batch # << >>
    /\ Flushed(batch)
    /\ UNCHANGED <<queue, accepted>>

\* The process dies with what it had in memory.
StoreCrash ==
    /\ queue' = << >>
    /\ batch' = << >>
    /\ unstored' = unstored \cup ToSet(queue) \cup ToSet(batch)
    /\ UNCHANGED <<trades, accepted>>
=============================================================================
