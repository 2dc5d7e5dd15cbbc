-------------------------- MODULE MintSubscriptions --------------------------
(***************************************************************************)
(* Which mints the ingester watches: the portal client                     *)
(* (internal/portal/client.go), the pruner (internal/pruner) and the       *)
(* handler of cmd/pumpy-ingest, with the rows of the tokens table they     *)
(* read and write (internal/store/store.go).                               *)
(*                                                                         *)
(* Threads.  The reader runs Client.Run: it dials, subscribes, and calls   *)
(* the handler for one message after the other.  The pruner ticks.  Each   *)
(* critical section of Client.mu, each SQL statement and each message      *)
(* written is a step.  A write to a lost connection has no effect; its     *)
(* error is ignored or logged.  connect writes without the mutex: a write  *)
(* of the pruner at the same time makes the WebSocket library panic, which *)
(* is one of the reasons for a Restart.                                    *)
(*                                                                         *)
(* External.  The feed sends the creation and the migration of every mint, *)
(* and the trades of the subscribed ones, as long as the connection lives. *)
(* A mint is created once and migrates at most once.                       *)
(***************************************************************************)
EXTENDS Integers, FiniteSets

CONSTANTS
    Mints,
    NoMint,
    ChunkSize     \* mints of one message of connect, 100 in the code

ASSUME SubscriptionAssumption ==
    /\ NoMint \notin Mints
    /\ ChunkSize \in Nat \ {0}

VARIABLES
    chain,      \* chain[m]: "unborn", "live" or "migrated"
    row,        \* row[m] of tokens: "none", "fresh" (last_trade_at within 24 h), "old"
    marked,     \* mints with a migrated_at
    late,       \* mints with a goroutine of OnTrade that has not updated the row
    active,     \* Client.activeMints
    open,       \* Client.conn is not nil
    alive,      \* the last connection still works
    subs,       \* mints the feed has subscribed on it
    reader,     \* the reader goroutine
    pruner,     \* the pruner goroutine
    dropped,    \* history: mints the pruner took out of the active set
    told        \* history: mints of whose migration the process was told

client == <<active, open>>
link == <<alive, subs>>
db == <<row, marked, late>>
history == <<dropped, told>>
vars == <<chain, db, client, link, reader, pruner, history>>

ReaderSteps == {"dial", "announce", "resubscribe", "read",
                "add", "subscribe", "remove", "unsubscribe"}

NewReader == [pc |-> "dial", mint |-> NoMint, todo |-> {}]
NewPruner == [pc |-> "wait", mints |-> {}, conn |-> "nil"]

\* The client holds a connection exactly while connect runs.
TypeOK ==
    /\ chain \in [Mints -> {"unborn", "live", "migrated"}]
    /\ row \in [Mints -> {"none", "fresh", "old"}]
    /\ marked \subseteq Mints /\ late \subseteq Mints
    /\ active \subseteq Mints
    /\ open = (reader.pc # "dial")
    /\ alive \in BOOLEAN
    /\ subs \subseteq Mints
    /\ reader \in [pc : ReaderSteps, mint : Mints \cup {NoMint}, todo : SUBSET Mints]
    /\ pruner \in [pc : {"wait", "queried", "stale", "unsubscribe"},
                   mints : SUBSET Mints, conn : {"nil", "current", "old"}]
    /\ dropped \subseteq Mints /\ told \subseteq Mints

Init ==
    /\ chain = [m \in Mints |-> "unborn"]
    /\ row = [m \in Mints |-> "none"]
    /\ marked = {}
    /\ late = {}
    /\ active = {}
    /\ open = FALSE
    /\ alive = FALSE
    /\ subs = {}
    /\ reader = NewReader
    /\ pruner = NewPruner
    /\ dropped = {}
    /\ told = {}

\* Fault: the query forgets migrated_at IS NULL.
ActiveRowsMigratedToo == {m \in Mints : row[m] = "fresh"}

\* Store.ActiveMints.
ActiveRows == {m \in Mints : row[m] = "fresh" /\ m \notin marked}

-----------------------------------------------------------------------------
(* The world: the feed, the network and the clock.                         *)

\* A mint is created or migrates while no one is there to hear of it.
Unheard(m) ==
    /\ ~(alive /\ reader.pc \notin {"dial", "announce"})
    /\ chain[m] # "migrated"
    /\ chain' = [chain EXCEPT ![m] =
                   IF @ = "unborn" THEN "live" ELSE "migrated"]
    /\ UNCHANGED <<db, client, link, reader, pruner, history>>

LoseConnection ==
    /\ alive
    /\ alive' = FALSE
    /\ subs' = {}
    /\ UNCHANGED <<chain, db, client, reader, pruner, history>>

\* 24 hours have passed since the last trade of m that was recorded.
Lapse(m) ==
    /\ row[m] = "fresh"
    /\ row' = [row EXCEPT ![m] = "old"]
    /\ UNCHANGED <<chain, marked, late, client, link, reader, pruner, history>>

-----------------------------------------------------------------------------
(* connect.                                                                *)

\* Fault: only what is subscribed later on is sent.
DialForgetsActive ==
    /\ reader.pc = "dial"
    /\ open' = TRUE
    /\ alive' = TRUE
    /\ subs' = {}
    /\ reader' = [reader EXCEPT !.pc = "announce", !.todo = {}]
    /\ pruner' = [pruner EXCEPT !.conn = IF @ = "current" THEN "old" ELSE @]
    /\ UNCHANGED <<chain, db, active, history>>

\* The connection is made; in one critical section it is published and the
\* active set is copied.  What the pruner holds is now an old connection.
Dial ==
    /\ reader.pc = "dial"
    /\ open' = TRUE
    /\ alive' = TRUE
    /\ subs' = {}
    /\ reader' = [reader EXCEPT !.pc = "announce", !.todo = active]
    /\ pruner' = [pruner EXCEPT !.conn = IF @ = "current" THEN "old" ELSE @]
    /\ UNCHANGED <<chain, db, active, history>>

\* subscribeNewToken and subscribeMigration.
Announce ==
    /\ reader.pc = "announce"
    /\ reader' = [reader EXCEPT !.pc = IF reader.todo = {} THEN "read" ELSE "resubscribe"]
    /\ UNCHANGED <<chain, db, client, link, pruner, history>>

\* Fault: one message, whatever does not fit is left out.
ResubscribeOnce(chunk) ==
    /\ reader.pc = "resubscribe"
    /\ chunk \subseteq reader.todo
    /\ Cardinality(chunk) = ChunkSize \/ (chunk = reader.todo /\ Cardinality(chunk) < ChunkSize)
    /\ subs' = IF alive THEN subs \cup chunk ELSE subs
    /\ reader' = [reader EXCEPT !.todo = {}, !.pc = "read"]
    /\ UNCHANGED <<chain, db, client, alive, pruner, history>>

\* One subscribeTokenTrade of the loop over the copy.
Resubscribe(chunk) ==
    /\ reader.pc = "resubscribe"
    /\ chunk \subseteq reader.todo
    /\ Cardinality(chunk) = ChunkSize \/ (chunk = reader.todo /\ Cardinality(chunk) < ChunkSize)
    /\ subs' = IF alive THEN subs \cup chunk ELSE subs
    /\ reader' = [reader EXCEPT !.todo = @ \ chunk,
                                !.pc = IF chunk = reader.todo THEN "read" ELSE @]
    /\ UNCHANGED <<chain, db, client, alive, pruner, history>>

\* Fault: the lost connection stays in the client.
DisconnectKeepsConn ==
    /\ reader.pc = "read"
    /\ ~alive
    /\ reader' = [reader EXCEPT !.pc = "dial"]
    /\ UNCHANGED <<chain, db, client, link, pruner, history>>

\* ReadMessage fails and the deferred function runs; Run dials again.
Disconnect ==
    /\ reader.pc = "read"
    /\ ~alive
    /\ open' = FALSE
    /\ reader' = [reader EXCEPT !.pc = "dial"]
    /\ UNCHANGED <<chain, db, active, link, pruner, history>>

-----------------------------------------------------------------------------
(* The handler.                                                            *)

\* OnNewToken: UpsertToken, whose error is only logged.
OnNewToken(m) ==
    /\ reader.pc = "read" /\ alive
    /\ chain[m] = "unborn"
    /\ chain' = [chain EXCEPT ![m] = "live"]
    /\ row' \in {row, [row EXCEPT ![m] = "fresh"]}
    /\ reader' = [reader EXCEPT !.pc = "add", !.mint = m]
    /\ UNCHANGED <<marked, late, client, link, pruner, history>>

\* SubscribeToken: first the set, then the message.
AddActive ==
    /\ reader.pc = "add"
    /\ active' = active \cup {reader.mint}
    /\ reader' = [reader EXCEPT !.pc = "subscribe"]
    /\ UNCHANGED <<chain, db, open, link, pruner, history>>

Subscribe ==
    /\ reader.pc = "subscribe"
    /\ subs' = IF alive THEN subs \cup {reader.mint} ELSE subs
    /\ reader' = [reader EXCEPT !.pc = "read"]
    /\ UNCHANGED <<chain, db, client, alive, pruner, history>>

\* OnTrade starts a goroutine ...
OnTrade(m) ==
    /\ reader.pc = "read"
    /\ m \in subs
    /\ chain[m] = "live"
    /\ late' = late \cup {m}
    /\ UNCHANGED <<chain, row, marked, client, link, reader, pruner, history>>

\* ... that runs UpdateLastTrade at some time: it may fail, and updates no row
\* that is not there.
UpdateLastTrade(m) ==
    /\ m \in late
    /\ late' = late \ {m}
    /\ row' \in {row, IF row[m] = "none" THEN row ELSE [row EXCEPT ![m] = "fresh"]}
    /\ UNCHANGED <<chain, marked, client, link, reader, pruner, history>>

\* Fault: the handler returns when MarkMigrated fails.
OnMigrationReturns(m) ==
    /\ reader.pc = "read" /\ alive
    /\ chain[m] = "live"
    /\ chain' = [chain EXCEPT ![m] = "migrated"]
    /\ marked' \in {marked, IF row[m] = "none" THEN marked ELSE marked \cup {m}}
    /\ told' = told \cup {m}
    /\ reader' = IF m \in marked' THEN [reader EXCEPT !.pc = "remove", !.mint = m] ELSE reader
    /\ UNCHANGED <<row, late, client, link, pruner, dropped>>

\* OnMigration: MarkMigrated, whose error is only logged.
OnMigration(m) ==
    /\ reader.pc = "read" /\ alive
    /\ chain[m] = "live"
    /\ chain' = [chain EXCEPT ![m] = "migrated"]
    /\ marked' \in {marked, IF row[m] = "none" THEN marked ELSE marked \cup {m}}
    /\ told' = told \cup {m}
    /\ reader' = [reader EXCEPT !.pc = "remove", !.mint = m]
    /\ UNCHANGED <<row, late, client, link, pruner, dropped>>

\* UnsubscribeToken: first the set, then the message.
RemoveActive ==
    /\ reader.pc = "remove"
    /\ active' = active \ {reader.mint}
    /\ reader' = [reader EXCEPT !.pc = "unsubscribe"]
    /\ UNCHANGED <<chain, db, open, link, pruner, history>>

Unsubscribe ==
    /\ reader.pc = "unsubscribe"
    /\ subs' = subs \ {reader.mint}
    /\ reader' = [reader EXCEPT !.pc = "read"]
    /\ UNCHANGED <<chain, db, client, alive, pruner, history>>

-----------------------------------------------------------------------------
(* The pruner: pruneInactiveMints.                                         *)

\* The database is asked first ...
PruneQuery ==
    /\ pruner.pc = "wait"
    /\ pruner' = [pruner EXCEPT !.pc = "queried", !.mints = ActiveRows]
    /\ UNCHANGED <<chain, db, client, link, reader, history>>

\* ... then the client, in a critical section of its own.
PruneCompare ==
    LET stale == active \ pruner.mints
    IN  /\ pruner.pc = "queried"
        /\ pruner' = IF stale = {} THEN NewPruner
                     ELSE [pruner EXCEPT !.pc = "stale", !.mints = stale]
        /\ UNCHANGED <<chain, db, client, link, reader, history>>

\* UnsubscribeToken: the set ...
PruneRemove ==
    /\ pruner.pc = "stale"
    /\ active' = active \ pruner.mints
    /\ dropped' = dropped \cup pruner.mints
    /\ pruner' = IF open THEN [pruner EXCEPT !.pc = "unsubscribe", !.conn = "current"]
                 ELSE NewPruner
    /\ UNCHANGED <<chain, db, open, link, reader, told>>

\* ... and the message, on the connection of that moment.
PruneUnsubscribe ==
    /\ pruner.pc = "unsubscribe"
    /\ subs' = IF pruner.conn = "current" THEN subs \ pruner.mints ELSE subs
    /\ pruner' = NewPruner
    /\ UNCHANGED <<chain, db, client, alive, reader, history>>

-----------------------------------------------------------------------------
\* SetActiveMints replaces the whole set.
SetActiveMints(mints) == active' = mints

\* Fault: the active set is not read from the database.
RestartEmpty ==
    /\ active' = {}
    /\ open' = FALSE
    /\ alive' = FALSE
    /\ subs' = {}
    /\ reader' = NewReader
    /\ pruner' = NewPruner
    /\ late' = {}
    /\ dropped' = {} /\ told' = {}
    /\ UNCHANGED <<chain, row, marked>>

\* The process dies and is started again: main reads the active set from the
\* database before the reader and the pruner start.  An update on its way is
\* done by then or never.
Restart ==
    /\ SetActiveMints(ActiveRows)
    /\ open' = FALSE
    /\ alive' = FALSE
    /\ subs' = {}
    /\ reader' = NewReader
    /\ pruner' = NewPruner
    /\ late' = {}
    /\ dropped' = {} /\ told' = {}
    /\ UNCHANGED <<chain, row, marked>>

Connect == Dial \/ Announce \/ (\E chunk \in SUBSET Mints : Resubscribe(chunk)) \/ Disconnect

Handle == AddActive \/ Subscribe \/ RemoveActive \/ Unsubscribe

Prune == PruneQuery \/ PruneCompare \/ PruneRemove \/ PruneUnsubscribe

Next ==
    \/ \E m \in Mints : Unheard(m) \/ Lapse(m) \/ OnNewToken(m) \/ OnMigration(m)
    \/ \E m \in Mints : OnTrade(m) \/ UpdateLastTrade(m)
    \/ LoseConnection
    \/ Connect \/ Handle \/ Prune \/ Restart

Spec == Init /\ [][Next]_vars

\* The reader goroutine runs: dialing succeeds in the end, and the handler
\* returns.
FairSpec == Spec /\ WF_vars(Connect \/ Handle)

-----------------------------------------------------------------------------
(* Properties.                                                             *)

\* Whenever the reader waits for the next message of a working connection the
\* feed has every active mint subscribed on it (client.go:44-60, 126-151), for
\* all that the pruner does between the steps of connect and of the handler,
\* and with whatever old connection.
ActiveSubscribed == reader.pc = "read" /\ alive => active \subseteq subs

\* A mint whose migration is in the database is not watched any more, or is
\* about to be unsubscribed, also after any restart; and so is one whose
\* migration this process was told of, when MarkMigrated failed (main.go:118-124,
\* store.go:91-96).
MigratedUnwatched ==
    \A m \in marked \cup told : m \in active => reader.pc = "remove" /\ reader.mint = m

\* What the database calls active is watched (main.go:32-45, 63-86), through
\* reconnects, restarts and failed statements, unless the pruner dropped it.
FreshWatched ==
    \A m \in ActiveRows :
       chain[m] = "live" => \/ m \in active
                            \/ reader.pc = "add" /\ reader.mint = m
                            \/ m \in dropped

\* Once connections and the process hold, every active mint gets subscribed.
Resubscribes ==
    (<>[][~LoseConnection /\ ~Restart]_vars)
       => \A m \in Mints : m \in active ~> (m \in subs \/ m \notin active)
=============================================================================
