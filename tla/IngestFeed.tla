------------------------------ MODULE IngestFeed ------------------------------
(***************************************************************************)
(* The way of an event through the ingester: the reader of the portal      *)
(* client (internal/portal/client.go, dispatch) calls the handlers in the  *)
(* order main registered them, first the ingest handler, which queues a    *)
(* row for the store, then the fanout server, which sends it to the bot.   *)
(* The reader handles one event at a time, so a full queue holds it up.    *)
(* Events are numbered as they are read; a migration, which is not stored, *)
(* is left out.                                                            *)
(***************************************************************************)
EXTENDS TradeStore, EventFanout

CONSTANT MaxEvents    \* BOUND: events read

ASSUME FeedAssumption == MaxEvents \in Nat

VARIABLES
    read,      \* events read from the WebSocket so far
    handling   \* what the reader does with the last: "none", "store", "fanout"

vars == <<read, handling, storeVars, fanoutVars>>

TypeOK ==
    /\ read \in 0..MaxEvents
    /\ handling \in {"none", "store", "fanout"}
    /\ StoreTypeOK
    /\ FanoutTypeOK

Init ==
    /\ read = 0
    /\ handling = "none"
    /\ StoreInit
    /\ FanoutInit

ReadMessage ==
    /\ handling = "none"
    /\ read < MaxEvents
    /\ read' = read + 1
    /\ handling' = "store"
    /\ UNCHANGED <<storeVars, fanoutVars>>

\* The ingest handler.
HandleStore ==
    /\ handling = "store"
    /\ EnqueueTrade(read)
    /\ handling' = "fanout"
    /\ UNCHANGED <<read, fanoutVars>>

\* The fanout server.
HandleFanout ==
    /\ handling = "fanout"
    /\ Broadcast(read)
    /\ handling' = "none"
    /\ UNCHANGED <<read, storeVars>>

\* The ingester dies and is started again; an event it was handling is not
\* read a second time.
Crash ==
    /\ handling' = "none"
    /\ StoreCrash
    /\ FanoutCrash
    /\ UNCHANGED read

Reader == ReadMessage \/ HandleStore \/ HandleFanout

\* The two cases of the writer's select.
WriterCollects == Collect /\ UNCHANGED <<read, handling, fanoutVars>>
WriterTicks == Tick /\ UNCHANGED <<read, handling, fanoutVars>>

Next ==
    \/ Reader
    \/ WriterCollects \/ WriterTicks
    \/ Fanout /\ UNCHANGED <<read, handling, storeVars>>
    \/ Crash

Spec == Init /\ [][Next]_vars

\* The goroutines of the ingester run, a COPY returns, and select neglects
\* neither case.  Nothing is assumed of the bot, of its connections or of the
\* goroutines that serve them.
FairSpec ==
    Spec /\ WF_vars(Reader) /\ WF_vars(WriterCollects) /\ WF_vars(WriterTicks)

-----------------------------------------------------------------------------
(* Properties.                                                             *)

Waiting == ToSet(queue) \cup ToSet(batch)

\* Every event that EnqueueTrade took is in the table, in the batch, in the queue,
\* or among those given up by a failed COPY or a crash (store.go:69-71, 121-152),
\* in only one of these places and there once; the rows come in the order of the
\* events.
StoredOnce ==
    LET rows == trades \o batch \o queue
    IN  /\ accepted = ToSet(rows) \cup unstored
        /\ \A i, j \in 1..Len(rows) : i < j => rows[i] < rows[j]
        /\ ToSet(rows) \cap unstored = {}

\* The bot is never ahead of the store: an event it sees was queued before, and
\* is stored unless the store gave it up (main.go:43, client.go:184-193).
BotBehindStore == ToSet(got) \subseteq ToSet(trades) \cup Waiting \cup unstored

\* To the bot the feed is a channel that loses events but neither repeats nor
\* reorders them, over any number of reconnects and restarts.
Feed == INSTANCE LossyChannel WITH
           sent     <- read,
           channel  <- OnTheWay \o (IF handling = "none" THEN << >> ELSE <<read>>),
           received <- got

ImplementsChannel == Feed!Spec

\* No trade waits forever for a batch to fill up (store.go:145-146), and a slow
\* or dead bot never holds up the reader of the ingester (server.go:79-83).
NothingWaitsForever ==
    \A n \in 1..MaxEvents : /\ n \in Waiting ~> n \notin Waiting
                            /\ read = n ~> (read = n /\ handling = "none")
=============================================================================
