------------------------------ MODULE TradeTable ------------------------------
(***************************************************************************)
(* The partitioned table trades (internal/store/schema.go), the daemons    *)
(* that migrate it when they start (cmd/pumpy-ingest, cmd/pumpy-crawl) and *)
(* the pruner that adds a partition for every day to come and drops the    *)
(* old ones (internal/pruner).                                             *)
(*                                                                         *)
(* Time is counted in ticks, TicksPerDay to the day, so that a window of   *)
(* whole days can end in the middle of one.  A statement may fail and a    *)
(* daemon may die at any time.  The queue and the batch of the store are   *)
(* in TradeStore; here they are one set of rows on their way.              *)
(*                                                                         *)
(* External.  trades is what will happen on pump.fun, each trade as its    *)
(* row would be, with the time at which it is made.                        *)
(***************************************************************************)
EXTENDS Integers, Sequences, FiniteSets

CONSTANTS
    Daemons,       \* processes that call ApplySchema when they start
    Ingest,        \* the one that captures trades and runs the pruner
    NoDaemon,
    TicksPerDay,
    AheadDays,     \* days EnsurePartitions works ahead, 7 in the code
    SweepDays,     \* days DropOldPartitions looks back, 30 in the code
    RetainDays,    \* RETAIN_DAYS
    Traders,
    Mints,
    Histories,     \* the trades that may be made, in the order of time
    MaxTime,       \* BOUND: ticks
    MaxFaults      \* BOUND: deaths and failed statements

ASSUME TableAssumption ==
    /\ Ingest \in Daemons
    /\ NoDaemon \notin Daemons
    /\ TicksPerDay \in Nat \ {0}
    /\ AheadDays \in Nat
    /\ SweepDays \in Nat
    /\ RetainDays \in Nat \ {0}
    /\ MaxTime \in Nat
    /\ MaxFaults \in Nat

Row == [n : Nat \ {0}, at : Nat, trader : Traders, mint : Mints,
        side : {"buy", "sell", "create"}, sol : Nat, tokens : Nat, bal : Nat]

ASSUME HistoryAssumption ==
    \A h \in Histories :
       /\ h \in Seq(Row)
       /\ \A i \in DOMAIN h : h[i].n = i /\ h[i].at >= TicksPerDay
       /\ \A i, j \in DOMAIN h : i < j => h[i].at <= h[j].at

VARIABLES
    now,       \* the time, in ticks
    trades,    \* external: a member of Histories
    made,      \* how many of them have been made
    batch,     \* numbers of the trades queued or in the writer's batch
    rows,      \* numbers of the trades stored in the table
    version,   \* MAX(version) of schema_version, 0 without one
    lock,      \* session that holds pg_advisory_lock(8675309)
    parts,     \* days that have a partition
    daemon,    \* daemon[d]: how far d is with its start, and the version it read
    ensured,   \* history: the day EnsurePartitions last got to its end
    swept,     \* history: the cutoff day of the last complete sweep
    lapsed,    \* history: a sweep began above the cutoff of the one before
    faults     \* BOUND: faults so far

table == <<trades, made, batch, rows>>
schema == <<version, lock, parts, daemon>>
history == <<ensured, swept, lapsed>>
vars == <<now, table, schema, history, faults>>

Day(t) == t \div TicksPerDay

DayOf(n) == Day(trades[n].at)

TypeOK ==
    /\ now \in Nat
    /\ trades \in Histories
    /\ made \in 0..Len(trades)
    /\ batch \subseteq 1..made
    /\ rows \subseteq 1..made
    /\ batch \cap rows = {}
    /\ version \in 0..2
    /\ lock \in Daemons \cup {NoDaemon}
    /\ parts \subseteq Int
    /\ version = 0 => parts = {}
    /\ \A n \in rows : DayOf(n) \in parts
    /\ daemon \in [Daemons -> [pc : {"down", "lock", "v1", "v2", "partitions", "up"},
                               current : 0..2]]
    /\ \A d \in Daemons : daemon[d].pc \in {"v1", "v2", "partitions"} <=> lock = d
    /\ ensured \in Int
    /\ swept \in Int
    /\ lapsed \in BOOLEAN
    /\ faults \in 0..MaxFaults

Down == [pc |-> "down", current |-> 0]

Init ==
    /\ now = TicksPerDay
    /\ trades \in Histories
    /\ made = 0 /\ batch = {} /\ rows = {}
    /\ version = 0
    /\ lock = NoDaemon
    /\ parts = {}
    /\ daemon = [d \in Daemons |-> Down]
    /\ ensured = -AheadDays
    /\ swept = 1 - RetainDays
    /\ lapsed = FALSE
    /\ faults = 0

\* One more fault.
Fault ==
    /\ faults < MaxFaults
    /\ faults' = faults + 1

-----------------------------------------------------------------------------
(* Trades come in and are copied.                                          *)

\* The next trade is made; OnTrade or OnNewToken queues its row, if the ingester
\* is up.
Trade ==
    /\ made < Len(trades)
    /\ trades[made + 1].at = now
    /\ made' = made + 1
    /\ batch' = IF daemon[Ingest].pc = "up" THEN batch \cup {made + 1} ELSE batch
    /\ UNCHANGED <<now, trades, rows, schema, history, faults>>

\* copyTrades: the rows are stored, all of them or none.  A row of a day that
\* has no partition fails the COPY.
Copy ==
    /\ batch # {}
    /\ batch' = {}
    /\ \/ /\ \A n \in batch : DayOf(n) \in parts
          /\ rows' = rows \cup batch
          /\ UNCHANGED faults
       \/ /\ \E n \in batch : DayOf(n) \notin parts
          /\ UNCHANGED <<rows, faults>>
       \/ Fault /\ UNCHANGED rows
    /\ UNCHANGED <<now, trades, made, schema, history>>

\* Time passes.  The writer flushes every half second: no row waits for two
\* ticks.
Tick ==
    /\ now < MaxTime
    /\ made < Len(trades) => trades[made + 1].at > now
    /\ \A n \in batch : trades[n].at = now
    /\ now' = now + 1
    /\ UNCHANGED <<table, schema, history, faults>>

-----------------------------------------------------------------------------
(* Partitions.                                                             *)

\* Fault: today is the last day.
EnsureDaysToday == (Day(now) - 1)..Day(now)

\* The days EnsurePartitions goes through.
EnsureDays == (Day(now) - 1)..(Day(now) + AheadDays)

\* EnsurePartitions gets as far as the partition of day last.
Ensured(last) == parts \cup {d \in EnsureDays : d <= last}

EnsureReaches == (Day(now) - 2)..(Day(now) + AheadDays)

CutoffDay == Day(now - RetainDays * TicksPerDay)

\* Fault: the cutoff day is dropped as well.
SweptDaysInclusive == (CutoffDay - SweepDays)..CutoffDay

\* The days DropOldPartitions goes through, oldest first.
SweptDays == (CutoffDay - SweepDays)..(CutoffDay - 1)

SweepReaches == (CutoffDay - SweepDays - 1)..CutoffDay

\* Pruner.tick: EnsurePartitions and DropOldPartitions each stop at their first
\* error.  pruneInactiveMints is in MintSubscriptions.
PrunerTick ==
    /\ daemon[Ingest].pc = "up"
    /\ \E last \in EnsureReaches, dropped \in SweepReaches :
          LET gone == {d \in SweptDays : d <= dropped}
              ahead == last = Day(now) + AheadDays
              full == gone = SweptDays
          IN  /\ parts' = Ensured(last) \ gone
              /\ rows' = {n \in rows : DayOf(n) \notin gone}
              /\ ensured' = IF ahead THEN Day(now) ELSE ensured
              /\ swept' = IF full THEN CutoffDay ELSE swept
              /\ lapsed' = (lapsed \/ (full /\ CutoffDay - SweepDays > swept))
              /\ IF ahead /\ full THEN UNCHANGED faults ELSE Fault
    /\ UNCHANGED <<now, trades, made, batch, version, lock, daemon>>

-----------------------------------------------------------------------------
(* Start: ApplySchema.                                                     *)

\* CREATE TABLE IF NOT EXISTS schema_version, and a connection of its own.
Start(d) ==
    /\ daemon[d].pc = "down"
    /\ daemon' = [daemon EXCEPT ![d].pc = "lock"]
    /\ UNCHANGED <<now, table, version, lock, parts, history, faults>>

\* Fault: nobody waits for the lock.
LockShared(d) ==
    /\ daemon[d].pc = "lock"
    /\ lock' = d
    /\ daemon' = [daemon EXCEPT ![d] = [pc |-> "v1", current |-> version]]
    /\ UNCHANGED <<now, table, version, parts, history, faults>>

\* The session gets the advisory lock and reads the version.
Lock(d) ==
    /\ daemon[d].pc = "lock"
    /\ lock = NoDaemon
    /\ lock' = d
    /\ daemon' = [daemon EXCEPT ![d] = [pc |-> "v1", current |-> version]]
    /\ UNCHANGED <<now, table, version, parts, history, faults>>

ApplyV1(d) ==
    /\ daemon[d].pc = "v1"
    /\ version' = IF daemon[d].current < 1 THEN 1 ELSE version
    /\ daemon' = [daemon EXCEPT ![d].pc = "v2"]
    /\ UNCHANGED <<now, table, lock, parts, history, faults>>

ApplyV2(d) ==
    /\ daemon[d].pc = "v2"
    /\ version' = IF daemon[d].current < 2 THEN 2 ELSE version
    /\ daemon' = [daemon EXCEPT ![d].pc = "partitions"]
    /\ UNCHANGED <<now, table, lock, parts, history, faults>>

\* EnsurePartitions, still under the lock, which is then given back.
Partition(d) ==
    /\ daemon[d].pc = "partitions"
    /\ parts' = Ensured(Day(now) + AheadDays)
    /\ ensured' = Day(now)
    /\ daemon' = [daemon EXCEPT ![d].pc = "up"]
    /\ lock' = NoDaemon
    /\ UNCHANGED <<now, table, version, swept, lapsed, faults>>

\* Fault: the lock is a row that nobody deletes.
DieKeepsLock(d) ==
    /\ daemon[d].pc # "down"
    /\ Fault
    /\ parts' \in IF daemon[d].pc = "partitions"
                  THEN {Ensured(last) : last \in EnsureReaches} ELSE {parts}
    /\ daemon' = [daemon EXCEPT ![d] = Down]
    /\ batch' = IF d = Ingest THEN {} ELSE batch
    /\ UNCHANGED <<now, trades, made, rows, version, lock, history>>

\* An error (log.Fatal) or a crash; EnsurePartitions may have got anywhere.
\* The advisory lock goes with the session.
Die(d) ==
    /\ daemon[d].pc # "down"
    /\ Fault
    /\ parts' \in IF daemon[d].pc = "partitions"
                  THEN {Ensured(last) : last \in EnsureReaches} ELSE {parts}
    /\ daemon' = [daemon EXCEPT ![d] = Down]
    /\ lock' = IF lock = d THEN NoDaemon ELSE lock
    /\ batch' = IF d = Ingest THEN {} ELSE batch
    /\ UNCHANGED <<now, trades, made, rows, version, history>>

-----------------------------------------------------------------------------
StartStep(d) == Start(d) \/ Lock(d) \/ ApplyV1(d) \/ ApplyV2(d) \/ Partition(d)

Next ==
    \/ Trade \/ Copy \/ Tick \/ PrunerTick
    \/ \E d \in Daemons : StartStep(d) \/ Die(d)

Spec == Init /\ [][Next]_vars

\* Docker restarts a daemon (docker-compose.yml, restart: unless-stopped), and a
\* start goes on.
FairSpec == Spec /\ \A d \in Daemons : WF_vars(StartStep(d))

-----------------------------------------------------------------------------
(* Properties.                                                             *)

\* There is a partition for every day that needs one and none that is too old.
\* A trade captured now, and every row still on its way, finds the partition of
\* its day, midnight included, as long as EnsurePartitions got to its end within
\* the last AheadDays days (schema.go:165-175).  None below the cutoff of the
\* last complete sweep is left, though a sweep looks back SweepDays days only
\* (schema.go:178-188), unless one began above the cutoff of the one before:
\* what lies between the two is never dropped.
PartitionsFollowTime ==
    /\ Day(now) - ensured <= AheadDays =>
          {Day(now)} \cup {DayOf(n) : n \in batch} \subseteq parts
    /\ ~lapsed => \A day \in parts : day >= swept

\* Once nothing fails any more every daemon comes up on the whole schema, also
\* when another died halfway through a migration with the lock in its hands
\* (schema.go:126-163).
StartsUp ==
    (<>[][~\E d \in Daemons : Die(d)]_vars) =>
        <>(version = 2 /\ \A d \in Daemons : daemon[d].pc = "up")
=============================================================================
