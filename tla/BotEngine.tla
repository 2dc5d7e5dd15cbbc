----------------------------- MODULE BotEngine -----------------------------
(***************************************************************************)
(* The trading bot: internal/bot/engine.go with the position, ledger and   *)
(* drain controller it uses, and the threads of cmd/pumpy-bot/main.go.     *)
(*                                                                         *)
(* Threads.  The event pump calls HandleEvent, which spawns one goroutine  *)
(* per buy (opener[m]) and one per trade of a tracked mint.  A ticker      *)
(* calls SafetyTick, which spawns one evaluator per open position.  Every  *)
(* running evaluateSell is an element of Evals, so Evals bounds the        *)
(* evaluators alive at once.  The main goroutine waits for a signal, sets  *)
(* the drain flag and then polls OpenCount ("poll"); a goroutine polls it  *)
(* once more for each later signal ("signal").                             *)
(*                                                                         *)
(* External.  The Lightning call of a buy or sell either reports success   *)
(* or an error (LightningTrade models what may lie behind an error).  The  *)
(* feed reports the creation of a mint once and trades at any time.        *)
(***************************************************************************)
EXTENDS BotPosition, BotLedger, FiniteSets, Sequences

CONSTANTS
    Mints,            \* mints the target wallet creates
    Evals,            \* BOUND: evaluateSell goroutines alive at once
    NoMint,           \* target of an idle evaluator
    CreateMcaps,      \* market caps a create event carries, in grains
    TradeMcaps,       \* market caps a trade event carries, in grains
    MaxSells,         \* BOUND: accepted partial sells of a position
    ShortSignatures   \* may Lightning answer 200 with under 8 characters?

ASSUME EngineAssumption ==
    /\ NoMint \notin Mints
    /\ CreateMcaps \subseteq Nat
    /\ TradeMcaps \subseteq Nat
    /\ MaxSells \in Nat
    /\ ShortSignatures \in BOOLEAN

\* The two loops of WaitForExit that call OpenCount and may exit.
Counters == {"poll", "signal"}

VARIABLES
    dryRun,        \* the -dry-run flag, fixed at start
    draining,      \* DrainController.draining
    main,          \* the main goroutine: "listen", "wait", "exited", "crashed"
    scan,          \* scan[c]: mints loop c's OpenCount saw as not open
    atDrain,       \* history: mints tracked when the drain flag was set
    opener,        \* opener[m]: the goroutine openPosition of mint m
    creationMcap,  \* Position.CreationMcap
    lastMcap,      \* Position.lastMcapFixed
    currentTier,   \* Position.currentTier
    inFlight,      \* Position.inFlight
    closed,        \* Position.closed
    sells,         \* tiers of the executed sells (sellsExecuted is its length)
    eval,          \* eval[e]: an evaluateSell goroutine
    ledger

mainVars == <<dryRun, draining, main, scan, atDrain>>
positionVars == <<creationMcap, lastMcap, currentTier, inFlight, closed, sells>>
vars == <<mainVars, opener, positionVars, eval, ledger>>

Idle == [pc |-> "idle", mint |-> NoMint, force |-> FALSE, tier |-> TierS]

Spawned(m, force) == [pc |-> "check", mint |-> m, force |-> force, tier |-> TierS]

Running == main \notin {"exited", "crashed"}

\* The positions map holds m.
Tracked(m) == opener[m] \in {"stored", "recorded"}

\* m is in the map and IsClosed is false.
IsOpen(m) == Tracked(m) /\ ~closed[m]

TypeOK ==
    /\ dryRun \in BOOLEAN
    /\ draining \in BOOLEAN
    /\ main \in {"listen", "wait", "exited", "crashed"}
    /\ scan \in [Counters -> SUBSET Mints]
    /\ atDrain \subseteq Mints
    /\ opener \in [Mints -> {"none", "buying", "stored", "recorded", "failed"}]
    /\ creationMcap \in [Mints -> Nat]
    /\ lastMcap \in [Mints -> Nat]
    /\ currentTier \in [Mints -> Tiers]
    /\ inFlight \in [Mints -> BOOLEAN]
    /\ closed \in [Mints -> BOOLEAN]
    /\ sells \in [Mints -> Seq(Tiers)]
    /\ eval \in [Evals -> [pc : {"idle", "check", "lock", "selling", "closing", "settle"},
                           mint : Mints \cup {NoMint},
                           force : BOOLEAN,
                           tier : Tiers]]
    /\ ledger \in Ledger

Init ==
    /\ dryRun \in BOOLEAN
    /\ draining = FALSE
    /\ main = "listen"
    /\ scan = [c \in Counters |-> {}]
    /\ atDrain = {}
    /\ opener = [m \in Mints |-> "none"]
    /\ creationMcap = [m \in Mints |-> 0]
    /\ lastMcap = [m \in Mints |-> 0]
    /\ currentTier = [m \in Mints |-> TierS]
    /\ inFlight = [m \in Mints |-> FALSE]
    /\ closed = [m \in Mints |-> FALSE]
    /\ sells = [m \in Mints |-> << >>]
    /\ eval = [e \in Evals |-> Idle]
    /\ ledger = NewLedger

-----------------------------------------------------------------------------
(* The event pump and the buy goroutine.                                   *)

\* What the atomics and the flags of a Position start with is in Init: a mint
\* has one position in its life.
newPosition(m, mcap) ==
    /\ creationMcap' = [creationMcap EXCEPT ![m] = mcap]
    /\ lastMcap' = [lastMcap EXCEPT ![m] = Fixed(mcap)]
    /\ UNCHANGED <<currentTier, inFlight, closed, sells>>

\* HandleEvent of a create by the target wallet, and newPosition in the
\* goroutine it spawns.
HandleCreate(m, mcap) ==
    /\ Running
    /\ opener[m] = "none"
    /\ ~draining
    /\ opener' = [opener EXCEPT ![m] = "buying"]
    /\ newPosition(m, mcap)
    /\ UNCHANGED <<mainVars, eval, ledger>>

\* The buy is accepted (or the bot only pretends) and positions.Store runs.
BuyOk(m) ==
    /\ Running
    /\ opener[m] = "buying"
    /\ opener' = [opener EXCEPT ![m] = "stored"]
    /\ UNCHANGED <<mainVars, positionVars, eval, ledger>>

\* lc.Trade returns an error: the goroutine only logs it.
BuyErr(m) ==
    /\ Running
    /\ opener[m] = "buying"
    /\ ~dryRun
    /\ opener' = [opener EXCEPT ![m] = "failed"]
    /\ UNCHANGED <<mainVars, positionVars, eval, ledger>>

\* ledger.RecordBuy, the last step of openPosition.
BuyRecorded(m) ==
    /\ Running
    /\ opener[m] = "stored"
    /\ opener' = [opener EXCEPT ![m] = "recorded"]
    /\ ledger' = RecordBuy(ledger, IF dryRun THEN 0 ELSE BuySol)
    /\ UNCHANGED <<mainVars, positionVars, eval>>

\* HandleEvent of a trade: note the price, spawn an evaluator.
HandleTrade(m, mcap, e) ==
    /\ Running
    /\ Tracked(m)
    /\ eval[e].pc = "idle"
    /\ lastMcap' = [lastMcap EXCEPT ![m] = Fixed(mcap)]
    /\ eval' = [eval EXCEPT ![e] = Spawned(m, FALSE)]
    /\ UNCHANGED <<mainVars, opener, creationMcap, currentTier, inFlight, closed,
                   sells, ledger>>

\* Fault: the ticker never forces a sell.
SafetyTickUnforced(m, e) ==
    /\ Running
    /\ IsOpen(m)
    /\ eval[e].pc = "idle"
    /\ eval' = [eval EXCEPT ![e] = Spawned(m, FALSE)]
    /\ UNCHANGED <<mainVars, opener, positionVars, ledger>>

\* Fault: a position that was told to sell everything is not told again.
SafetyTickOnce(m, e) ==
    /\ Running
    /\ IsOpen(m)
    /\ currentTier[m] # TierAll
    /\ eval[e].pc = "idle"
    /\ eval' = [eval EXCEPT ![e] = Spawned(m, draining)]
    /\ UNCHANGED <<mainVars, opener, positionVars, ledger>>

\* One iteration of SafetyTick's Range.  The drain flag is read when the
\* evaluator is spawned.
SafetyTick(m, e) ==
    /\ Running
    /\ IsOpen(m)
    /\ eval[e].pc = "idle"
    /\ eval' = [eval EXCEPT ![e] = Spawned(m, draining)]
    /\ UNCHANGED <<mainVars, opener, positionVars, ledger>>

-----------------------------------------------------------------------------
(* evaluateSell.                                                           *)

\* Fault: no test of the closed flag.
CheckNothing(e) ==
    /\ Running
    /\ eval[e].pc = "check"
    /\ eval' = [eval EXCEPT ![e].pc = "lock"]
    /\ UNCHANGED <<mainVars, opener, positionVars, ledger>>

\* if pos.IsClosed() { return }
CheckClosed(e) ==
    /\ Running
    /\ eval[e].pc = "check"
    /\ eval' = IF closed[eval[e].mint]
               THEN [eval EXCEPT ![e] = Idle]
               ELSE [eval EXCEPT ![e].pc = "lock"]
    /\ UNCHANGED <<mainVars, opener, positionVars, ledger>>

\* Fault: the tier reached before is forgotten.
NextTierOfPrice(e, m) ==
    IF eval[e].force THEN TierAll ELSE EvaluateTier(lastMcap[m], creationMcap[m])

\* The tier to sell at: never below a tier reached before.
NextTier(e, m) ==
    LET tier == IF eval[e].force THEN TierAll
                ELSE EvaluateTier(lastMcap[m], creationMcap[m])
    IN  IF tier < currentTier[m] THEN currentTier[m] ELSE tier

\* TryLockInFlight and, when it succeeds, the tier and the amount.  Only the
\* holder of the lock writes currentTier, and a trade event between the lock
\* and the read of the price is the same as one before the lock.
TryLock(e) ==
    LET m == eval[e].mint
        tier == NextTier(e, m)
    IN  /\ Running
        /\ eval[e].pc = "lock"
        /\ \/ /\ inFlight[m]
              /\ eval' = [eval EXCEPT ![e] = Idle]
              /\ UNCHANGED <<currentTier, inFlight>>
           \/ /\ ~inFlight[m]
              /\ currentTier' = [currentTier EXCEPT ![m] = tier]
              /\ IF SellsNothing(tier)
                 THEN /\ eval' = [eval EXCEPT ![e] = Idle]
                      /\ UNCHANGED inFlight
                 ELSE /\ eval' = [eval EXCEPT ![e].pc = "selling", ![e].tier = tier]
                      /\ inFlight' = [inFlight EXCEPT ![m] = TRUE]
        /\ UNCHANGED <<mainVars, opener, creationMcap, lastMcap, closed, sells, ledger>>

\* No partial sell of e can be counted any more (BOUND MaxSells).
AtBound(e) == eval[e].tier # TierAll /\ Len(sells[eval[e].mint]) >= MaxSells

\* The sell is executed and counted.  A partial sell ends the goroutine, whose
\* deferred call unlocks; a sell of everything goes on to close the position.
\* A dry run counts the sell in the position but not in the ledger.
SellOk(e) ==
    LET m == eval[e].mint
        tier == eval[e].tier
    IN  /\ Running
        /\ eval[e].pc = "selling"
        /\ ~AtBound(e)
        /\ sells' = [sells EXCEPT ![m] = Append(@, tier)]
        /\ ledger' = IF dryRun THEN ledger ELSE RecordSell(ledger, SellAmount(tier))
        /\ IF tier = TierAll
           THEN /\ eval' = [eval EXCEPT ![e].pc = "closing"]
                /\ UNCHANGED inFlight
           ELSE /\ eval' = [eval EXCEPT ![e] = Idle]
                /\ inFlight' = [inFlight EXCEPT ![m] = FALSE]
        /\ UNCHANGED <<mainVars, opener, creationMcap, lastMcap, currentTier, closed>>

\* Fault: the error path returns without the deferred unlock.
SellErrKeepsLock(e) ==
    /\ Running
    /\ eval[e].pc = "selling"
    /\ ~dryRun \/ AtBound(e)
    /\ eval' = [eval EXCEPT ![e] = Idle]
    /\ UNCHANGED <<mainVars, opener, positionVars, ledger>>

\* Fault: a sell of everything that failed closes the position all the same.
SellErrCloses(e) ==
    /\ Running
    /\ eval[e].pc = "selling"
    /\ ~dryRun \/ AtBound(e)
    /\ IF eval[e].tier = TierAll
       THEN /\ eval' = [eval EXCEPT ![e].pc = "closing"]
            /\ UNCHANGED inFlight
       ELSE /\ eval' = [eval EXCEPT ![e] = Idle]
            /\ inFlight' = [inFlight EXCEPT ![eval[e].mint] = FALSE]
    /\ UNCHANGED <<mainVars, opener, creationMcap, lastMcap, currentTier, closed,
                   sells, ledger>>

\* Fault: a failed sell takes the tier back to that of the last executed one.
SellErrForgetsTier(e) ==
    LET m == eval[e].mint
    IN  /\ Running
        /\ eval[e].pc = "selling"
        /\ ~dryRun \/ AtBound(e)
        /\ currentTier' = [currentTier EXCEPT ![m] =
              IF sells[m] = << >> THEN TierS ELSE sells[m][Len(sells[m])]]
        /\ inFlight' = [inFlight EXCEPT ![m] = FALSE]
        /\ eval' = [eval EXCEPT ![e] = Idle]
        /\ UNCHANGED <<mainVars, opener, creationMcap, lastMcap, closed, sells, ledger>>

\* lc.Trade returns an error: unlock; the tier stays where it is.  A dry run
\* takes this step only to drop a partial sell beyond the bound.
SellErr(e) ==
    /\ Running
    /\ eval[e].pc = "selling"
    /\ ~dryRun \/ AtBound(e)
    /\ inFlight' = [inFlight EXCEPT ![eval[e].mint] = FALSE]
    /\ eval' = [eval EXCEPT ![e] = Idle]
    /\ UNCHANGED <<mainVars, opener, creationMcap, lastMcap, currentTier, closed,
                   sells, ledger>>

MarkClosed(e) ==
    /\ Running
    /\ eval[e].pc = "closing"
    /\ closed' = [closed EXCEPT ![eval[e].mint] = TRUE]
    /\ eval' = [eval EXCEPT ![e].pc = "settle"]
    /\ UNCHANGED <<mainVars, opener, creationMcap, lastMcap, currentTier, inFlight,
                   sells, ledger>>

\* Fault: a dry run closes without telling the ledger.
SettleLiveOnly(e) ==
    /\ Running
    /\ eval[e].pc = "settle"
    /\ ledger' = IF dryRun THEN ledger
                 ELSE RecordPositionClosed(ledger, IsWin(eval[e].tier))
    /\ inFlight' = [inFlight EXCEPT ![eval[e].mint] = FALSE]
    /\ eval' = [eval EXCEPT ![e] = Idle]
    /\ UNCHANGED <<mainVars, opener, creationMcap, lastMcap, currentTier, closed, sells>>

\* ledger.RecordPositionClosed and the deferred unlock.
Settle(e) ==
    /\ Running
    /\ eval[e].pc = "settle"
    /\ ledger' = RecordPositionClosed(ledger, ~dryRun /\ IsWin(eval[e].tier))
    /\ inFlight' = [inFlight EXCEPT ![eval[e].mint] = FALSE]
    /\ eval' = [eval EXCEPT ![e] = Idle]
    /\ UNCHANGED <<mainVars, opener, creationMcap, lastMcap, currentTier, closed, sells>>

\* The log line after a buy or a sell slices Signature[:8]: a shorter answer
\* panics in a goroutine nobody recovers, and the process dies with all it
\* knew.
LogPanic ==
    /\ Running
    /\ ShortSignatures
    /\ ~dryRun
    /\ \/ \E m \in Mints : opener[m] = "stored"
       \/ \E e \in Evals : \/ eval[e].pc = "settle"
                         \/ (eval[e].pc = "selling" /\ eval[e].tier # TierAll)
    /\ main' = "crashed"
    /\ UNCHANGED <<dryRun, draining, scan, atDrain, opener, positionVars, eval, ledger>>

-----------------------------------------------------------------------------
(* The main goroutine.                                                     *)

\* Listen returns on the first signal; main goes on to WaitForExit.
Listen ==
    /\ main = "listen"
    /\ draining' = TRUE
    /\ main' = "wait"
    /\ atDrain' = {m \in Mints : Tracked(m)}
    /\ UNCHANGED <<dryRun, scan, opener, positionVars, eval, ledger>>

\* Fault: a position being sold is not counted as open.
VisitSkipsBusy(c, m) ==
    /\ main = "wait"
    /\ m \notin scan[c]
    /\ scan' = [scan EXCEPT ![c] = IF IsOpen(m) /\ ~inFlight[m] THEN {} ELSE @ \cup {m}]
    /\ UNCHANGED <<dryRun, draining, main, atDrain, opener, positionVars, eval, ledger>>

\* One iteration of OpenCount's Range in loop c, which is not a snapshot: an
\* open position makes the count positive and the loop starts again.
Visit(c, m) ==
    /\ main = "wait"
    /\ m \notin scan[c]
    /\ scan' = [scan EXCEPT ![c] = IF IsOpen(m) THEN {} ELSE @ \cup {m}]
    /\ UNCHANGED <<dryRun, draining, main, atDrain, opener, positionVars, eval, ledger>>

\* OpenCount returned 0: os.Exit(0).
Exit(c) ==
    /\ main = "wait"
    /\ scan[c] = Mints
    /\ main' = "exited"
    /\ UNCHANGED <<dryRun, draining, scan, atDrain, opener, positionVars, eval, ledger>>

-----------------------------------------------------------------------------
Evaluate(e) ==
    \/ CheckClosed(e) \/ TryLock(e)
    \/ SellOk(e) \/ SellErr(e)
    \/ MarkClosed(e) \/ Settle(e)

Next ==
    \/ \E m \in Mints :
          \/ \E mcap \in CreateMcaps : HandleCreate(m, mcap)
          \/ BuyOk(m) \/ BuyErr(m) \/ BuyRecorded(m)
          \/ \E e \in Evals :
                \/ \E mcap \in TradeMcaps : HandleTrade(m, mcap, e)
                \/ SafetyTick(m, e)
    \/ \E e \in Evals : Evaluate(e)
    \/ LogPanic
    \/ Listen
    \/ \E c \in Counters : Exit(c) \/ \E m \in Mints : Visit(c, m)

Spec == Init /\ [][Next]_vars

\* Goroutines are scheduled; a Lightning call returns (the HTTP client has a
\* timeout); the poll loop keeps polling; the ticker keeps ticking.  A tick
\* never lacks a goroutine in the code: strong fairness only undoes the
\* starvation that the bound Evals could cause.
Fairness ==
    /\ \A e \in Evals : WF_vars(Evaluate(e))
    /\ \A m \in Mints : /\ WF_vars(BuyOk(m) \/ BuyErr(m))
                        /\ WF_vars(BuyRecorded(m))
                        /\ SF_vars(\E e \in Evals : SafetyTick(m, e))
    /\ \A m \in Mints : WF_vars(Visit("poll", m))
    /\ WF_vars(Exit("poll"))

FairSpec == Spec /\ Fairness

-----------------------------------------------------------------------------
(* Properties.                                                             *)

\* Evaluators that hold the in-flight lock of m.
Holders(m) == {e \in Evals : eval[e].mint = m /\ eval[e].pc \in {"selling", "closing", "settle"}}

\* The in-flight flag (position.go:66-67) is a lock: it is set exactly while
\* one evaluator is between its TryLockInFlight and its deferred unlock, so no
\* two goroutines ever sell the same position at once and none leaks the flag.
OneSellInFlight ==
    \A m \in Mints :
       /\ inFlight[m] <=> Holders(m) # {}
       /\ \A e, f \in Holders(m) : e = f

\* "Never go backwards in tier" (engine.go:153): whatever the price does and
\* whichever goroutine sells, the executed sells of a position are S sells,
\* then Q sells, then sells of everything, and none is above the tier reached.
SellsFollowTiers ==
    \A m \in Mints : \A i, j \in 1..Len(sells[m]) :
       /\ i <= j => sells[m][i] <= sells[m][j]
       /\ sells[m][j] <= currentTier[m]

\* A position is marked closed (engine.go:222, 232) only when a sell of
\* everything was executed, and only one that is in the map.
ClosedAfterAllSold ==
    \A m \in Mints : closed[m] =>
       /\ Tracked(m)
       /\ sells[m] # << >>
       /\ sells[m][Len(sells[m])] = TierAll

\* Evaluators that passed the IsClosed check of m and have not finished.
PastCheck(m) == {e \in Evals : eval[e].mint = m /\ eval[e].pc \notin {"idle", "check"}}

\* Once a position is closed only evaluators that had passed the check before
\* can still sell it (engine.go:140-145): their set never grows again, and the
\* sells they make are of everything.
OnlyLateSellersAfterClose ==
    [][\A m \in Mints : closed[m] =>
          /\ PastCheck(m)' \subseteq PastCheck(m)
          /\ sells'[m] \in {sells[m], Append(sells[m], TierAll)}]_vars

\* Every position the bot had when the drain began is closed, its tokens sold,
\* when a poll loop of WaitForExit exits (shutdown.go:34-57), although
\* OpenCount walks a changing map and is no snapshot.
DrainedPositionsClosed ==
    main = "exited" => \A m \in atDrain : closed[m]

\* The dashboard's open counter (ledger.go:66, 77) lags the positions but never
\* shows more of them than are open or about to be counted as closed.
LedgerNeverOverstatesOpen ==
    ledger.open <= Cardinality({m \in Mints : IsOpen(m)})
                   + Cardinality({e \in Evals : eval[e].pc = "settle"})

\* The positions map seen as the abstract lifecycle.
Status(m) == IF ~Tracked(m) THEN "none" ELSE IF closed[m] THEN "closed" ELSE "open"

Life == INSTANCE PositionLifecycle WITH
           status <- [m \in Mints |-> Status(m)],
           tier   <- currentTier,
           sells  <- sells

\* The engine implements PositionLifecycle.
ImplementsLifecycle == Life!Spec

-----------------------------------------------------------------------------
(* Liveness, under FairSpec.                                               *)

\* A sell of everything of m is executed.
SellAllOk(m) == \E e \in Evals : eval[e].mint = m /\ eval[e].tier = TierAll /\ SellOk(e)

TradeEvent == \E m \in Mints, e \in Evals, mcap \in TradeMcaps : HandleTrade(m, mcap, e)

\* Premises about the world: Lightning does not refuse the sell of a position
\* forever, and the feed falls silent at some point.
LightningRecovers == \A m \in Mints : SF_vars(SellAllOk(m))
TradesCease == <>[][~TradeEvent]_vars

\* "selling all open positions" (shutdown.go:31), then exit (34-57): after the
\* first signal the bot does exit.  Both premises are needed: forced evaluators
\* do not wait for the lock, and those of trades can hold it at every tick.
DrainCompletes ==
    (LightningRecovers /\ TradesCease) => (draining ~> main = "exited")

\* A position that fell to tier ALL is closed even if its first sell fails and
\* the price recovers: the tier is remembered and the ticker tries again
\* (engine.go:57-65, 154-157).
StopLossCloses ==
    \A m \in Mints :
       SF_vars(SellAllOk(m)) =>
          (currentTier[m] = TierAll ~> (closed[m] \/ main = "exited"))

-----------------------------------------------------------------------------
(* What comments say and the code does not do.                             *)

\* "The bot exits only when all positions are closed" (shutdown.go:13).
ExitOnlyWhenAllClosed ==
    main = "exited" => \A m \in Mints : ~IsOpen(m)

\* EvaluateTier "Returns TierDone if position is already closed"
\* (position.go:96): a closed position is not sold again.
NoSellAfterClose ==
    [][\A m \in Mints : closed[m] => sells'[m] = sells[m]]_vars
=============================================================================
