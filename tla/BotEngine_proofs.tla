-------------------------- MODULE BotEngine_proofs --------------------------
(***************************************************************************)
(* Proofs about BotEngine for every set of mints and evaluators, every     *)
(* configuration and every bound; the last part is about the open counter  *)
(* of the ledger.                                                          *)
(***************************************************************************)
EXTENDS BotEngine, FiniteSetTheorems, TLAPS

\* The operators the actions are built from return what TypeOK needs.
LEMMA TierTyped ==
    ASSUME NEW last, NEW creation
    PROVE  EvaluateTier(last, creation) \in Tiers
BY DEF EvaluateTier, Tiers, TierS, TierQ, TierAll

\* The truncation of Position.SetLastMcap stays a natural number.
LEMMA FixedTyped ==
    ASSUME NEW mcap \in Nat
    PROVE  Fixed(mcap) \in Nat
BY ConfigAssumption DEF Fixed

\* The amount of a sell is a natural number at every tier.
LEMMA AmountTyped ==
    ASSUME NEW tier
    PROVE  SellAmount(tier) \in Nat
<1>1. SellPct(tier) \in Nat
  BY ConfigAssumption DEF SellPct
<1>2. BuySol * SellPct(tier) \in Nat
  BY <1>1, ConfigAssumption
<1>3. QED
  BY <1>2 DEF SellAmount

\* The counters of the ledger stay counters under each of its operations.
LEMMA LedgerTyped ==
    ASSUME NEW l \in Ledger, NEW sol \in Nat, NEW win \in BOOLEAN
    PROVE  /\ RecordBuy(l, sol) \in Ledger
           /\ RecordSell(l, sol) \in Ledger
           /\ RecordPositionClosed(l, win) \in Ledger
<1>1. RecordBuy(l, sol) \in Ledger
  <2>1. l.spent + sol \in Nat /\ l.buys + 1 \in Nat /\ l.open + 1 \in Int
    BY DEF Ledger
  <2>2. \A x, y \in Nat, z \in Int :
           [l EXCEPT !.spent = x, !.buys = y, !.open = z] \in Ledger
    BY DEF Ledger
  <2>3. QED
    BY <2>1, <2>2 DEF RecordBuy
<1>2. RecordSell(l, sol) \in Ledger
  <2>1. l.sold + sol \in Nat /\ l.sells + 1 \in Nat
    BY DEF Ledger
  <2>2. \A x, y \in Nat : [l EXCEPT !.sold = x, !.sells = y] \in Ledger
    BY DEF Ledger
  <2>3. QED
    BY <2>1, <2>2 DEF RecordSell
<1>3. RecordPositionClosed(l, win) \in Ledger
  <2>1. l.open - 1 \in Int /\ l.closed + 1 \in Nat
    BY DEF Ledger
  <2>2. l.wins + (IF win THEN 1 ELSE 0) \in Nat
    BY DEF Ledger
  <2>3. \A x, y \in Nat, z \in Int :
           [l EXCEPT !.open = z, !.closed = x, !.wins = y] \in Ledger
    BY DEF Ledger
  <2>4. QED
    BY <2>1, <2>2, <2>3 DEF RecordPositionClosed
<1>4. QED
  BY <1>1, <1>2, <1>3

\* An evaluator that is doing something works for a mint; idle ones are reset.
EvalsTargetMints ==
    \A e \in Evals :
       IF eval[e].pc = "idle" THEN eval[e] = Idle ELSE eval[e].mint \in Mints

\* The type of eval, as TypeOK states it.
EvalTyped ==
    eval \in [Evals -> [pc : {"idle", "check", "lock", "selling", "closing", "settle"},
                        mint : Mints \cup {NoMint}, force : BOOLEAN, tier : Tiers]]

TypeInv == TypeOK /\ EvalsTargetMints

\* evaluateSell takes a tier, and never one below the position's.
LEMMA NextTierTyped ==
    ASSUME TypeInv, NEW e \in Evals, NEW m \in Mints
    PROVE  /\ NextTier(e, m) \in Tiers
           /\ NextTier(e, m) >= currentTier[m]
           /\ currentTier[m] = TierAll => NextTier(e, m) = TierAll
<1>1. EvaluateTier(lastMcap[m], creationMcap[m]) \in Tiers
  BY TierTyped
<1>2. currentTier[m] \in Tiers
  BY DEF TypeInv, TypeOK
<1>3. QED
  BY <1>1, <1>2 DEF NextTier, Tiers, TierS, TierQ, TierAll

\* The bot starts well typed.
LEMMA TypeInit == Init => TypeInv
<1> SUFFICES ASSUME Init PROVE TypeInv
  OBVIOUS
<1>1. ledger \in Ledger
  BY DEF Init, NewLedger, Ledger
<1>2. EvalsTargetMints
  BY DEF Init, EvalsTargetMints, Idle
<1>3. EvalTyped
  BY DEF Init, EvalTyped, Idle, Tiers, TierS
<1>4. sells \in [Mints -> Seq(Tiers)] /\ currentTier \in [Mints -> Tiers]
  BY DEF Init, Tiers, TierS
<1>5. QED
  BY <1>1, <1>2, <1>3, <1>4 DEF Init, TypeInv, TypeOK, EvalTyped

\* Every step of the bot keeps its state well typed.
LEMMA TypeNext == TypeInv /\ [Next]_vars => TypeInv'
<1> SUFFICES ASSUME TypeInv, [Next]_vars PROVE TypeInv'
  OBVIOUS
<1> USE DEF TypeInv, TypeOK, EvalsTargetMints, mainVars, positionVars
<1>1. ASSUME NEW m \in Mints, NEW mcap \in CreateMcaps, HandleCreate(m, mcap)
      PROVE  TypeInv'
  <2>1. mcap \in Nat /\ Fixed(mcap) \in Nat
    BY FixedTyped, EngineAssumption
  <2>2. QED
    BY <1>1, <2>1 DEF HandleCreate, newPosition
<1>2. ASSUME NEW m \in Mints, BuyOk(m) PROVE TypeInv'
  BY <1>2 DEF BuyOk
<1>3. ASSUME NEW m \in Mints, BuyErr(m) PROVE TypeInv'
  BY <1>3 DEF BuyErr
<1>4. ASSUME NEW m \in Mints, BuyRecorded(m) PROVE TypeInv'
  <2>1. ledger' \in Ledger
    BY <1>4, LedgerTyped, ConfigAssumption DEF BuyRecorded
  <2>2. QED
    BY <1>4, <2>1 DEF BuyRecorded
<1>5. ASSUME NEW m \in Mints, NEW e \in Evals, NEW mcap \in TradeMcaps,
             HandleTrade(m, mcap, e)
      PROVE  TypeInv'
  <2>1. Fixed(mcap) \in Nat
    BY FixedTyped, EngineAssumption
  <2>2. QED
    BY <1>5, <2>1 DEF HandleTrade, Spawned, Tiers, TierS
<1>6. ASSUME NEW m \in Mints, NEW e \in Evals, SafetyTick(m, e) PROVE TypeInv'
  BY <1>6 DEF SafetyTick, Spawned, Tiers, TierS
<1>7. ASSUME NEW e \in Evals, CheckClosed(e) PROVE TypeInv'
  BY <1>7 DEF CheckClosed, Idle, Tiers, TierS
<1>8. ASSUME NEW e \in Evals, TryLock(e) PROVE TypeInv'
  <2>1. eval[e].mint \in Mints
    BY <1>8 DEF TryLock
  <2>2. NextTier(e, eval[e].mint) \in Tiers
    BY <2>1, NextTierTyped
  <2> DEFINE m == eval[e].mint
             t == NextTier(e, m)
  <2>3. \/ eval' = [eval EXCEPT ![e] = Idle]
        \/ eval' = [eval EXCEPT ![e].pc = "selling", ![e].tier = t]
    BY <1>8 DEF TryLock
  <2>4. EvalTyped' /\ EvalsTargetMints'
    <3> HIDE DEF t
    <3>1. t \in Tiers
      BY <2>2 DEF t
    <3>2. CASE eval' = [eval EXCEPT ![e] = Idle]
      BY <3>2 DEF Idle, Tiers, TierS, EvalTyped
    <3>3. CASE eval' = [eval EXCEPT ![e].pc = "selling", ![e].tier = t]
      BY ZenonT(30), <2>1, <3>1, <3>3 DEF EvalTyped
    <3>4. QED
      BY <2>3, <3>2, <3>3 DEF t
  <2>5. currentTier' \in [Mints -> Tiers]
    BY <1>8, <2>1, <2>2 DEF TryLock
  <2>6. inFlight' \in [Mints -> BOOLEAN]
    BY <1>8, <2>1 DEF TryLock
  <2>7. QED
    BY <1>8, <2>4, <2>5, <2>6 DEF TryLock, EvalTyped
<1>9. ASSUME NEW e \in Evals, SellOk(e) PROVE TypeInv'
  <2>1. eval[e].mint \in Mints /\ eval[e].tier \in Tiers
    BY <1>9 DEF SellOk
  <2>2. ledger' \in Ledger
    BY <1>9, LedgerTyped, AmountTyped DEF SellOk
  <2>3. sells' \in [Mints -> Seq(Tiers)]
    BY <1>9, <2>1 DEF SellOk
  <2>4. EvalTyped' /\ EvalsTargetMints'
    <3>1. CASE eval' = [eval EXCEPT ![e] = Idle]
      BY <3>1 DEF Idle, Tiers, TierS, EvalTyped
    <3>2. CASE eval' = [eval EXCEPT ![e].pc = "closing"]
      BY <2>1, <3>2 DEF EvalTyped
    <3>3. QED
      BY <1>9, <3>1, <3>2 DEF SellOk
  <2>5. inFlight' \in [Mints -> BOOLEAN]
    BY <1>9, <2>1 DEF SellOk
  <2>6. QED
    BY <1>9, <2>2, <2>3, <2>4, <2>5 DEF SellOk, EvalTyped
<1>10. ASSUME NEW e \in Evals, SellErr(e) PROVE TypeInv'
  BY <1>10 DEF SellErr, Idle, Tiers, TierS
<1>11. ASSUME NEW e \in Evals, MarkClosed(e) PROVE TypeInv'
  BY <1>11 DEF MarkClosed
<1>12. ASSUME NEW e \in Evals, Settle(e) PROVE TypeInv'
  <2>1. ledger' \in Ledger
    BY <1>12, LedgerTyped DEF Settle, IsWin
  <2>2. QED
    BY <1>12, <2>1 DEF Settle, Idle, Tiers, TierS
<1>13. CASE LogPanic
  BY <1>13 DEF LogPanic
<1>14. CASE Listen
  BY <1>14 DEF Listen
<1>15. ASSUME NEW c \in Counters, NEW m \in Mints, Visit(c, m) PROVE TypeInv'
  BY <1>15 DEF Visit
<1>16. ASSUME NEW c \in Counters, Exit(c) PROVE TypeInv'
  BY <1>16 DEF Exit
<1>17. CASE UNCHANGED vars
  BY <1>17 DEF vars
<1>18. QED
  BY <1>1, <1>2, <1>3, <1>4, <1>5, <1>6, <1>7, <1>8, <1>9, <1>10, <1>11, <1>12,
     <1>13, <1>14, <1>15, <1>16, <1>17 DEF Next, Evaluate

\* Every reachable state is well typed.
THEOREM TypeCorrect == Spec => []TypeOK
<1>1. TypeInv => TypeOK
  BY DEF TypeInv
<1>2. QED
  BY <1>1, TypeInit, TypeNext, PTL DEF Spec

-----------------------------------------------------------------------------
(* The in-flight flag is a lock.                                           *)

Holding(e, m) == eval[e].mint = m /\ eval[e].pc \in {"selling", "closing", "settle"}

\* OneSellInFlight without sets of evaluators.
LockInv ==
    \A m \in Mints :
       /\ \A e \in Evals : Holding(e, m) => inFlight[m]
       /\ inFlight[m] => \E e \in Evals : Holding(e, m)
       /\ \A e, f \in Evals : Holding(e, m) /\ Holding(f, m) => e = f

\* The lock invariant says of the in-flight flag what OneSellInFlight says.
LEMMA LockInvIsOneSell == LockInv <=> OneSellInFlight
BY DEF LockInv, OneSellInFlight, Holders, Holding

\* A step of one evaluator that neither takes nor releases a lock.
LEMMA LockFrame ==
    ASSUME LockInv, inFlight' = inFlight, NEW e \in Evals,
           \A f \in Evals \ {e} : eval'[f] = eval[f],
           \A m \in Mints : Holding(e, m)' <=> Holding(e, m)
    PROVE  LockInv'
<1>1. \A f \in Evals, m \in Mints : Holding(f, m)' <=> Holding(f, m)
  BY DEF Holding
<1> QED
  BY <1>1 DEF LockInv

\* A step that releases the lock of m held by e.
LEMMA LockRelease ==
    ASSUME TypeInv, LockInv, NEW e \in Evals, NEW m \in Mints, Holding(e, m),
           inFlight' = [inFlight EXCEPT ![m] = FALSE],
           eval' = [eval EXCEPT ![e] = Idle]
    PROVE  LockInv'
<1>1. \A f \in Evals, n \in Mints : Holding(f, n)' <=> Holding(f, n) /\ f # e
  BY DEF Holding, TypeInv, TypeOK, Idle
<1>2. \A n \in Mints : Holding(e, n) => n = m
  BY DEF Holding
<1>3. \A n \in Mints : inFlight'[n] <=> inFlight[n] /\ n # m
  BY DEF TypeInv, TypeOK
<1>4. \A f \in Evals : Holding(f, m) => f = e
  BY DEF LockInv
<1> QED
  BY <1>1, <1>2, <1>3, <1>4 DEF LockInv

\* Every step keeps the in-flight flag a lock: set exactly while one evaluator holds it.
LEMMA LockNext == TypeInv /\ LockInv /\ [Next]_vars => LockInv'
<1> SUFFICES ASSUME TypeInv, LockInv, [Next]_vars PROVE LockInv'
  OBVIOUS
<1> USE DEF mainVars, positionVars
<1>0. ASSUME UNCHANGED <<eval, inFlight>> PROVE LockInv'
  BY <1>0 DEF LockInv, Holding
<1>1. ASSUME NEW m \in Mints,
             \/ \E mcap \in CreateMcaps : HandleCreate(m, mcap)
             \/ BuyOk(m) \/ BuyErr(m) \/ BuyRecorded(m)
      PROVE  LockInv'
  BY <1>0, <1>1 DEF HandleCreate, newPosition, BuyOk, BuyErr, BuyRecorded
<1>2. ASSUME NEW m \in Mints, NEW e \in Evals,
             \/ \E mcap \in TradeMcaps : HandleTrade(m, mcap, e)
             \/ SafetyTick(m, e)
      PROVE  LockInv'
  <2>1. inFlight' = inFlight /\ eval[e].pc = "idle" /\ eval'[e].pc = "check"
    BY <1>2 DEF HandleTrade, SafetyTick, Spawned, TypeInv, TypeOK
  <2>2. \A f \in Evals \ {e} : eval'[f] = eval[f]
    BY <1>2 DEF HandleTrade, SafetyTick, TypeInv, TypeOK
  <2>3. QED
    BY <2>1, <2>2, LockFrame DEF Holding
<1>3. ASSUME NEW e \in Evals, CheckClosed(e) PROVE LockInv'
  <2>1. inFlight' = inFlight /\ eval[e].pc = "check" /\ eval'[e].pc \in {"idle", "lock"}
    BY <1>3 DEF CheckClosed, Idle, TypeInv, TypeOK
  <2>2. \A f \in Evals \ {e} : eval'[f] = eval[f]
    BY <1>3 DEF CheckClosed, TypeInv, TypeOK
  <2>3. QED
    BY <2>1, <2>2, LockFrame DEF Holding
<1>4. ASSUME NEW e \in Evals, TryLock(e) PROVE LockInv'
  <2> DEFINE m == eval[e].mint
  <2>1. m \in Mints /\ eval[e].pc = "lock"
    BY <1>4 DEF TryLock, TypeInv, EvalsTargetMints
  <2>2. \A f \in Evals \ {e} : eval'[f] = eval[f]
    BY <1>4 DEF TryLock, TypeInv, TypeOK
  <2>3. CASE inFlight' = inFlight /\ eval' = [eval EXCEPT ![e] = Idle]
    <3>1. eval'[e].pc = "idle"
      BY <2>3 DEF Idle, TypeInv, TypeOK
    <3>2. QED
      BY <2>1, <2>2, <2>3, <3>1, LockFrame DEF Holding
  <2>4. CASE /\ ~inFlight[m]
             /\ inFlight' = [inFlight EXCEPT ![m] = TRUE]
             /\ \E t : eval' = [eval EXCEPT ![e].pc = "selling", ![e].tier = t]
    <3>1. eval'[e].pc = "selling" /\ eval'[e].mint = m
      BY <2>4 DEF TypeInv, TypeOK
    <3>2. \A f \in Evals, n \in Mints :
             Holding(f, n)' <=> Holding(f, n) \/ (f = e /\ n = m)
      BY <2>1, <2>2, <3>1 DEF Holding
    <3>3. \A n \in Mints : inFlight'[n] <=> inFlight[n] \/ n = m
      BY <2>4 DEF TypeInv, TypeOK
    <3>4. \A f \in Evals : ~Holding(f, m)
      BY <2>1, <2>4 DEF LockInv
    <3>5. QED
      BY <2>1, <3>2, <3>3, <3>4 DEF LockInv
  <2>5. QED
    BY <1>4, <2>3, <2>4 DEF TryLock
<1>5. ASSUME NEW e \in Evals, SellOk(e) PROVE LockInv'
  <2> DEFINE m == eval[e].mint
  <2>1. m \in Mints /\ Holding(e, m)
    BY <1>5 DEF SellOk, TypeInv, EvalsTargetMints, Holding
  <2>2. CASE eval[e].tier = TierAll
    <3>1. inFlight' = inFlight /\ eval' = [eval EXCEPT ![e].pc = "closing"]
      BY <1>5, <2>2 DEF SellOk
    <3>2. eval'[e].pc = "closing" /\ eval'[e].mint = m
      BY <3>1 DEF TypeInv, TypeOK
    <3>3. \A f \in Evals \ {e} : eval'[f] = eval[f]
      BY <3>1 DEF TypeInv, TypeOK
    <3>4. QED
      BY <2>1, <3>1, <3>2, <3>3, LockFrame DEF Holding
  <2>3. CASE eval[e].tier # TierAll
    BY <1>5, <2>1, <2>3, LockRelease DEF SellOk
  <2>4. QED
    BY <2>2, <2>3
<1>6. ASSUME NEW e \in Evals, SellErr(e) \/ Settle(e) PROVE LockInv'
  <2> DEFINE m == eval[e].mint
  <2>1. m \in Mints /\ Holding(e, m)
    BY <1>6 DEF SellErr, Settle, TypeInv, EvalsTargetMints, Holding
  <2>2. QED
    BY <1>6, <2>1, LockRelease DEF SellErr, Settle
<1>7. ASSUME NEW e \in Evals, MarkClosed(e) PROVE LockInv'
  <2>1. /\ inFlight' = inFlight
        /\ eval[e].pc = "closing" /\ eval'[e].pc = "settle" /\ eval'[e].mint = eval[e].mint
    BY <1>7 DEF MarkClosed, TypeInv, TypeOK
  <2>2. \A f \in Evals \ {e} : eval'[f] = eval[f]
    BY <1>7 DEF MarkClosed, TypeInv, TypeOK
  <2>3. QED
    BY <2>1, <2>2, LockFrame DEF Holding
<1>8. CASE \/ LogPanic \/ Listen
           \/ \E c \in Counters : Exit(c) \/ \E m \in Mints : Visit(c, m)
  BY <1>0, <1>8 DEF LogPanic, Listen, Exit, Visit
<1>9. CASE UNCHANGED vars
  BY <1>0, <1>9 DEF vars
<1>10. QED
  BY <1>1, <1>2, <1>3, <1>4, <1>5, <1>6, <1>7, <1>8, <1>9 DEF Next, Evaluate

\* No two goroutines ever sell one position at once, and no path of
\* evaluateSell leaks the in-flight flag.
THEOREM LockCorrect == Spec => []OneSellInFlight
<1>1. Init => LockInv
  BY DEF Init, LockInv, Holding, Idle
<1>2. QED
  BY <1>1, TypeInit, TypeNext, LockNext, LockInvIsOneSell, PTL DEF Spec

-----------------------------------------------------------------------------
(* The tiers of the sells, and closing.                                    *)

SoldAll(m) == sells[m] # << >> /\ sells[m][Len(sells[m])] = TierAll

\* Only tracked mints are evaluated; a lock holder sells at the tier of its
\* position, and one past its sell of everything has made it.
EvalAtTier(e) ==
    /\ eval[e].pc # "idle" => Tracked(eval[e].mint)
    /\ eval[e].pc \in {"selling", "closing", "settle"} =>
          eval[e].tier = currentTier[eval[e].mint]
    /\ eval[e].pc \in {"closing", "settle"} =>
          eval[e].tier = TierAll /\ SoldAll(eval[e].mint)

HoldersAtTier == \A e \in Evals : EvalAtTier(e)

\* The sells of one position never go down, and are not above tier t.
Ascending(s, t) ==
    \A i, j \in 1..Len(s) : (i <= j => s[i] <= s[j]) /\ s[j] <= t

TierInv ==
    /\ HoldersAtTier
    /\ \A m \in Mints : Ascending(sells[m], currentTier[m])
    /\ \A m \in Mints : closed[m] => Tracked(m) /\ SoldAll(m)

\* A sell at the current tier keeps the executed sells in order.
LEMMA AscendingAppend ==
    ASSUME NEW s \in Seq(Tiers), NEW t \in Tiers, Ascending(s, t)
    PROVE  /\ Append(s, t) \in Seq(Tiers)
           /\ Append(s, t) # << >>
           /\ Append(s, t)[Len(Append(s, t))] = t
           /\ Ascending(Append(s, t), t)
<1>1. /\ Append(s, t) \in Seq(Tiers)
      /\ Len(Append(s, t)) = Len(s) + 1
      /\ \A i \in 1..Len(s) : Append(s, t)[i] = s[i]
      /\ Append(s, t)[Len(s) + 1] = t
  OBVIOUS
<1>2. Append(s, t) # << >>
  BY <1>1
<1>3. ASSUME NEW i \in 1..Len(Append(s, t)), NEW j \in 1..Len(Append(s, t))
      PROVE  (i <= j => Append(s, t)[i] <= Append(s, t)[j]) /\ Append(s, t)[j] <= t
  <2>1. Len(s) \in Nat /\ t \in Nat /\ t <= t
    BY DEF Tiers, TierS, TierQ, TierAll
  <2>2. CASE j \in 1..Len(s)
    BY <1>1, <2>1, <2>2 DEF Ascending
  <2>3. CASE j = Len(s) + 1
    BY <1>1, <2>1, <2>3 DEF Ascending
  <2>4. QED
    BY <1>1, <2>1, <2>2, <2>3
<1>4. QED
  BY <1>1, <1>2, <1>3 DEF Ascending

\* Raising a tier keeps the sells below it.
LEMMA AscendingRaise ==
    ASSUME NEW s \in Seq(Tiers), NEW t \in Tiers, NEW u \in Tiers, t <= u, Ascending(s, t)
    PROVE  Ascending(s, u)
<1>1. \A i \in 1..Len(s) : s[i] \in Nat /\ s[i] <= t
  BY DEF Ascending, Tiers, TierS, TierQ, TierAll
<1>2. t \in Nat /\ u \in Nat
  BY DEF Tiers, TierS, TierQ, TierAll
<1>3. QED
  BY <1>1, <1>2 DEF Ascending

\* A step of e that changes neither sells nor tiers nor closed flags.
LEMMA TierFrame ==
    ASSUME TypeInv, TierInv, NEW e \in Evals,
           UNCHANGED <<opener, currentTier, sells, closed>>,
           \A f \in Evals \ {e} : eval'[f] = eval[f],
           \/ eval'[e].pc = "idle"
           \/ eval'[e].pc \in {"check", "lock"} /\ Tracked(eval'[e].mint)
    PROVE  TierInv'
<1>1. \A m : Tracked(m)' <=> Tracked(m)
  BY DEF Tracked
<1>2. HoldersAtTier'
  BY <1>1 DEF TierInv, HoldersAtTier, EvalAtTier, SoldAll
<1>3. QED
  BY <1>1, <1>2 DEF TierInv, SoldAll

\* Every step keeps the sells in order and the holder of the lock at the position's tier.
LEMMA TierNext == TypeInv /\ LockInv /\ TierInv /\ [Next]_vars => TierInv'
<1> SUFFICES ASSUME TypeInv, LockInv, TierInv, [Next]_vars PROVE TierInv'
  OBVIOUS
<1> USE DEF mainVars, positionVars
<1>0. ASSUME UNCHANGED <<eval, currentTier, sells, closed>>,
             \A m \in Mints : Tracked(m) => Tracked(m)'
      PROVE  TierInv'
  <2>1. HoldersAtTier'
    BY <1>0 DEF TierInv, HoldersAtTier, EvalAtTier, SoldAll, TypeInv, EvalsTargetMints
  <2>2. QED
    BY <1>0, <2>1 DEF TierInv, SoldAll
<1>1. ASSUME NEW m \in Mints,
             \/ \E mcap \in CreateMcaps : HandleCreate(m, mcap)
             \/ BuyOk(m) \/ BuyErr(m) \/ BuyRecorded(m)
      PROVE  TierInv'
  <2>1. UNCHANGED <<eval, currentTier, sells, closed>>
    BY <1>1 DEF HandleCreate, newPosition, BuyOk, BuyErr, BuyRecorded
  <2>2. ~Tracked(m) \/ opener'[m] = "recorded"
    BY <1>1 DEF HandleCreate, newPosition, BuyOk, BuyErr, BuyRecorded, Tracked, TypeInv, TypeOK
  <2>3. \A n \in Mints \ {m} : opener'[n] = opener[n]
    BY <1>1 DEF HandleCreate, newPosition, BuyOk, BuyErr, BuyRecorded, TypeInv, TypeOK
  <2>4. QED
    BY <1>0, <2>1, <2>2, <2>3 DEF Tracked
<1>2. ASSUME NEW m \in Mints, NEW e \in Evals,
             \/ \E mcap \in TradeMcaps : HandleTrade(m, mcap, e)
             \/ SafetyTick(m, e)
      PROVE  TierInv'
  <2>1. Tracked(m) /\ UNCHANGED <<opener, currentTier, sells, closed>>
    BY <1>2 DEF HandleTrade, SafetyTick, IsOpen
  <2>2. eval'[e].pc = "check" /\ eval'[e].mint = m
    BY <1>2 DEF HandleTrade, SafetyTick, Spawned, TypeInv, TypeOK
  <2>3. \A f \in Evals \ {e} : eval'[f] = eval[f]
    BY <1>2 DEF HandleTrade, SafetyTick, TypeInv, TypeOK
  <2>4. QED
    BY <2>1, <2>2, <2>3, TierFrame
<1>3. ASSUME NEW e \in Evals, CheckClosed(e) PROVE TierInv'
  <2>1. UNCHANGED <<opener, currentTier, sells, closed>> /\ Tracked(eval[e].mint)
    BY <1>3 DEF CheckClosed, TierInv, HoldersAtTier, EvalAtTier
  <2>2. eval'[e].pc = "idle" \/ (eval'[e].pc = "lock" /\ eval'[e].mint = eval[e].mint)
    BY <1>3 DEF CheckClosed, Idle, TypeInv, TypeOK
  <2>3. \A f \in Evals \ {e} : eval'[f] = eval[f]
    BY <1>3 DEF CheckClosed, TypeInv, TypeOK
  <2>4. QED
    BY <2>1, <2>2, <2>3, TierFrame
<1>4. ASSUME NEW e \in Evals, TryLock(e) PROVE TierInv'
  <2> DEFINE m == eval[e].mint
             t == NextTier(e, m)
  <2>1. m \in Mints /\ Tracked(m) /\ eval[e].pc = "lock"
    BY <1>4 DEF TryLock, TypeInv, EvalsTargetMints, TierInv, HoldersAtTier, EvalAtTier
  <2>2. UNCHANGED <<opener, sells, closed>> /\ \A f \in Evals \ {e} : eval'[f] = eval[f]
    BY <1>4 DEF TryLock, TypeInv, TypeOK
  <2>3. CASE eval' = [eval EXCEPT ![e] = Idle] /\ currentTier' = currentTier
    <3>1. eval'[e].pc = "idle"
      BY <2>3 DEF Idle, TypeInv, TypeOK
    <3>2. QED
      BY <2>2, <2>3, <3>1, TierFrame
  <2>4. CASE /\ ~inFlight[m]
             /\ currentTier' = [currentTier EXCEPT ![m] = t]
             /\ \/ eval' = [eval EXCEPT ![e] = Idle]
                \/ eval' = [eval EXCEPT ![e].pc = "selling", ![e].tier = t]
    <3>1. t \in Tiers /\ t >= currentTier[m] /\ currentTier[m] \in Tiers
      BY <2>1, NextTierTyped DEF TypeInv, TypeOK
    <3>2. \/ eval'[e].pc = "idle"
          \/ eval'[e].pc = "selling" /\ eval'[e].mint = m /\ eval'[e].tier = t
      BY <2>4 DEF Idle, TypeInv, TypeOK
    <3> HIDE DEF t
    <3>3. currentTier'[m] = t /\ \A n \in Mints \ {m} : currentTier'[n] = currentTier[n]
      BY <2>1, <2>4 DEF TypeInv, TypeOK
    <3>4. \A f \in Evals : eval[f].pc \in {"selling", "closing", "settle"} => eval[f].mint # m
      BY <2>1, <2>4 DEF LockInv, Holding
    <3>5. \A n : Tracked(n)' <=> Tracked(n)
      BY <2>2 DEF Tracked
    <3>6. HoldersAtTier'
      <4>1. ASSUME NEW f \in Evals \ {e}
            PROVE  EvalAtTier(f)'
        <5>1. eval'[f] = eval[f]
          BY <2>2
        <5>2. eval[f].pc # "idle" => eval[f].mint \in Mints
          BY DEF TypeInv, EvalsTargetMints
        <5>3. EvalAtTier(f)
          BY DEF TierInv, HoldersAtTier
        <5>4. SoldAll(eval[f].mint)' <=> SoldAll(eval[f].mint)
          BY <2>2, <5>1 DEF SoldAll
        <5>5. Tracked(eval[f].mint)' <=> Tracked(eval[f].mint)
          BY <2>2, <5>1 DEF Tracked
        <5>6. QED
          BY <3>3, <3>4, <5>1, <5>2, <5>3, <5>4, <5>5 DEF EvalAtTier, SoldAll, Tracked
      <4>2. EvalAtTier(e)'
        BY <2>1, <3>2, <3>3, <3>5 DEF EvalAtTier, Tracked
      <4>3. QED
        BY <4>1, <4>2 DEF HoldersAtTier
    <3>7. \A n \in Mints : Ascending(sells[n], currentTier'[n])
      BY <2>1, <3>1, <3>3, AscendingRaise DEF TierInv, TypeInv, TypeOK
    <3>8. QED
      BY <2>2, <3>5, <3>6, <3>7 DEF TierInv, SoldAll
  <2>5. QED
    BY <1>4, <2>3, <2>4 DEF TryLock
<1>5. ASSUME NEW e \in Evals, SellOk(e) PROVE TierInv'
  <2> DEFINE m == eval[e].mint
             t == eval[e].tier
  <2>1. /\ m \in Mints /\ Tracked(m) /\ eval[e].pc = "selling"
        /\ t \in Tiers /\ t = currentTier[m]
    BY <1>5 DEF SellOk, TypeInv, TypeOK, EvalsTargetMints, TierInv, HoldersAtTier, EvalAtTier
  <2>2. UNCHANGED <<opener, currentTier, closed>> /\ \A f \in Evals \ {e} : eval'[f] = eval[f]
    BY <1>5 DEF SellOk, TypeInv, TypeOK
  <2>3. sells'[m] = Append(sells[m], t) /\ \A n \in Mints \ {m} : sells'[n] = sells[n]
    BY <1>5, <2>1 DEF SellOk, TypeInv, TypeOK
  <2>4. \/ eval'[e].pc = "idle"
        \/ eval'[e].pc = "closing" /\ eval'[e].mint = m /\ eval'[e].tier = t /\ t = TierAll
    BY <1>5 DEF SellOk, Idle, TypeInv, TypeOK
  <2>5. /\ sells'[m] # << >> /\ sells'[m][Len(sells'[m])] = t
        /\ Ascending(sells'[m], currentTier[m])
    BY <2>1, <2>3, AscendingAppend DEF TierInv, TypeInv, TypeOK
  <2>6. \A n : Tracked(n)' <=> Tracked(n)
    BY <2>2 DEF Tracked
  <2>7. closed[m] => t = TierAll
    <3>1. ASSUME closed[m] PROVE t = TierAll
      <4>1. /\ sells[m] \in Seq(Tiers) /\ sells[m] # << >>
            /\ sells[m][Len(sells[m])] = TierAll /\ Ascending(sells[m], t)
        BY <2>1, <3>1 DEF TierInv, SoldAll, TypeInv, TypeOK
      <4>2. Len(sells[m]) \in 1..Len(sells[m])
        BY <4>1
      <4>3. TierAll <= t
        BY <4>1, <4>2 DEF Ascending
      <4>4. QED
        BY <2>1, <4>3 DEF Tiers, TierS, TierQ, TierAll
    <3>2. QED
      BY <3>1
  <2>8. HoldersAtTier'
    <3>1. ASSUME NEW f \in Evals \ {e}
          PROVE  EvalAtTier(f)'
      <4>1. eval'[f] = eval[f]
        BY <2>2
      <4>2. eval[f].pc # "idle" => eval[f].mint \in Mints
        BY DEF TypeInv, EvalsTargetMints
      <4>3. eval[f].pc \in {"closing", "settle"} => eval[f].mint # m
        BY <2>1 DEF LockInv, Holding
      <4>4. EvalAtTier(f)
        BY DEF TierInv, HoldersAtTier
      <4>5. QED
        BY <2>2, <2>3, <4>1, <4>2, <4>3, <4>4 DEF EvalAtTier, SoldAll, Tracked
    <3>2. EvalAtTier(e)'
      BY <2>1, <2>2, <2>4, <2>5 DEF EvalAtTier, SoldAll, Tracked
    <3>3. QED
      BY <3>1, <3>2 DEF HoldersAtTier
  <2>9. QED
    BY <2>1, <2>2, <2>3, <2>5, <2>6, <2>7, <2>8 DEF TierInv, SoldAll
<1>6. ASSUME NEW e \in Evals, SellErr(e) \/ Settle(e) PROVE TierInv'
  <2>1. UNCHANGED <<opener, currentTier, sells, closed>>
    BY <1>6 DEF SellErr, Settle
  <2>2. eval'[e].pc = "idle" /\ \A f \in Evals \ {e} : eval'[f] = eval[f]
    BY <1>6 DEF SellErr, Settle, Idle, TypeInv, TypeOK
  <2>3. QED
    BY <2>1, <2>2, TierFrame
<1>7. ASSUME NEW e \in Evals, MarkClosed(e) PROVE TierInv'
  <2> DEFINE m == eval[e].mint
  <2>1. /\ m \in Mints /\ Tracked(m) /\ SoldAll(m)
        /\ eval[e].tier = TierAll /\ currentTier[m] = TierAll
    BY <1>7 DEF MarkClosed, TypeInv, EvalsTargetMints, TierInv, HoldersAtTier, EvalAtTier
  <2>2. UNCHANGED <<opener, currentTier, sells>> /\ \A f \in Evals \ {e} : eval'[f] = eval[f]
    BY <1>7 DEF MarkClosed, TypeInv, TypeOK
  <2>3. eval'[e].pc = "settle" /\ eval'[e].mint = m /\ eval'[e].tier = eval[e].tier
    BY <1>7 DEF MarkClosed, TypeInv, TypeOK
  <2>4. \A n \in Mints \ {m} : closed'[n] = closed[n]
    BY <1>7 DEF MarkClosed, TypeInv, TypeOK
  <2>5. \A n : (Tracked(n)' <=> Tracked(n)) /\ (SoldAll(n)' <=> SoldAll(n))
    BY <2>2 DEF Tracked, SoldAll
  <2>6. HoldersAtTier'
    BY <2>1, <2>2, <2>3, <2>5 DEF TierInv, HoldersAtTier, EvalAtTier
  <2>7. QED
    BY <2>1, <2>2, <2>4, <2>5, <2>6 DEF TierInv
<1>8. CASE \/ LogPanic \/ Listen
           \/ \E c \in Counters : Exit(c) \/ \E m \in Mints : Visit(c, m)
  BY <1>0, <1>8 DEF LogPanic, Listen, Exit, Visit, Tracked
<1>9. CASE UNCHANGED vars
  BY <1>0, <1>9 DEF vars, Tracked
<1>10. QED
  BY <1>1, <1>2, <1>3, <1>4, <1>5, <1>6, <1>7, <1>8, <1>9 DEF Next, Evaluate

\* At the start nothing is held and nothing was sold.
LEMMA TierInit == Init => TierInv
BY DEF Init, TierInv, HoldersAtTier, EvalAtTier, Idle, Ascending

\* The executed sells of every position are S sells, then Q sells, then sells
\* of everything.
THEOREM TiersCorrect == Spec => []SellsFollowTiers
<1>1. TierInv => SellsFollowTiers
  BY DEF TierInv, SellsFollowTiers, Ascending
<1>2. Init => LockInv
  BY DEF Init, LockInv, Holding, Idle
<1>3. QED
  BY <1>1, <1>2, TypeInit, TypeNext, LockNext, TierInit, TierNext, PTL DEF Spec

\* Only a position whose tokens were all sold is marked closed.
THEOREM ClosedCorrect == Spec => []ClosedAfterAllSold
<1>1. TierInv => ClosedAfterAllSold
  BY DEF TierInv, ClosedAfterAllSold, SoldAll
<1>2. Init => LockInv
  BY DEF Init, LockInv, Holding, Idle
<1>3. QED
  BY <1>1, <1>2, TypeInit, TypeNext, LockNext, TierInit, TierNext, PTL DEF Spec

-----------------------------------------------------------------------------
(* Draining.  OpenCount is no snapshot, but a closed position stays closed  *)
(* and a tracked one stays tracked: what a scan saw closed is still so.    *)

DrainInv ==
    /\ main = "listen" => \A c \in Counters : scan[c] = {}
    /\ \A m \in atDrain : Tracked(m)
    /\ \A c \in Counters : \A m \in scan[c] \cap atDrain : closed[m]
    /\ DrainedPositionsClosed

\* A step that leaves main's variables alone keeps DrainInv when it forgets
\* neither a tracked nor a closed position.
LEMMA DrainFrame ==
    ASSUME TypeInv, DrainInv, UNCHANGED mainVars,
           \A m \in Mints : /\ Tracked(m) => Tracked(m)'
                            /\ closed[m] => closed'[m]
    PROVE  DrainInv'
BY DEF DrainInv, DrainedPositionsClosed, mainVars, TypeInv, TypeOK

\* Every step keeps what the loops of WaitForExit have passed closed.
LEMMA DrainNext == TypeInv /\ DrainInv /\ [Next]_vars => DrainInv'
<1> SUFFICES ASSUME TypeInv, DrainInv, [Next]_vars PROVE DrainInv'
  OBVIOUS
<1>1. ASSUME NEW m \in Mints,
             \/ \E mcap \in CreateMcaps : HandleCreate(m, mcap)
             \/ BuyOk(m) \/ BuyErr(m) \/ BuyRecorded(m)
      PROVE  DrainInv'
  <2>1. UNCHANGED <<mainVars, closed>>
    BY <1>1 DEF HandleCreate, newPosition, BuyOk, BuyErr, BuyRecorded, positionVars
  <2>2. ~Tracked(m) \/ opener'[m] = "recorded"
    BY <1>1 DEF HandleCreate, newPosition, BuyOk, BuyErr, BuyRecorded, Tracked, TypeInv, TypeOK
  <2>3. \A n \in Mints \ {m} : opener'[n] = opener[n]
    BY <1>1 DEF HandleCreate, newPosition, BuyOk, BuyErr, BuyRecorded, TypeInv, TypeOK
  <2>4. QED
    BY <2>1, <2>2, <2>3, DrainFrame DEF Tracked, mainVars
<1>2. ASSUME NEW m \in Mints, NEW e \in Evals,
             \/ \E mcap \in TradeMcaps : HandleTrade(m, mcap, e)
             \/ SafetyTick(m, e)
      PROVE  DrainInv'
  <2>1. UNCHANGED <<mainVars, opener, closed>>
    BY <1>2 DEF HandleTrade, SafetyTick, positionVars
  <2>2. QED
    BY <2>1, DrainFrame DEF Tracked, mainVars
<1>3. ASSUME NEW e \in Evals, Evaluate(e) PROVE DrainInv'
  <2>1. UNCHANGED <<mainVars, opener>>
    BY <1>3 DEF Evaluate, CheckClosed, TryLock, SellOk, SellErr, MarkClosed, Settle
  <2>2. \A m \in Mints : closed[m] => closed'[m]
    BY <1>3 DEF Evaluate, CheckClosed, TryLock, SellOk, SellErr, MarkClosed, Settle,
                positionVars, TypeInv, TypeOK
  <2>3. QED
    BY <2>1, <2>2, DrainFrame DEF Tracked, mainVars
<1>4. CASE LogPanic
  BY <1>4 DEF LogPanic, Running, DrainInv, DrainedPositionsClosed, Tracked, positionVars
<1>5. CASE Listen
  BY <1>5 DEF Listen, DrainInv, DrainedPositionsClosed, Tracked, positionVars, TypeInv, TypeOK
<1>6. ASSUME NEW c \in Counters, NEW m \in Mints, Visit(c, m) PROVE DrainInv'
  <2>1. /\ UNCHANGED <<main, atDrain, opener, closed>>
        /\ main = "wait"
        /\ scan'[c] = IF IsOpen(m) THEN {} ELSE scan[c] \cup {m}
        /\ \A d \in Counters \ {c} : scan'[d] = scan[d]
    BY <1>6 DEF Visit, positionVars, TypeInv, TypeOK
  <2>2. m \in atDrain /\ ~IsOpen(m) => closed[m]
    BY DEF DrainInv, IsOpen
  <2>3. \A d \in Counters : \A n \in scan'[d] \cap atDrain : closed[n]
    BY <2>1, <2>2 DEF DrainInv
  <2>4. QED
    BY <2>1, <2>3 DEF DrainInv, DrainedPositionsClosed, Tracked
<1>7. ASSUME NEW c \in Counters, Exit(c) PROVE DrainInv'
  <2>1. UNCHANGED <<scan, atDrain, opener, closed>> /\ main' = "exited" /\ scan[c] = Mints
    BY <1>7 DEF Exit, positionVars
  <2>2. \A m \in atDrain : closed[m]
    BY <2>1 DEF DrainInv, TypeInv, TypeOK
  <2>3. QED
    BY <2>1, <2>2 DEF DrainInv, DrainedPositionsClosed, Tracked
<1>8. CASE UNCHANGED vars
  BY <1>8, DrainFrame DEF vars, mainVars, positionVars, Tracked
<1>9. QED
  BY <1>1, <1>2, <1>3, <1>4, <1>5, <1>6, <1>7, <1>8 DEF Next

\* The bot never exits while a position it held when the drain began is open.
THEOREM DrainCorrect == Spec => []DrainedPositionsClosed
<1>1. Init => DrainInv
  BY DEF Init, DrainInv, DrainedPositionsClosed
<1>2. DrainInv => DrainedPositionsClosed
  BY DEF DrainInv
<1>3. QED
  BY <1>1, <1>2, TypeInit, TypeNext, DrainNext, PTL DEF Spec

-----------------------------------------------------------------------------
(* After the close.                                                        *)

\* The action of OnlyLateSellersAfterClose.
OnlyLateSellers ==
    \A m \in Mints : closed[m] =>
       /\ PastCheck(m)' \subseteq PastCheck(m)
       /\ sells'[m] \in {sells[m], Append(sells[m], TierAll)}

\* A closed position has reached the last tier.
LEMMA ClosedAtTierAll ==
    ASSUME TypeInv, TierInv, NEW m \in Mints, closed[m]
    PROVE  currentTier[m] = TierAll
<1>1. /\ sells[m] \in Seq(Tiers) /\ sells[m] # << >> /\ currentTier[m] \in Tiers
      /\ sells[m][Len(sells[m])] = TierAll /\ Ascending(sells[m], currentTier[m])
  BY DEF TierInv, SoldAll, TypeInv, TypeOK
<1>2. Len(sells[m]) \in 1..Len(sells[m])
  BY <1>1
<1>3. TierAll <= currentTier[m]
  BY <1>1, <1>2 DEF Ascending
<1>4. QED
  BY <1>1, <1>3 DEF Tiers, TierS, TierQ, TierAll

\* A step on a closed position comes from an evaluator that was past the IsClosed check.
LEMMA LateSellersNext == TypeInv /\ TierInv /\ [Next]_vars => OnlyLateSellers
<1> SUFFICES ASSUME TypeInv, TierInv, [Next]_vars, NEW m \in Mints, closed[m]
             PROVE  /\ PastCheck(m)' \subseteq PastCheck(m)
                    /\ sells'[m] \in {sells[m], Append(sells[m], TierAll)}
  BY DEF OnlyLateSellers
<1> USE DEF mainVars, positionVars
<1> DEFINE Goal == /\ PastCheck(m)' \subseteq PastCheck(m)
                   /\ sells'[m] \in {sells[m], Append(sells[m], TierAll)}
<1>1. ASSUME eval' = eval, sells' = sells PROVE Goal
  BY <1>1 DEF PastCheck
<1>2. ASSUME NEW e \in Evals, sells' = sells, \A f \in Evals \ {e} : eval'[f] = eval[f],
             \/ eval'[e].pc \in {"idle", "check"}
             \/ eval'[e].mint # m
             \/ e \in PastCheck(m)
      PROVE  Goal
  BY <1>2 DEF PastCheck
<1>3. ASSUME NEW n \in Mints, NEW e \in Evals,
             \/ \E mcap \in TradeMcaps : HandleTrade(n, mcap, e)
             \/ SafetyTick(n, e)
      PROVE  Goal
  <2>1. /\ sells' = sells /\ eval'[e].pc = "check"
        /\ \A f \in Evals \ {e} : eval'[f] = eval[f]
    BY <1>3 DEF HandleTrade, SafetyTick, Spawned, TypeInv, TypeOK
  <2>2. QED
    BY <1>2, <2>1
<1>4. ASSUME NEW e \in Evals, CheckClosed(e) PROVE Goal
  <2>1. /\ sells' = sells
        /\ eval'[e].pc = "idle" \/ eval'[e].mint # m
        /\ \A f \in Evals \ {e} : eval'[f] = eval[f]
    BY <1>4 DEF CheckClosed, Idle, TypeInv, TypeOK
  <2>2. QED
    BY <1>2, <2>1
<1>5. ASSUME NEW e \in Evals, TryLock(e) \/ SellErr(e) \/ MarkClosed(e) \/ Settle(e)
      PROVE  Goal
  <2>1. /\ sells' = sells
        /\ eval[e].pc \notin {"idle", "check"}
        /\ eval'[e].pc = "idle" \/ eval'[e].mint = eval[e].mint
        /\ \A f \in Evals \ {e} : eval'[f] = eval[f]
    BY <1>5 DEF TryLock, SellErr, MarkClosed, Settle, Idle, TypeInv, TypeOK
  <2>2. QED
    BY <1>2, <2>1 DEF PastCheck
<1>6. ASSUME NEW e \in Evals, SellOk(e) PROVE Goal
  <2>1. /\ eval[e].pc = "selling" /\ eval[e].mint \in Mints
        /\ eval'[e].pc = "idle" \/ eval'[e].mint = eval[e].mint
        /\ \A f \in Evals \ {e} : eval'[f] = eval[f]
        /\ sells' = [sells EXCEPT ![eval[e].mint] = Append(@, eval[e].tier)]
    BY <1>6 DEF SellOk, Idle, TypeInv, TypeOK, EvalsTargetMints
  <2>2. eval[e].mint = m => eval[e].tier = TierAll
    BY <2>1, ClosedAtTierAll DEF TierInv, HoldersAtTier, EvalAtTier
  <2>3. sells'[m] \in {sells[m], Append(sells[m], TierAll)}
    BY <2>1, <2>2 DEF TypeInv, TypeOK
  <2>4. PastCheck(m)' \subseteq PastCheck(m)
    BY <2>1 DEF PastCheck
  <2>5. QED
    BY <2>3, <2>4
<1>7. CASE \/ \E n \in Mints : \/ \E mcap \in CreateMcaps : HandleCreate(n, mcap)
                               \/ BuyOk(n) \/ BuyErr(n) \/ BuyRecorded(n)
           \/ LogPanic \/ Listen
           \/ \E c \in Counters : Exit(c) \/ \E n \in Mints : Visit(c, n)
           \/ UNCHANGED vars
  BY <1>1, <1>7
  DEF HandleCreate, newPosition, BuyOk, BuyErr, BuyRecorded, LogPanic, Listen, Exit,
                    Visit, vars
<1>8. QED
  BY <1>3, <1>4, <1>5, <1>6, <1>7 DEF Next, Evaluate

\* After the close only evaluators that were past the check can sell, and they
\* sell everything.
THEOREM LateSellersCorrect == Spec => OnlyLateSellersAfterClose
<1>1. Init => LockInv
  BY DEF Init, LockInv, Holding, Idle
<1>2. TypeInv /\ TierInv /\ [Next]_vars => [OnlyLateSellers]_vars
  BY LateSellersNext
<1>3. Spec => [][OnlyLateSellers]_vars
  BY <1>1, <1>2, TypeInit, TypeNext, LockNext, TierInit, TierNext, PTL DEF Spec
<1>4. QED
  BY <1>3 DEF OnlyLateSellers, OnlyLateSellersAfterClose

-----------------------------------------------------------------------------
(* Refinement: every step of the engine is a step of the lifecycle of one   *)
(* position, or leaves all positions as they are.                          *)

StatusMap == [m \in Mints |-> Status(m)]

\* A step that opens and closes nothing keeps every status of the lifecycle.
LEMMA StatusUnchanged ==
    ASSUME UNCHANGED <<opener, closed>> PROVE StatusMap' = StatusMap
BY DEF StatusMap, Status, Tracked

\* The initial states of the engine are those of the lifecycle.
LEMMA LifeInit == Init => Life!Init
<1> SUFFICES ASSUME Init PROVE Life!Init
  OBVIOUS
<1>1. StatusMap = [m \in Mints |-> "none"]
  BY DEF Init, StatusMap, Status, Tracked
<1>2. QED
  BY <1>1 DEF Init, Life!Init, Life!S, TierS, StatusMap

\* Every step of the engine is a step of the lifecycle or changes nothing it sees.
LEMMA LifeNext == TypeInv /\ TierInv /\ [Next]_vars => [Life!Next]_(Life!vars)
<1> SUFFICES ASSUME TypeInv, TierInv, [Next]_vars
             PROVE  Life!Next \/ UNCHANGED <<StatusMap, currentTier, sells>>
  BY DEF Life!vars, StatusMap
<1> USE DEF mainVars, positionVars
<1> DEFINE Goal == Life!Next \/ UNCHANGED <<StatusMap, currentTier, sells>>
<1>0. ASSUME UNCHANGED <<opener, closed, currentTier, sells>> PROVE Goal
  BY <1>0, StatusUnchanged
<1>1. ASSUME NEW m \in Mints,
             (\E mcap \in CreateMcaps : HandleCreate(m, mcap)) \/ BuyErr(m) \/ BuyRecorded(m)
      PROVE  Goal
  <2>1. UNCHANGED <<closed, currentTier, sells>>
    BY <1>1 DEF HandleCreate, newPosition, BuyErr, BuyRecorded
  <2>2. \A n \in Mints : Tracked(n)' <=> Tracked(n)
    BY <1>1 DEF HandleCreate, newPosition, BuyErr, BuyRecorded, Tracked, TypeInv, TypeOK
  <2>3. StatusMap' = StatusMap
    BY <2>1, <2>2 DEF StatusMap, Status
  <2>4. QED
    BY <2>1, <2>3
<1>2. ASSUME NEW m \in Mints, BuyOk(m) PROVE Goal
  <2>1. UNCHANGED <<closed, currentTier, sells>> /\ ~Tracked(m) /\ ~closed[m]
    BY <1>2 DEF BuyOk, Tracked, TierInv
  <2>2. Tracked(m)' /\ \A n \in Mints \ {m} : Tracked(n)' <=> Tracked(n)
    BY <1>2 DEF BuyOk, Tracked, TypeInv, TypeOK
  <2>3. StatusMap' = [StatusMap EXCEPT ![m] = "open"] /\ StatusMap[m] = "none"
    BY <2>1, <2>2 DEF StatusMap, Status
  <2>4. Life!Open(m)
    BY <2>1, <2>3 DEF Life!Open, StatusMap
  <2>5. QED
    BY <2>4 DEF Life!Next
<1>3. ASSUME NEW m \in Mints, NEW e \in Evals,
             \/ \E mcap \in TradeMcaps : HandleTrade(m, mcap, e)
             \/ SafetyTick(m, e)
      PROVE  Goal
  BY <1>0, <1>3 DEF HandleTrade, SafetyTick
<1>4. ASSUME NEW e \in Evals, CheckClosed(e) \/ SellErr(e) \/ Settle(e) PROVE Goal
  BY <1>0, <1>4 DEF CheckClosed, SellErr, Settle
<1>5. ASSUME NEW e \in Evals, TryLock(e) PROVE Goal
  <2> DEFINE m == eval[e].mint
             t == NextTier(e, m)
  <2>1. m \in Mints /\ Tracked(m)
    BY <1>5 DEF TryLock, TypeInv, EvalsTargetMints, TierInv, HoldersAtTier, EvalAtTier
  <2>2. /\ t \in Tiers /\ t >= currentTier[m] /\ currentTier[m] \in Tiers
        /\ currentTier[m] = TierAll => t = TierAll
    BY <2>1, NextTierTyped DEF TypeInv, TypeOK
  <2>3. UNCHANGED <<opener, closed, sells>>
    BY <1>5 DEF TryLock
  <2>4. currentTier' = currentTier \/ currentTier' = [currentTier EXCEPT ![m] = t]
    BY <1>5 DEF TryLock
  <2>5. CASE currentTier' = currentTier
    BY <1>0, <2>3, <2>5
  <2>6. CASE currentTier' = [currentTier EXCEPT ![m] = t] /\ t = currentTier[m]
    <3>1. currentTier' = currentTier
      BY <2>1, <2>6 DEF TypeInv, TypeOK
    <3>2. QED
      BY <1>0, <2>3, <3>1
  <2>7. CASE currentTier' = [currentTier EXCEPT ![m] = t] /\ t # currentTier[m]
    <3>1. ~closed[m]
      BY <2>1, <2>2, <2>7, ClosedAtTierAll
    <3>2. StatusMap[m] = "open" /\ StatusMap' = StatusMap
      BY <2>1, <2>3, <3>1, StatusUnchanged DEF StatusMap, Status
    <3>3. t > currentTier[m] /\ t \in {Life!Q, Life!All}
      BY <2>2, <2>7 DEF Tiers, TierS, TierQ, TierAll, Life!Q, Life!All
    <3>4. Life!Raise(m, t)
      BY <2>3, <2>7, <3>2, <3>3 DEF Life!Raise, StatusMap
    <3>5. QED
      BY <2>1, <3>3, <3>4 DEF Life!Next
  <2>8. QED
    BY <2>4, <2>5, <2>6, <2>7
<1>6. ASSUME NEW e \in Evals, SellOk(e) PROVE Goal
  <2> DEFINE m == eval[e].mint
  <2>1. /\ m \in Mints /\ Tracked(m) /\ eval[e].tier = currentTier[m]
    BY <1>6 DEF SellOk, TypeInv, EvalsTargetMints, TierInv, HoldersAtTier, EvalAtTier
  <2>2. UNCHANGED <<opener, closed, currentTier>>
    BY <1>6 DEF SellOk
  <2>3. sells' = [sells EXCEPT ![m] = Append(@, currentTier[m])]
    BY <1>6, <2>1 DEF SellOk
  <2>4. StatusMap' = StatusMap /\ StatusMap[m] = IF closed[m] THEN "closed" ELSE "open"
    BY <2>1, <2>2, StatusUnchanged DEF StatusMap, Status
  <2>5. closed[m] => currentTier[m] = Life!All
    BY <2>1, ClosedAtTierAll DEF TierAll, Life!All
  <2>6. Life!Sell(m)
    BY <2>2, <2>3, <2>4, <2>5 DEF Life!Sell, StatusMap
  <2>7. QED
    BY <2>1, <2>6 DEF Life!Next
<1>7. ASSUME NEW e \in Evals, MarkClosed(e) PROVE Goal
  <2> DEFINE m == eval[e].mint
  <2>1. m \in Mints /\ Tracked(m) /\ SoldAll(m)
    BY <1>7 DEF MarkClosed, TypeInv, EvalsTargetMints, TierInv, HoldersAtTier, EvalAtTier
  <2>2. /\ UNCHANGED <<opener, currentTier, sells>>
        /\ closed' = [closed EXCEPT ![m] = TRUE]
    BY <1>7 DEF MarkClosed
  <2>3. \A n \in Mints : Tracked(n)' <=> Tracked(n)
    BY <2>2 DEF Tracked
  <2>4. CASE closed[m]
    <3>1. closed' = closed
      BY <2>1, <2>2, <2>4 DEF TypeInv, TypeOK
    <3>2. QED
      BY <1>0, <2>2, <3>1
  <2>5. CASE ~closed[m]
    <3>1. StatusMap[m] = "open" /\ StatusMap' = [StatusMap EXCEPT ![m] = "closed"]
      BY <2>1, <2>2, <2>3, <2>5 DEF StatusMap, Status, TypeInv, TypeOK
    <3>2. Life!Close(m)
      BY <2>1, <2>2, <3>1 DEF Life!Close, StatusMap, SoldAll, TierAll, Life!All
    <3>3. QED
      BY <2>1, <3>2 DEF Life!Next
  <2>6. QED
    BY <2>4, <2>5
<1>8. CASE \/ LogPanic \/ Listen
           \/ \E c \in Counters : Exit(c) \/ \E n \in Mints : Visit(c, n)
           \/ UNCHANGED vars
  BY <1>0, <1>8 DEF LogPanic, Listen, Exit, Visit, vars
<1>9. QED
  BY <1>1, <1>2, <1>3, <1>4, <1>5, <1>6, <1>7, <1>8 DEF Next, Evaluate

\* The engine implements the abstract lifecycle of positions.
THEOREM EngineImplementsLifecycle == Spec => ImplementsLifecycle
<1>1. Init => LockInv
  BY DEF Init, LockInv, Holding, Idle
<1>2. Spec => Life!Init /\ [][Life!Next]_(Life!vars)
  BY <1>1, LifeInit, LifeNext, TypeInit, TypeNext, LockNext, TierInit, TierNext, PTL DEF Spec
<1>3. QED
  BY <1>2 DEF ImplementsLifecycle, Life!Spec

-----------------------------------------------------------------------------
(* The open counter of the ledger against the positions, for every finite  *)
(* number of mints and of evaluators.                                      *)

\* Positions in the map that RecordBuy has not counted yet.
Uncounted == {m \in Mints : opener[m] = "stored"}
Opened == {m \in Mints : IsOpen(m)}
\* Evaluators that closed a position and have not told the ledger yet.
Settling == {e \in Evals : eval[e].pc = "settle"}

\* LedgerNeverOverstatesOpen, with the buys that are still to be counted.
LedgerInv ==
    ledger.open + Cardinality(Uncounted) <= Cardinality(Opened) + Cardinality(Settling)

LEMMA LedgerSame ==
    ASSUME LedgerInv, ledger' = ledger, Uncounted' = Uncounted, Opened' = Opened,
           Settling' = Settling
    PROVE  LedgerInv'
BY DEF LedgerInv

LEMMA LedgerNext ==
    ASSUME IsFiniteSet(Mints), IsFiniteSet(Evals),
           TypeInv, TierInv, LedgerInv, [Next]_vars
    PROVE  LedgerInv'
<1> USE DEF mainVars, positionVars
<1>f. /\ IsFiniteSet(Uncounted) /\ IsFiniteSet(Opened) /\ IsFiniteSet(Settling)
      /\ IsFiniteSet(Uncounted') /\ IsFiniteSet(Opened') /\ IsFiniteSet(Settling')
  BY FS_Subset DEF Uncounted, Opened, Settling
<1>n. /\ Cardinality(Uncounted) \in Nat /\ Cardinality(Opened) \in Nat
      /\ Cardinality(Settling) \in Nat
      /\ Cardinality(Uncounted') \in Nat /\ Cardinality(Opened') \in Nat
      /\ Cardinality(Settling') \in Nat
  BY <1>f, FS_CardinalityType
<1>o. ledger \in Ledger /\ ledger.open \in Int
  BY DEF TypeInv, TypeOK, Ledger
<1>1. ASSUME UNCHANGED <<opener, closed, ledger>>, Settling' = Settling PROVE LedgerInv'
  BY <1>1, LedgerSame DEF Uncounted, Opened, IsOpen, Tracked
<1>2. ASSUME NEW m \in Mints, NEW mcap \in CreateMcaps, HandleCreate(m, mcap) PROVE LedgerInv'
  <2>1. /\ opener[m] = "none" /\ opener'[m] = "buying"
        /\ \A n \in Mints \ {m} : opener'[n] = opener[n]
        /\ UNCHANGED <<closed, ledger, eval>>
    BY <1>2 DEF HandleCreate, newPosition, TypeInv, TypeOK
  <2>2. QED
    BY <2>1, LedgerSame DEF Uncounted, Opened, Settling, IsOpen, Tracked
<1>3. ASSUME NEW m \in Mints, BuyOk(m) PROVE LedgerInv'
  <2>1. /\ opener[m] = "buying" /\ opener'[m] = "stored"
        /\ \A n \in Mints \ {m} : opener'[n] = opener[n]
        /\ UNCHANGED <<closed, ledger, eval>>
    BY <1>3 DEF BuyOk, TypeInv, TypeOK
  <2>2. ~closed[m]
    BY <2>1 DEF TierInv, Tracked
  <2>3. Uncounted' = Uncounted \cup {m} /\ m \notin Uncounted
    BY <2>1 DEF Uncounted
  <2>4. Opened' = Opened \cup {m} /\ m \notin Opened
    BY <2>1, <2>2 DEF Opened, IsOpen, Tracked
  <2>5. Cardinality(Uncounted') = Cardinality(Uncounted) + 1
    BY <1>f, <2>3, FS_AddElement
  <2>6. Cardinality(Opened') = Cardinality(Opened) + 1
    BY <1>f, <2>4, FS_AddElement
  <2>7. Settling' = Settling
    BY <2>1 DEF Settling
  <2>8. QED
    BY <1>n, <1>o, <2>1, <2>5, <2>6, <2>7 DEF LedgerInv
<1>4. ASSUME NEW m \in Mints, BuyErr(m) PROVE LedgerInv'
  <2>1. /\ opener[m] = "buying" /\ opener'[m] = "failed"
        /\ \A n \in Mints \ {m} : opener'[n] = opener[n]
        /\ UNCHANGED <<closed, ledger, eval>>
    BY <1>4 DEF BuyErr, TypeInv, TypeOK
  <2>2. QED
    BY <2>1, LedgerSame DEF Uncounted, Opened, Settling, IsOpen, Tracked
<1>5. ASSUME NEW m \in Mints, BuyRecorded(m) PROVE LedgerInv'
  <2>1. /\ opener[m] = "stored" /\ opener'[m] = "recorded"
        /\ \A n \in Mints \ {m} : opener'[n] = opener[n]
        /\ UNCHANGED <<closed, eval>>
    BY <1>5 DEF BuyRecorded, TypeInv, TypeOK
  <2>2. ledger'.open = ledger.open + 1
    BY <1>5, <1>o DEF BuyRecorded, RecordBuy, Ledger
  <2>3. Uncounted' = Uncounted \ {m} /\ m \in Uncounted
    BY <2>1 DEF Uncounted
  <2>4. Cardinality(Uncounted') = Cardinality(Uncounted) - 1
    BY <1>f, <2>3, FS_RemoveElement
  <2>5. Opened' = Opened /\ Settling' = Settling
    BY <2>1 DEF Opened, Settling, IsOpen, Tracked
  <2>6. QED
    BY <1>n, <1>o, <2>2, <2>4, <2>5 DEF LedgerInv
<1>6. ASSUME NEW m \in Mints, NEW e \in Evals,
             \/ \E mcap \in TradeMcaps : HandleTrade(m, mcap, e)
             \/ SafetyTick(m, e)
      PROVE  LedgerInv'
  <2>1. /\ eval[e].pc = "idle" /\ eval'[e].pc = "check"
        /\ \A f \in Evals \ {e} : eval'[f] = eval[f]
        /\ UNCHANGED <<opener, closed, ledger>>
    BY <1>6 DEF HandleTrade, SafetyTick, Spawned, TypeInv, TypeOK
  <2>2. QED
    BY <1>1, <2>1 DEF Settling
<1>7. ASSUME NEW e \in Evals, CheckClosed(e) \/ TryLock(e) \/ SellErr(e) PROVE LedgerInv'
  <2>1. \A f \in Evals \ {e} : eval'[f] = eval[f]
    BY <1>7 DEF CheckClosed, TryLock, SellErr, TypeInv, TypeOK
  <2>2. eval[e].pc # "settle" /\ eval'[e].pc # "settle"
    <3>1. CASE eval' = [eval EXCEPT ![e] = Idle]
      BY <1>7, <3>1 DEF CheckClosed, TryLock, SellErr, Idle, TypeInv, TypeOK
    <3>2. CASE CheckClosed(e) \/ TryLock(e)
      BY <3>2 DEF CheckClosed, TryLock, Idle, TypeInv, TypeOK
    <3>3. QED
      BY <1>7, <3>1, <3>2 DEF SellErr
  <2>3. UNCHANGED <<opener, closed, ledger>>
    BY <1>7 DEF CheckClosed, TryLock, SellErr
  <2>4. QED
    BY <1>1, <2>1, <2>2, <2>3 DEF Settling
<1>8. ASSUME NEW e \in Evals, SellOk(e) PROVE LedgerInv'
  <2>1. /\ eval[e].pc = "selling" /\ eval'[e].pc \in {"closing", "idle"}
        /\ \A f \in Evals \ {e} : eval'[f] = eval[f]
        /\ UNCHANGED <<opener, closed>>
    BY <1>8 DEF SellOk, Idle, TypeInv, TypeOK
  <2>2. ledger'.open = ledger.open
    BY <1>8, <1>o DEF SellOk, RecordSell, Ledger
  <2>3. Settling' = Settling /\ Uncounted' = Uncounted /\ Opened' = Opened
    BY <2>1 DEF Settling, Uncounted, Opened, IsOpen, Tracked
  <2>4. QED
    BY <2>2, <2>3 DEF LedgerInv
<1>9. ASSUME NEW e \in Evals, MarkClosed(e) PROVE LedgerInv'
  <2>1. PICK m \in Mints : m = eval[e].mint
    BY <1>9 DEF MarkClosed, TypeInv, EvalsTargetMints
  <2>2. /\ eval[e].pc = "closing" /\ eval'[e].pc = "settle"
        /\ \A f \in Evals \ {e} : eval'[f] = eval[f]
        /\ closed'[m] /\ \A n \in Mints \ {m} : closed'[n] = closed[n]
        /\ UNCHANGED <<opener, ledger>>
    BY <1>9, <2>1 DEF MarkClosed, TypeInv, TypeOK
  <2>3. Settling' = Settling \cup {e} /\ e \notin Settling
    BY <2>2 DEF Settling
  <2>4. Opened' = Opened \ {m} /\ Uncounted' = Uncounted
    BY <2>2 DEF Opened, Uncounted, IsOpen, Tracked
  <2>5. Cardinality(Settling') = Cardinality(Settling) + 1
    BY <1>f, <2>3, FS_AddElement
  <2>6. Cardinality(Opened') >= Cardinality(Opened) - 1
    BY <1>f, <1>n, <2>4, FS_RemoveElement
  <2>7. QED
    BY <1>n, <1>o, <2>2, <2>4, <2>5, <2>6 DEF LedgerInv
<1>10. ASSUME NEW e \in Evals, Settle(e) PROVE LedgerInv'
  <2>1. /\ eval[e].pc = "settle" /\ eval'[e].pc = "idle"
        /\ \A f \in Evals \ {e} : eval'[f] = eval[f]
        /\ UNCHANGED <<opener, closed>>
    BY <1>10 DEF Settle, Idle, TypeInv, TypeOK
  <2>2. ledger'.open = ledger.open - 1
    BY <1>10, <1>o DEF Settle, RecordPositionClosed, Ledger
  <2>3. Settling' = Settling \ {e} /\ e \in Settling
    BY <2>1 DEF Settling
  <2>4. Cardinality(Settling') = Cardinality(Settling) - 1
    BY <1>f, <2>3, FS_RemoveElement
  <2>5. Uncounted' = Uncounted /\ Opened' = Opened
    BY <2>1 DEF Uncounted, Opened, IsOpen, Tracked
  <2>6. QED
    BY <1>n, <1>o, <2>2, <2>4, <2>5 DEF LedgerInv
<1>11. CASE \/ LogPanic \/ Listen
            \/ \E c \in Counters : Exit(c) \/ \E m \in Mints : Visit(c, m)
  BY <1>1, <1>11 DEF LogPanic, Listen, Exit, Visit, Settling
<1>12. CASE UNCHANGED vars
  BY <1>1, <1>12 DEF vars, Settling
<1>13. QED
  BY <1>2, <1>3, <1>4, <1>5, <1>6, <1>7, <1>8, <1>9, <1>10, <1>11, <1>12 DEF Next, Evaluate

\* The open counter of the dashboard lags the positions but never shows more of
\* them than are open or about to be counted as closed, although RecordBuy comes
\* after the position is in the map and two late sells of everything both close
\* it.
THEOREM LedgerCorrect ==
    ASSUME IsFiniteSet(Mints), IsFiniteSet(Evals)
    PROVE  Spec => []LedgerNeverOverstatesOpen
<1>1. Init => LedgerInv
  <2> SUFFICES ASSUME Init PROVE LedgerInv
    OBVIOUS
  <2>1. Uncounted = {} /\ Opened = {} /\ Settling = {}
    BY DEF Init, Uncounted, Opened, Settling, IsOpen, Tracked, Idle
  <2>2. ledger.open = 0
    BY DEF Init, NewLedger
  <2>3. QED
    BY <2>1, <2>2, FS_EmptySet DEF LedgerInv
<1>2. TypeInv /\ LedgerInv => LedgerNeverOverstatesOpen
  <2> SUFFICES ASSUME TypeInv, LedgerInv PROVE LedgerNeverOverstatesOpen
    OBVIOUS
  <2>1. IsFiniteSet(Uncounted) /\ IsFiniteSet(Opened) /\ IsFiniteSet(Settling)
    BY FS_Subset DEF Uncounted, Opened, Settling
  <2>2. /\ Cardinality(Uncounted) \in Nat /\ Cardinality(Opened) \in Nat
        /\ Cardinality(Settling) \in Nat /\ ledger.open \in Int
    BY <2>1, FS_CardinalityType DEF TypeInv, TypeOK, Ledger
  <2>3. ledger.open <= Cardinality(Opened) + Cardinality(Settling)
    BY <2>2 DEF LedgerInv
  <2>4. QED
    BY <2>3 DEF LedgerNeverOverstatesOpen, Opened, Settling
<1>3. Init => LockInv
  BY DEF Init, LockInv, Holding, Idle
<1>4. TypeInv /\ TierInv /\ LedgerInv /\ [Next]_vars => LedgerInv'
  BY LedgerNext
<1>5. QED
  BY <1>1, <1>2, <1>3, <1>4, TypeInit, TypeNext, LockNext, TierInit, TierNext, PTL DEF Spec
===============================================================================
