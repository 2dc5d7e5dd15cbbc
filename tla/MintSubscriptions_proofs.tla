----------------------- MODULE MintSubscriptions_proofs -----------------------
(***************************************************************************)
(* What holds of the watched mints for every set of mints and every chunk  *)
(* size of connect.                                                        *)
(***************************************************************************)
EXTENDS MintSubscriptions, TLAPS

-----------------------------------------------------------------------------
(* The inductive invariant.                                                *)

\* Nothing is known of a mint that was not created.
UnbornInv ==
    \A m \in Mints : chain[m] = "unborn" =>
       row[m] = "none" /\ m \notin active /\ m \notin marked /\ m \notin told /\ m \notin pruner.mints

\* The mint the handler is at: it was never watched before "add", and has
\* migrated at "remove".
ReaderInv ==
    /\ reader.pc = "dial" => ~alive
    /\ reader.pc \in {"add", "subscribe", "remove", "unsubscribe"} => reader.mint \in Mints
    /\ reader.pc = "add" =>
          /\ reader.mint \notin active /\ reader.mint \notin marked \cup told
          /\ chain[reader.mint] # "unborn"
          /\ pruner.pc \in {"stale", "unsubscribe"} => reader.mint \notin pruner.mints
    /\ reader.pc \in {"remove", "unsubscribe"} => chain[reader.mint] = "migrated"
    /\ reader.pc = "unsubscribe" => reader.mint \notin active

\* What the pruner is about to unsubscribe has not become active again.
PruneInv ==
    pruner.pc = "unsubscribe" /\ pruner.conn = "current" => pruner.mints \cap active = {}

\* ActiveSubscribed, and what connect and the handler still have to subscribe.
Coming == reader.todo \cup (IF reader.pc = "subscribe" THEN {reader.mint} ELSE {})

SubsInv ==
    /\ alive => active \subseteq subs \cup Coming
    /\ reader.todo # {} => reader.pc \in {"announce", "resubscribe"}

\* A subscribed mint, and one whose row is about to be updated, is active, or it
\* was taken out of the active set.
KnownInv ==
    \A m \in subs \cup Coming \cup late : m \in active \/ m \in dropped \/ chain[m] = "migrated"

WatchInv ==
    /\ UnbornInv /\ ReaderInv /\ PruneInv
    /\ SubsInv /\ KnownInv
    /\ MigratedUnwatched /\ FreshWatched

Inv == TypeOK /\ WatchInv

-----------------------------------------------------------------------------
LEMMA InvInit == Init => Inv
<1> SUFFICES ASSUME Init PROVE Inv
  OBVIOUS
<1>1. TypeOK
  BY DEF Init, TypeOK, NewReader, NewPruner, ReaderSteps
<1>2. UnbornInv /\ ReaderInv /\ PruneInv /\ SubsInv /\ KnownInv
  BY DEF Init, NewReader, NewPruner, UnbornInv, ReaderInv, PruneInv, SubsInv, KnownInv, Coming
<1>3. MigratedUnwatched /\ FreshWatched
  BY DEF Init, MigratedUnwatched, FreshWatched, ActiveRows
<1>4. QED
  BY <1>1, <1>2, <1>3 DEF Inv, WatchInv

LEMMA TypeStep == TypeOK /\ ReaderInv /\ [Next]_vars => TypeOK'
<1> SUFFICES ASSUME TypeOK, ReaderInv, [Next]_vars PROVE TypeOK'
  OBVIOUS
<1> USE DEF TypeOK, ReaderSteps
<1>1. ASSUME NEW m \in Mints,
             \/ Unheard(m) \/ Lapse(m) \/ OnNewToken(m) \/ OnMigration(m)
             \/ OnTrade(m) \/ UpdateLastTrade(m)
      PROVE  TypeOK'
  <2>1. CASE Unheard(m)
    BY <2>1 DEF Unheard, db, client, link, history
  <2>2. CASE Lapse(m) \/ OnTrade(m) \/ UpdateLastTrade(m)
    BY <2>2 DEF Lapse, OnTrade, UpdateLastTrade, client, link, history
  <2>3. CASE OnNewToken(m)
    BY <2>3 DEF OnNewToken, client, link, history
  <2>4. CASE OnMigration(m)
    BY <2>4 DEF OnMigration, client, link, history
  <2>5. QED
    BY <1>1, <2>1, <2>2, <2>3, <2>4
<1>2. CASE LoseConnection
  BY <1>2 DEF LoseConnection, db, client, history
<1>3. CASE Dial
  BY <1>3 DEF Dial, db, history
<1>4. CASE Announce
  BY <1>4 DEF Announce, db, client, link, history
<1>5. ASSUME NEW chunk \in SUBSET Mints, Resubscribe(chunk) PROVE TypeOK'
  BY <1>5 DEF Resubscribe, db, client, history
<1>6. CASE Disconnect
  BY <1>6 DEF Disconnect, db, link, history
<1>7. CASE AddActive
  BY <1>7 DEF AddActive, ReaderInv, db, link, history
<1>8. CASE Subscribe
  BY <1>8 DEF Subscribe, ReaderInv, db, client, history
<1>9. CASE RemoveActive
  BY <1>9 DEF RemoveActive, db, link, history
<1>10. CASE Unsubscribe
  BY <1>10 DEF Unsubscribe, db, client, history
<1>11. CASE PruneQuery
  BY <1>11 DEF PruneQuery, ActiveRows, db, client, link, history
<1>12. CASE PruneCompare
  BY <1>12 DEF PruneCompare, NewPruner, db, client, link, history
<1>13. CASE PruneRemove
  BY <1>13 DEF PruneRemove, NewPruner, db, link, history
<1>14. CASE PruneUnsubscribe
  BY <1>14 DEF PruneUnsubscribe, NewPruner, db, client, history
<1>15. CASE Restart
  BY <1>15 DEF Restart, SetActiveMints, ActiveRows, NewReader, NewPruner
<1>16. CASE UNCHANGED vars
  BY <1>16 DEF vars, db, client, link, history
<1>17. QED
  BY <1>1, <1>2, <1>3, <1>4, <1>5, <1>6, <1>7, <1>8, <1>9, <1>10, <1>11, <1>12, <1>13, <1>14,
     <1>15, <1>16 DEF Next, Connect, Handle, Prune

\* Each action, part by part: what it changes, then what that leaves true.
LEMMA WatchStep == TypeOK /\ TypeOK' /\ WatchInv /\ [Next]_vars => WatchInv'
<1> SUFFICES ASSUME TypeOK, TypeOK', WatchInv, [Next]_vars PROVE WatchInv'
  OBVIOUS
<1> USE SubscriptionAssumption
<1>t. /\ active \subseteq Mints /\ marked \subseteq Mints /\ subs \subseteq Mints
      /\ active' \subseteq Mints /\ marked' \subseteq Mints /\ subs' \subseteq Mints
      /\ late \subseteq Mints /\ told \subseteq Mints
      /\ late' \subseteq Mints /\ told' \subseteq Mints
      /\ reader.todo \subseteq Mints /\ reader'.todo \subseteq Mints
      /\ UnbornInv /\ ReaderInv /\ PruneInv /\ SubsInv /\ KnownInv
      /\ MigratedUnwatched /\ FreshWatched
  BY DEF TypeOK, WatchInv
<1>1. ASSUME NEW m \in Mints, Unheard(m) PROVE WatchInv'
  <2>1. /\ \/ chain[m] = "unborn" /\ chain'[m] = "live"
           \/ chain'[m] = "migrated"
        /\ \A n \in Mints \ {m} : chain'[n] = chain[n]
        /\ UNCHANGED <<row, marked, late, active, open, alive, subs, reader, pruner, dropped, told>>
    BY <1>1 DEF Unheard, db, client, link, history, TypeOK
  <2>2. UnbornInv'
    BY <1>t, <2>1 DEF UnbornInv
  <2>3. ReaderInv'
    BY <1>t, <2>1 DEF ReaderInv
  <2>4. PruneInv'
    BY <1>t, <2>1 DEF PruneInv
  <2>5. SubsInv'
    BY <1>t, <2>1 DEF SubsInv, Coming
  <2>6. KnownInv'
    BY <1>t, <2>1 DEF KnownInv, Coming, ReaderInv
  <2>7. MigratedUnwatched'
    BY <1>t, <2>1 DEF MigratedUnwatched
  <2>8. FreshWatched'
    BY <1>t, <2>1 DEF FreshWatched, ActiveRows, UnbornInv
  <2>9. QED
    BY <2>2, <2>3, <2>4, <2>5, <2>6, <2>7, <2>8 DEF WatchInv
<1>2. ASSUME NEW m \in Mints, Lapse(m) PROVE WatchInv'
  <2>1. /\ row[m] = "fresh" /\ row'[m] = "old"
        /\ \A n \in Mints \ {m} : row'[n] = row[n]
        /\ UNCHANGED <<chain, marked, late, active, open, alive, subs, reader, pruner, dropped, told>>
    BY <1>2 DEF Lapse, client, link, history, TypeOK
  <2>2. UnbornInv'
    BY <1>t, <2>1 DEF UnbornInv
  <2>3. ReaderInv'
    BY <1>t, <2>1 DEF ReaderInv
  <2>4. PruneInv'
    BY <1>t, <2>1 DEF PruneInv
  <2>5. SubsInv'
    BY <1>t, <2>1 DEF SubsInv, Coming
  <2>6. KnownInv'
    BY <1>t, <2>1 DEF KnownInv, Coming
  <2>7. MigratedUnwatched'
    BY <1>t, <2>1 DEF MigratedUnwatched
  <2>8. FreshWatched'
    BY <1>t, <2>1 DEF FreshWatched, ActiveRows
  <2>9. QED
    BY <2>2, <2>3, <2>4, <2>5, <2>6, <2>7, <2>8 DEF WatchInv
<1>3. ASSUME NEW m \in Mints, OnNewToken(m) PROVE WatchInv'
  <2>1. /\ reader.pc = "read" /\ chain[m] = "unborn" /\ chain'[m] = "live"
        /\ \A n \in Mints \ {m} : chain'[n] = chain[n] /\ row'[n] = row[n]
        /\ reader'.pc = "add" /\ reader'.mint = m /\ reader'.todo = reader.todo
        /\ UNCHANGED <<marked, late, active, open, alive, subs, pruner, dropped, told>>
    BY <1>3 DEF OnNewToken, client, link, history, TypeOK
  <2>2. UnbornInv'
    BY <1>t, <2>1 DEF UnbornInv
  <2>3. ReaderInv'
    BY <1>t, <2>1 DEF ReaderInv, UnbornInv
  <2>4. PruneInv'
    BY <1>t, <2>1 DEF PruneInv
  <2>5. SubsInv'
    BY <1>t, <2>1 DEF SubsInv, Coming
  <2>6. KnownInv'
    BY <1>t, <2>1 DEF KnownInv, Coming
  <2>7. MigratedUnwatched'
    BY <1>t, <2>1 DEF MigratedUnwatched
  <2>8. FreshWatched'
    BY <1>t, <2>1 DEF FreshWatched, ActiveRows
  <2>9. QED
    BY <2>2, <2>3, <2>4, <2>5, <2>6, <2>7, <2>8 DEF WatchInv
<1>4. ASSUME NEW m \in Mints, OnTrade(m) PROVE WatchInv'
  <2>1. /\ m \in subs /\ late' = late \cup {m}
        /\ UNCHANGED <<chain, row, marked, active, open, alive, subs, reader, pruner, dropped, told>>
    BY <1>4 DEF OnTrade, client, link, history
  <2>2. UnbornInv'
    BY <1>t, <2>1 DEF UnbornInv
  <2>3. ReaderInv'
    BY <1>t, <2>1 DEF ReaderInv
  <2>4. PruneInv'
    BY <1>t, <2>1 DEF PruneInv
  <2>5. SubsInv'
    BY <1>t, <2>1 DEF SubsInv, Coming
  <2>6. KnownInv'
    BY <1>t, <2>1 DEF KnownInv, Coming
  <2>7. MigratedUnwatched'
    BY <1>t, <2>1 DEF MigratedUnwatched
  <2>8. FreshWatched'
    BY <1>t, <2>1 DEF FreshWatched, ActiveRows
  <2>9. QED
    BY <2>2, <2>3, <2>4, <2>5, <2>6, <2>7, <2>8 DEF WatchInv
<1>4a. ASSUME NEW m \in Mints, UpdateLastTrade(m) PROVE WatchInv'
  <2>1. /\ m \in late /\ late' \subseteq late
        /\ row'[m] = row[m] \/ (row[m] # "none" /\ row'[m] = "fresh")
        /\ \A n \in Mints \ {m} : row'[n] = row[n]
        /\ UNCHANGED <<chain, marked, active, open, alive, subs, reader, pruner, dropped, told>>
    BY <1>4a DEF UpdateLastTrade, client, link, history, TypeOK
  <2>2. UnbornInv'
    BY <1>t, <2>1 DEF UnbornInv
  <2>3. ReaderInv'
    BY <1>t, <2>1 DEF ReaderInv
  <2>4. PruneInv'
    BY <1>t, <2>1 DEF PruneInv
  <2>5. SubsInv'
    BY <1>t, <2>1 DEF SubsInv, Coming
  <2>6. KnownInv'
    BY <1>t, <2>1 DEF KnownInv, Coming
  <2>7. MigratedUnwatched'
    BY <1>t, <2>1 DEF MigratedUnwatched
  <2>8. FreshWatched'
    BY <1>t, <2>1 DEF FreshWatched, ActiveRows, KnownInv, Coming
  <2>9. QED
    BY <2>2, <2>3, <2>4, <2>5, <2>6, <2>7, <2>8 DEF WatchInv
<1>5. ASSUME NEW m \in Mints, OnMigration(m) PROVE WatchInv'
  <2>1. /\ reader.pc = "read" /\ chain[m] = "live" /\ chain'[m] = "migrated"
        /\ \A n \in Mints \ {m} : chain'[n] = chain[n]
        /\ marked \subseteq marked' /\ marked' \subseteq marked \cup {m}
        /\ told' = told \cup {m}
        /\ reader'.pc = "remove" /\ reader'.mint = m /\ reader'.todo = reader.todo
        /\ UNCHANGED <<row, late, active, open, alive, subs, pruner, dropped>>
    BY <1>5 DEF OnMigration, client, link, history, TypeOK
  <2>2. UnbornInv'
    BY <1>t, <2>1 DEF UnbornInv
  <2>3. ReaderInv'
    BY <1>t, <2>1 DEF ReaderInv
  <2>4. PruneInv'
    BY <1>t, <2>1 DEF PruneInv
  <2>5. SubsInv'
    BY <1>t, <2>1 DEF SubsInv, Coming
  <2>6. KnownInv'
    BY <1>t, <2>1 DEF KnownInv, Coming
  <2>7. MigratedUnwatched'
    BY <1>t, <2>1 DEF MigratedUnwatched
  <2>8. FreshWatched'
    BY <1>t, <2>1 DEF FreshWatched, ActiveRows
  <2>9. QED
    BY <2>2, <2>3, <2>4, <2>5, <2>6, <2>7, <2>8 DEF WatchInv
<1>6. CASE LoseConnection
  <2>1. /\ alive' = FALSE /\ subs' = {}
        /\ UNCHANGED <<chain, row, marked, late, active, open, reader, pruner, dropped, told>>
    BY <1>6 DEF LoseConnection, db, client, history
  <2>2. UnbornInv'
    BY <1>t, <2>1 DEF UnbornInv
  <2>3. ReaderInv'
    BY <1>t, <2>1 DEF ReaderInv
  <2>4. PruneInv'
    BY <1>t, <2>1 DEF PruneInv
  <2>5. SubsInv'
    BY <1>t, <2>1 DEF SubsInv, Coming
  <2>6. KnownInv'
    BY <1>t, <2>1 DEF KnownInv, Coming
  <2>7. MigratedUnwatched'
    BY <1>t, <2>1 DEF MigratedUnwatched
  <2>8. FreshWatched'
    BY <1>t, <2>1 DEF FreshWatched, ActiveRows
  <2>9. QED
    BY <2>2, <2>3, <2>4, <2>5, <2>6, <2>7, <2>8 DEF WatchInv
<1>7. CASE Dial
  <2>1. /\ alive' = TRUE /\ subs' = {}
        /\ reader.pc = "dial" /\ reader'.pc = "announce" /\ reader'.todo = active
        /\ pruner'.pc = pruner.pc /\ pruner'.mints = pruner.mints /\ pruner'.conn # "current"
        /\ UNCHANGED <<chain, row, marked, late, active, dropped, told>>
    BY <1>7 DEF Dial, db, history, TypeOK
  <2>2. UnbornInv'
    BY <1>t, <2>1 DEF UnbornInv
  <2>3. ReaderInv'
    BY <1>t, <2>1 DEF ReaderInv
  <2>4. PruneInv'
    BY <1>t, <2>1 DEF PruneInv
  <2>5. SubsInv'
    BY <1>t, <2>1 DEF SubsInv, Coming
  <2>6. KnownInv'
    BY <1>t, <2>1 DEF KnownInv, Coming
  <2>7. MigratedUnwatched'
    BY <1>t, <2>1 DEF MigratedUnwatched
  <2>8. FreshWatched'
    BY <1>t, <2>1 DEF FreshWatched, ActiveRows
  <2>9. QED
    BY <2>2, <2>3, <2>4, <2>5, <2>6, <2>7, <2>8 DEF WatchInv
<1>8. CASE Announce
  <2>1. /\ reader.pc = "announce" /\ reader'.todo = reader.todo
        /\ reader'.pc = IF reader.todo = {} THEN "read" ELSE "resubscribe"
        /\ UNCHANGED <<chain, row, marked, late, active, open, alive, subs, pruner, dropped, told>>
    BY <1>8 DEF Announce, db, client, link, history, TypeOK
  <2>2. UnbornInv'
    BY <1>t, <2>1 DEF UnbornInv
  <2>3. ReaderInv'
    BY <1>t, <2>1 DEF ReaderInv
  <2>4. PruneInv'
    BY <1>t, <2>1 DEF PruneInv
  <2>5. SubsInv'
    BY <1>t, <2>1 DEF SubsInv, Coming
  <2>6. KnownInv'
    BY <1>t, <2>1 DEF KnownInv, Coming
  <2>7. MigratedUnwatched'
    BY <1>t, <2>1 DEF MigratedUnwatched
  <2>8. FreshWatched'
    BY <1>t, <2>1 DEF FreshWatched, ActiveRows
  <2>9. QED
    BY <2>2, <2>3, <2>4, <2>5, <2>6, <2>7, <2>8 DEF WatchInv
<1>9. ASSUME NEW chunk \in SUBSET Mints, Resubscribe(chunk) PROVE WatchInv'
  <2>1. /\ reader.pc = "resubscribe" /\ reader'.todo = reader.todo \ chunk
        /\ reader'.pc = IF chunk = reader.todo THEN "read" ELSE "resubscribe"
        /\ chunk \subseteq reader.todo
        /\ subs' = IF alive THEN subs \cup chunk ELSE subs
        /\ UNCHANGED <<chain, row, marked, late, active, open, alive, pruner, dropped, told>>
    BY <1>9 DEF Resubscribe, db, client, history, TypeOK
  <2>2. UnbornInv'
    BY <1>t, <2>1 DEF UnbornInv
  <2>3. ReaderInv'
    BY <1>t, <2>1 DEF ReaderInv
  <2>4. PruneInv'
    BY <1>t, <2>1 DEF PruneInv
  <2>5. SubsInv'
    BY <1>t, <2>1 DEF SubsInv, Coming
  <2>6. KnownInv'
    BY <1>t, <2>1 DEF KnownInv, Coming
  <2>7. MigratedUnwatched'
    BY <1>t, <2>1 DEF MigratedUnwatched
  <2>8. FreshWatched'
    BY <1>t, <2>1 DEF FreshWatched, ActiveRows
  <2>9. QED
    BY <2>2, <2>3, <2>4, <2>5, <2>6, <2>7, <2>8 DEF WatchInv
<1>10. CASE Disconnect
  <2>1. /\ ~alive /\ reader.pc = "read" /\ reader'.pc = "dial" /\ reader'.todo = reader.todo
        /\ UNCHANGED <<chain, row, marked, late, active, alive, subs, pruner, dropped, told>>
    BY <1>10 DEF Disconnect, db, link, history, TypeOK
  <2>2. UnbornInv'
    BY <1>t, <2>1 DEF UnbornInv
  <2>3. ReaderInv'
    BY <1>t, <2>1 DEF ReaderInv
  <2>4. PruneInv'
    BY <1>t, <2>1 DEF PruneInv
  <2>5. SubsInv'
    BY <1>t, <2>1 DEF SubsInv, Coming
  <2>6. KnownInv'
    BY <1>t, <2>1 DEF KnownInv, Coming
  <2>7. MigratedUnwatched'
    BY <1>t, <2>1 DEF MigratedUnwatched
  <2>8. FreshWatched'
    BY <1>t, <2>1 DEF FreshWatched, ActiveRows
  <2>9. QED
    BY <2>2, <2>3, <2>4, <2>5, <2>6, <2>7, <2>8 DEF WatchInv
<1>11. CASE AddActive
  <2>1. /\ reader.pc = "add" /\ reader'.pc = "subscribe"
        /\ reader'.mint = reader.mint /\ reader'.todo = reader.todo
        /\ active' = active \cup {reader.mint}
        /\ UNCHANGED <<chain, row, marked, late, open, alive, subs, pruner, dropped, told>>
    BY <1>11 DEF AddActive, db, link, history, TypeOK
  <2>2. UnbornInv'
    BY <1>t, <2>1 DEF UnbornInv, ReaderInv
  <2>3. ReaderInv'
    BY <1>t, <2>1 DEF ReaderInv
  <2>4. PruneInv'
    BY <1>t, <2>1 DEF PruneInv, ReaderInv
  <2>5. SubsInv'
    BY <1>t, <2>1 DEF SubsInv, Coming
  <2>6. KnownInv'
    BY <1>t, <2>1 DEF KnownInv, Coming
  <2>7. MigratedUnwatched'
    BY <1>t, <2>1 DEF MigratedUnwatched, ReaderInv
  <2>8. FreshWatched'
    BY <1>t, <2>1 DEF FreshWatched, ActiveRows
  <2>9. QED
    BY <2>2, <2>3, <2>4, <2>5, <2>6, <2>7, <2>8 DEF WatchInv
<1>12. CASE Subscribe
  <2>1. /\ reader.pc = "subscribe" /\ reader'.pc = "read" /\ reader'.todo = reader.todo
        /\ subs' = IF alive THEN subs \cup {reader.mint} ELSE subs
        /\ UNCHANGED <<chain, row, marked, late, active, open, alive, pruner, dropped, told>>
    BY <1>12 DEF Subscribe, db, client, history, TypeOK
  <2>2. UnbornInv'
    BY <1>t, <2>1 DEF UnbornInv
  <2>3. ReaderInv'
    BY <1>t, <2>1 DEF ReaderInv
  <2>4. PruneInv'
    BY <1>t, <2>1 DEF PruneInv
  <2>5. SubsInv'
    BY <1>t, <2>1 DEF SubsInv, Coming
  <2>6. KnownInv'
    BY <1>t, <2>1 DEF KnownInv, Coming
  <2>7. MigratedUnwatched'
    BY <1>t, <2>1 DEF MigratedUnwatched
  <2>8. FreshWatched'
    BY <1>t, <2>1 DEF FreshWatched, ActiveRows
  <2>9. QED
    BY <2>2, <2>3, <2>4, <2>5, <2>6, <2>7, <2>8 DEF WatchInv
<1>13. CASE RemoveActive
  <2>1. /\ reader.pc = "remove" /\ reader'.pc = "unsubscribe"
        /\ reader'.mint = reader.mint /\ reader'.todo = reader.todo
        /\ active' = active \ {reader.mint}
        /\ UNCHANGED <<chain, row, marked, late, open, alive, subs, pruner, dropped, told>>
    BY <1>13 DEF RemoveActive, db, link, history, TypeOK
  <2>2. UnbornInv'
    BY <1>t, <2>1 DEF UnbornInv
  <2>3. ReaderInv'
    BY <1>t, <2>1 DEF ReaderInv
  <2>4. PruneInv'
    BY <1>t, <2>1 DEF PruneInv
  <2>5. SubsInv'
    BY <1>t, <2>1 DEF SubsInv, Coming
  <2>6. KnownInv'
    BY <1>t, <2>1 DEF KnownInv, Coming, ReaderInv
  <2>7. MigratedUnwatched'
    BY <1>t, <2>1 DEF MigratedUnwatched
  <2>8. FreshWatched'
    BY <1>t, <2>1 DEF FreshWatched, ActiveRows, ReaderInv
  <2>9. QED
    BY <2>2, <2>3, <2>4, <2>5, <2>6, <2>7, <2>8 DEF WatchInv
<1>14. CASE Unsubscribe
  <2>1. /\ reader.pc = "unsubscribe" /\ reader'.pc = "read" /\ reader'.todo = reader.todo
        /\ subs' = subs \ {reader.mint}
        /\ UNCHANGED <<chain, row, marked, late, active, open, alive, pruner, dropped, told>>
    BY <1>14 DEF Unsubscribe, db, client, history, TypeOK
  <2>2. UnbornInv'
    BY <1>t, <2>1 DEF UnbornInv
  <2>3. ReaderInv'
    BY <1>t, <2>1 DEF ReaderInv
  <2>4. PruneInv'
    BY <1>t, <2>1 DEF PruneInv
  <2>5. SubsInv'
    BY <1>t, <2>1 DEF SubsInv, Coming, ReaderInv
  <2>6. KnownInv'
    BY <1>t, <2>1 DEF KnownInv, Coming
  <2>7. MigratedUnwatched'
    BY <1>t, <2>1 DEF MigratedUnwatched
  <2>8. FreshWatched'
    BY <1>t, <2>1 DEF FreshWatched, ActiveRows
  <2>9. QED
    BY <2>2, <2>3, <2>4, <2>5, <2>6, <2>7, <2>8 DEF WatchInv
<1>15. CASE PruneQuery
  <2>1. /\ pruner'.pc = "queried" /\ pruner'.mints = ActiveRows
        /\ UNCHANGED <<chain, row, marked, late, active, open, alive, subs, reader, dropped, told>>
    BY <1>15 DEF PruneQuery, db, client, link, history, TypeOK
  <2>2. UnbornInv'
    BY <1>t, <2>1 DEF UnbornInv, ActiveRows
  <2>3. ReaderInv'
    BY <1>t, <2>1 DEF ReaderInv
  <2>4. PruneInv'
    BY <1>t, <2>1 DEF PruneInv
  <2>5. SubsInv'
    BY <1>t, <2>1 DEF SubsInv, Coming
  <2>6. KnownInv'
    BY <1>t, <2>1 DEF KnownInv, Coming
  <2>7. MigratedUnwatched'
    BY <1>t, <2>1 DEF MigratedUnwatched
  <2>8. FreshWatched'
    BY <1>t, <2>1 DEF FreshWatched, ActiveRows
  <2>9. QED
    BY <2>2, <2>3, <2>4, <2>5, <2>6, <2>7, <2>8 DEF WatchInv
<1>16. CASE PruneCompare
  <2>1. /\ \/ pruner'.pc = "wait" /\ pruner'.mints = {}
           \/ pruner'.pc = "stale" /\ pruner'.mints \subseteq active
        /\ UNCHANGED <<chain, row, marked, late, active, open, alive, subs, reader, dropped, told>>
    BY <1>16 DEF PruneCompare, NewPruner, db, client, link, history, TypeOK
  <2>2. UnbornInv'
    BY <1>t, <2>1 DEF UnbornInv
  <2>3. ReaderInv'
    BY <1>t, <2>1 DEF ReaderInv
  <2>4. PruneInv'
    BY <1>t, <2>1 DEF PruneInv
  <2>5. SubsInv'
    BY <1>t, <2>1 DEF SubsInv, Coming
  <2>6. KnownInv'
    BY <1>t, <2>1 DEF KnownInv, Coming
  <2>7. MigratedUnwatched'
    BY <1>t, <2>1 DEF MigratedUnwatched
  <2>8. FreshWatched'
    BY <1>t, <2>1 DEF FreshWatched, ActiveRows
  <2>9. QED
    BY <2>2, <2>3, <2>4, <2>5, <2>6, <2>7, <2>8 DEF WatchInv
<1>17. CASE PruneRemove
  <2>1. /\ pruner.pc = "stale" /\ active' = active \ pruner.mints
        /\ dropped' = dropped \cup pruner.mints
        /\ \/ pruner'.pc = "wait" /\ pruner'.mints = {}
           \/ pruner'.pc = "unsubscribe" /\ pruner'.mints = pruner.mints
        /\ UNCHANGED <<chain, row, marked, late, open, alive, subs, reader, told>>
    BY <1>17 DEF PruneRemove, NewPruner, db, link, history, TypeOK
  <2>2. UnbornInv'
    BY <1>t, <2>1 DEF UnbornInv
  <2>3. ReaderInv'
    BY <1>t, <2>1 DEF ReaderInv
  <2>4. PruneInv'
    BY <1>t, <2>1 DEF PruneInv
  <2>5. SubsInv'
    BY <1>t, <2>1 DEF SubsInv, Coming
  <2>6. KnownInv'
    BY <1>t, <2>1 DEF KnownInv, Coming
  <2>7. MigratedUnwatched'
    BY <1>t, <2>1 DEF MigratedUnwatched
  <2>8. FreshWatched'
    BY <1>t, <2>1 DEF FreshWatched, ActiveRows
  <2>9. QED
    BY <2>2, <2>3, <2>4, <2>5, <2>6, <2>7, <2>8 DEF WatchInv
<1>18. CASE PruneUnsubscribe
  <2>1. /\ pruner.pc = "unsubscribe" /\ pruner'.pc = "wait" /\ pruner'.mints = {}
        /\ subs' = IF pruner.conn = "current" THEN subs \ pruner.mints ELSE subs
        /\ UNCHANGED <<chain, row, marked, late, active, open, alive, reader, dropped, told>>
    BY <1>18 DEF PruneUnsubscribe, NewPruner, db, client, history, TypeOK
  <2>2. UnbornInv'
    BY <1>t, <2>1 DEF UnbornInv
  <2>3. ReaderInv'
    BY <1>t, <2>1 DEF ReaderInv
  <2>4. PruneInv'
    BY <1>t, <2>1 DEF PruneInv
  <2>5. SubsInv'
    BY <1>t, <2>1 DEF SubsInv, Coming, PruneInv
  <2>6. KnownInv'
    BY <1>t, <2>1 DEF KnownInv, Coming
  <2>7. MigratedUnwatched'
    BY <1>t, <2>1 DEF MigratedUnwatched
  <2>8. FreshWatched'
    BY <1>t, <2>1 DEF FreshWatched, ActiveRows
  <2>9. QED
    BY <2>2, <2>3, <2>4, <2>5, <2>6, <2>7, <2>8 DEF WatchInv
<1>19. CASE Restart
  <2>1. /\ active' = ActiveRows /\ alive' = FALSE /\ subs' = {} /\ dropped' = {}
        /\ late' = {} /\ told' = {}
        /\ reader' = NewReader /\ pruner' = NewPruner
        /\ UNCHANGED <<chain, row, marked>>
    BY <1>19 DEF Restart, SetActiveMints
  <2>2. UnbornInv'
    BY <1>t, <2>1 DEF UnbornInv, NewReader, NewPruner, ActiveRows
  <2>3. ReaderInv'
    BY <1>t, <2>1 DEF ReaderInv, NewReader, NewPruner, ActiveRows
  <2>4. PruneInv'
    BY <1>t, <2>1 DEF PruneInv, NewReader, NewPruner, ActiveRows
  <2>5. SubsInv'
    BY <1>t, <2>1 DEF SubsInv, Coming, NewReader, NewPruner, ActiveRows
  <2>6. KnownInv'
    BY <1>t, <2>1 DEF KnownInv, Coming, NewReader, NewPruner, ActiveRows
  <2>7. MigratedUnwatched'
    BY <1>t, <2>1 DEF MigratedUnwatched, NewReader, NewPruner, ActiveRows
  <2>8. FreshWatched'
    BY <1>t, <2>1 DEF FreshWatched, ActiveRows, NewReader, NewPruner
  <2>9. QED
    BY <2>2, <2>3, <2>4, <2>5, <2>6, <2>7, <2>8 DEF WatchInv
<1>20. CASE UNCHANGED vars
  BY <1>20 DEF vars, db, client, link, history, WatchInv, UnbornInv, ReaderInv, PruneInv,
      SubsInv, KnownInv, Coming,
      MigratedUnwatched, FreshWatched, ActiveRows
<1>21. QED
  BY <1>1, <1>2, <1>3, <1>4, <1>4a, <1>5, <1>6, <1>7, <1>8, <1>9, <1>10, <1>11, <1>12, <1>13,
     <1>14, <1>15, <1>16, <1>17, <1>18, <1>19, <1>20
  DEF Next, Connect, Handle, Prune

LEMMA InvHolds == Spec => []Inv
<1>1. Inv /\ [Next]_vars => Inv'
  BY TypeStep, WatchStep DEF Inv, WatchInv
<1>2. QED
  BY <1>1, InvInit, PTL DEF Spec

\* The tables, the client, both goroutines and the connection have their types,
\* and the client holds a connection exactly while connect runs.
THEOREM TypeCorrect == Spec => []TypeOK
<1>1. Inv => TypeOK
  BY DEF Inv
<1>2. QED
  BY <1>1, InvHolds, PTL

\* When the reader waits for a message of a working connection the feed has
\* every active mint subscribed on it.
THEOREM ActiveSubscribedCorrect == Spec => []ActiveSubscribed
<1>1. Inv => ActiveSubscribed
  BY DEF Inv, WatchInv, SubsInv, Coming, ActiveSubscribed
<1>2. QED
  BY <1>1, InvHolds, PTL

\* A mint that is marked as migrated, or of whose migration the process was told,
\* is not watched, or is about to be unsubscribed.
THEOREM MigratedUnwatchedCorrect == Spec => []MigratedUnwatched
<1>1. Inv => MigratedUnwatched
  BY DEF Inv, WatchInv
<1>2. QED
  BY <1>1, InvHolds, PTL

\* A mint that the database calls active is watched, unless the pruner dropped
\* it.
THEOREM FreshWatchedCorrect == Spec => []FreshWatched
<1>1. Inv => FreshWatched
  BY DEF Inv, WatchInv
<1>2. QED
  BY <1>1, InvHolds, PTL
===============================================================================
