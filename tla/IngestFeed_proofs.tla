-------------------------- MODULE IngestFeed_proofs --------------------------
(***************************************************************************)
(* What holds of the way of an event for every capacity, batch size and    *)
(* number of connections: first of the way to the store, then of the way   *)
(* to the bot, which implements a lossy channel.                           *)
(***************************************************************************)
EXTENDS IngestFeed, InductionLemmas, SequenceTheorems

Ascends(s) == \A i, j \in 1..Len(s) : i < j => s[i] < s[j]

AllBelow(S, T) == \A x \in S, y \in T : x < y

-----------------------------------------------------------------------------
(* Sequences of numbers.                                                   *)

\* The members of an empty sequence.
LEMMA OfEmpty == ToSet(<< >>) = {} /\ Ascends(<< >>) /\ << >> \in Seq(Nat)
BY DEF ToSet, Ascends

\* A larger number at the end.
LEMMA OfAppend ==
    ASSUME NEW s \in Seq(Nat), NEW n \in Nat
    PROVE  /\ Append(s, n) \in Seq(Nat)
           /\ ToSet(Append(s, n)) = ToSet(s) \cup {n}
           /\ Ascends(s) /\ AllBelow(ToSet(s), {n}) => Ascends(Append(s, n))
<1>1. /\ Append(s, n) \in Seq(Nat)
      /\ Len(Append(s, n)) = Len(s) + 1
      /\ \A i \in 1..Len(s) : Append(s, n)[i] = s[i]
      /\ Append(s, n)[Len(s) + 1] = n
      /\ Len(s) \in Nat /\ DOMAIN s = 1..Len(s)
      /\ DOMAIN Append(s, n) = 1..(Len(s) + 1)
  OBVIOUS
<1>2. ToSet(Append(s, n)) = ToSet(s) \cup {n}
  <2>1. 1..(Len(s) + 1) = 1..Len(s) \cup {Len(s) + 1}
    BY <1>1
  <2>2. QED
    BY <1>1, <2>1 DEF ToSet
<1>3. ASSUME Ascends(s), AllBelow(ToSet(s), {n}) PROVE Ascends(Append(s, n))
  <2>1. SUFFICES ASSUME NEW i \in 1..(Len(s) + 1), NEW j \in 1..(Len(s) + 1), i < j
                 PROVE  Append(s, n)[i] < Append(s, n)[j]
    BY <1>1 DEF Ascends
  <2>2. i \in 1..Len(s) /\ s[i] \in ToSet(s)
    BY <1>1, <2>1 DEF ToSet
  <2>3. CASE j \in 1..Len(s)
    BY <1>1, <1>3, <2>1, <2>2, <2>3 DEF Ascends
  <2>4. CASE j = Len(s) + 1
    BY <1>1, <1>3, <2>2, <2>4 DEF AllBelow
  <2>5. QED
    BY <1>1, <2>3, <2>4
<1>4. QED
  BY <1>1, <1>2, <1>3

\* A first number and the rest.
LEMMA OfTail ==
    ASSUME NEW s \in Seq(Nat), s # << >>
    PROVE  /\ Tail(s) \in Seq(Nat)
           /\ Head(s) \in Nat
           /\ ToSet(s) = {Head(s)} \cup ToSet(Tail(s))
           /\ Ascends(s) => Ascends(Tail(s)) /\ AllBelow({Head(s)}, ToSet(Tail(s)))
<1>1. /\ Tail(s) \in Seq(Nat)
      /\ Len(s) \in Nat \ {0}
      /\ Len(Tail(s)) = Len(s) - 1
      /\ \A i \in 1..(Len(s) - 1) : Tail(s)[i] = s[i + 1]
      /\ Head(s) = s[1] /\ Head(s) \in Nat
      /\ DOMAIN s = 1..Len(s) /\ DOMAIN Tail(s) = 1..(Len(s) - 1)
  OBVIOUS
<1>2. ToSet(s) = {Head(s)} \cup ToSet(Tail(s))
  <2>1. \A i \in 1..Len(s) : i = 1 \/ (i - 1 \in 1..(Len(s) - 1) /\ s[i] = Tail(s)[i - 1])
    BY <1>1
  <2>2. ToSet(s) \subseteq {Head(s)} \cup ToSet(Tail(s))
    <3>1. SUFFICES ASSUME NEW i \in 1..Len(s), i # 1 PROVE s[i] \in ToSet(Tail(s))
      BY <1>1 DEF ToSet
    <3>2. i - 1 \in DOMAIN Tail(s) /\ s[i] = Tail(s)[i - 1]
      BY <1>1, <2>1, <3>1
    <3>3. QED
      BY <3>2 DEF ToSet
  <2>3. \A i \in 1..(Len(s) - 1) : i + 1 \in 1..Len(s)
    BY <1>1
  <2>4. ToSet(Tail(s)) \subseteq ToSet(s) /\ Head(s) \in ToSet(s)
    BY <1>1, <2>3 DEF ToSet
  <2>5. QED
    BY <2>2, <2>4
<1>3. ASSUME Ascends(s) PROVE Ascends(Tail(s)) /\ AllBelow({Head(s)}, ToSet(Tail(s)))
  <2>1. Ascends(Tail(s))
    BY <1>1, <1>3 DEF Ascends
  <2>2. \A i \in 1..(Len(s) - 1) : s[1] < s[i + 1]
    BY <1>1, <1>3 DEF Ascends
  <2>3. QED
    BY <1>1, <2>1, <2>2 DEF AllBelow, ToSet
<1>4. QED
  BY <1>1, <1>2, <1>3

\* One sequence after another.
LEMMA OfConcat ==
    ASSUME NEW s \in Seq(Nat), NEW t \in Seq(Nat)
    PROVE  /\ s \o t \in Seq(Nat)
           /\ ToSet(s \o t) = ToSet(s) \cup ToSet(t)
           /\ Ascends(s) /\ Ascends(t) /\ AllBelow(ToSet(s), ToSet(t)) => Ascends(s \o t)
<1>1. /\ s \o t \in Seq(Nat)
      /\ Len(s) \in Nat /\ Len(t) \in Nat
      /\ Len(s \o t) = Len(s) + Len(t)
      /\ \A i \in 1..(Len(s) + Len(t)) :
            (s \o t)[i] = IF i <= Len(s) THEN s[i] ELSE t[i - Len(s)]
      /\ DOMAIN s = 1..Len(s) /\ DOMAIN t = 1..Len(t)
      /\ DOMAIN (s \o t) = 1..(Len(s) + Len(t))
  OBVIOUS
<1>2. ToSet(s \o t) = ToSet(s) \cup ToSet(t)
  <2>1. ToSet(s \o t) \subseteq ToSet(s) \cup ToSet(t)
    <3>1. \A i \in 1..(Len(s) + Len(t)) : i \in 1..Len(s) \/ i - Len(s) \in 1..Len(t)
      BY <1>1
    <3>2. QED
      BY <1>1, <3>1 DEF ToSet
  <2>2. ToSet(s) \subseteq ToSet(s \o t)
    BY <1>1 DEF ToSet
  <2>3. ToSet(t) \subseteq ToSet(s \o t)
    <3>1. \A i \in 1..Len(t) : /\ i + Len(s) \in 1..(Len(s) + Len(t))
                               /\ (s \o t)[i + Len(s)] = t[i]
      BY SMTT(30), <1>1
    <3>2. QED
      BY ZenonT(30), <1>1, <3>1 DEF ToSet
  <2>4. QED
    BY <2>1, <2>2, <2>3
<1>3. ASSUME Ascends(s), Ascends(t), AllBelow(ToSet(s), ToSet(t)) PROVE Ascends(s \o t)
  <2>1. SUFFICES ASSUME NEW i \in 1..(Len(s) + Len(t)), NEW j \in 1..(Len(s) + Len(t)), i < j
                 PROVE  (s \o t)[i] < (s \o t)[j]
    BY <1>1 DEF Ascends
  <2>2. CASE j <= Len(s)
    BY <1>1, <1>3, <2>1, <2>2 DEF Ascends
  <2>3. CASE i > Len(s)
    <3>1. i - Len(s) \in 1..Len(t) /\ j - Len(s) \in 1..Len(t) /\ i - Len(s) < j - Len(s)
      BY <1>1, <2>1, <2>3
    <3>2. QED
      BY SMTT(30), <1>1, <1>3, <2>1, <2>3, <3>1 DEF Ascends
  <2>4. CASE i <= Len(s) /\ j > Len(s)
    <3>1. i \in 1..Len(s) /\ j - Len(s) \in 1..Len(t)
      BY <1>1, <2>1, <2>4
    <3>2. s[i] \in ToSet(s) /\ t[j - Len(s)] \in ToSet(t)
      BY <1>1, <3>1 DEF ToSet
    <3>3. QED
      BY <1>1, <1>3, <2>1, <2>4, <3>2 DEF AllBelow
  <2>5. QED
    BY <1>1, <2>1, <2>2, <2>3, <2>4
<1>4. QED
  BY <1>1, <1>2, <1>3

-----------------------------------------------------------------------------
(* The state is well typed.                                                *)

\* The ingester starts well typed.
LEMMA TypeInit == Init => TypeOK
<1> SUFFICES ASSUME Init PROVE TypeOK
  OBVIOUS
<1>1. << >> \in Seq(Nat) /\ Len(<< >>) = 0
  OBVIOUS
<1>2. StoreTypeOK
  BY <1>1, StoreAssumption DEF Init, StoreInit, StoreTypeOK
<1>3. FanoutTypeOK
  <2>1. MaxConns \in Nat /\ OutCap \in Nat /\ InCap \in Nat
    BY FanoutAssumption
  <2>2. conns = 0 /\ up = FALSE /\ inbox = << >> /\ got = << >>
    BY DEF Init, FanoutInit
  <2>2a. conns \in 0..MaxConns
    BY <2>1, <2>2
  <2>2b. inbox \in Seq(Nat) /\ Len(inbox) <= InCap /\ got \in Seq(Nat)
    BY <1>1, <2>1, <2>2
  <2>3. server \in [Conns -> {"none", "dialed", "registered", "gone"}]
    BY DEF Init, FanoutInit
  <2>4. wire \in [Conns -> Seq(Nat)] /\ out \in [Conns -> Seq(Nat)]
    BY <1>1 DEF Init, FanoutInit
  <2>5. \A k \in Conns : Len(out[k]) <= OutCap
    BY <1>1, <2>1 DEF Init, FanoutInit
  <2>6. QED
    BY <2>2, <2>2a, <2>2b, <2>3, <2>4, <2>5 DEF FanoutTypeOK
<1>4. QED
  BY <1>2, <1>3, FeedAssumption DEF Init, TypeOK

\* A row more in the queue.
LEMMA EnqueueTyped ==
    ASSUME StoreTypeOK, NEW n \in Nat, EnqueueTrade(n) PROVE StoreTypeOK'
BY StoreAssumption, OfAppend DEF StoreTypeOK, EnqueueTrade

\* A flush of a batch that is not too long.
LEMMA FlushedTyped ==
    ASSUME StoreTypeOK, NEW rows \in Seq(Nat), Flushed(rows)
    PROVE  /\ batch' \in Seq(Nat) /\ Len(batch') <= FlushSize
           /\ trades' \in Seq(Nat)
           /\ unstored' \subseteq Nat
<1>1. batch' = << >> /\ << >> \in Seq(Nat) /\ Len(<< >>) = 0
  BY DEF Flushed
<1>2. trades \o rows \in Seq(Nat) /\ ToSet(rows) \subseteq Nat
  BY DEF StoreTypeOK, ToSet
<1>3. batch' \in Seq(Nat) /\ Len(batch') <= FlushSize
  BY <1>1, StoreAssumption
<1>4. trades' \in {trades, trades \o rows} /\ unstored' \in {unstored, unstored \cup ToSet(rows)}
  BY DEF Flushed
<1>5. trades' \in Seq(Nat) /\ unstored' \subseteq Nat
  BY <1>2, <1>4 DEF StoreTypeOK
<1>6. QED
  BY <1>3, <1>5

\* A row from the queue into the batch, which is flushed when full.
LEMMA CollectTyped == ASSUME StoreTypeOK, Collect PROVE StoreTypeOK'
<1> DEFINE rows == Append(batch, Head(queue))
<1>1. /\ queue # << >> /\ queue' = Tail(queue)
      /\ queue' \in Seq(Nat) /\ Len(queue') <= QueueCap
      /\ Head(queue) \in Nat /\ accepted' = accepted /\ accepted \subseteq Nat
  BY StoreAssumption, OfTail DEF StoreTypeOK, Collect
<1>2. rows \in Seq(Nat) /\ Len(rows) = Len(batch) + 1
  BY <1>1, OfAppend DEF StoreTypeOK
<1>3. CASE Len(rows) >= FlushSize
  <2>1. Flushed(rows)
    BY <1>3 DEF Collect
  <2>2. QED
    BY <1>1, <1>2, <2>1, FlushedTyped DEF StoreTypeOK
<1>4. CASE ~(Len(rows) >= FlushSize)
  <2>1. batch' = rows /\ UNCHANGED <<trades, unstored>>
    BY <1>4 DEF Collect
  <2>2. Len(rows) <= FlushSize
    BY <1>2, <1>4, StoreAssumption
  <2>3. QED
    BY <1>1, <1>2, <2>1, <2>2 DEF StoreTypeOK
<1>5. QED
  BY <1>3, <1>4

\* The ticker's flush.
LEMMA TickTyped == ASSUME StoreTypeOK, Tick PROVE StoreTypeOK'
<1>1. batch \in Seq(Nat) /\ Flushed(batch) /\ UNCHANGED <<queue, accepted>>
  BY DEF StoreTypeOK, Tick
<1>2. QED
  BY <1>1, FlushedTyped DEF StoreTypeOK

\* The loss of what is in memory.
LEMMA StoreCrashTyped == ASSUME StoreTypeOK, StoreCrash PROVE StoreTypeOK'
<1>1. << >> \in Seq(Nat) /\ Len(<< >>) = 0
  OBVIOUS
<1>2. ToSet(queue) \subseteq Nat /\ ToSet(batch) \subseteq Nat
  BY DEF StoreTypeOK, ToSet
<1>3. queue' \in Seq(Nat) /\ Len(queue') <= QueueCap
  BY <1>1, StoreAssumption DEF StoreCrash
<1>4. batch' \in Seq(Nat) /\ Len(batch') <= FlushSize
  BY <1>1, StoreAssumption DEF StoreCrash
<1>5. trades' \in Seq(Nat) /\ unstored' \subseteq Nat /\ accepted' \subseteq Nat
  BY <1>2 DEF StoreTypeOK, StoreCrash
<1>6. QED
  BY <1>3, <1>4, <1>5 DEF StoreTypeOK

\* Reading is reading of some connection.
ReadsOne == up => conns # 0

\* The buffers and connections of the fanout, whatever the client does.
LEMMA ClientTyped ==
    ASSUME FanoutTypeOK, ReadsOne, DialFanout \/ Scan \/ Hangup \/ Pump
    PROVE  FanoutTypeOK' /\ ReadsOne'
<1> USE DEF FanoutTypeOK, ReadsOne
<1>1. /\ MaxConns \in Nat /\ OutCap \in Nat /\ InCap \in Nat
      /\ << >> \in Seq(Nat)
      /\ up => conns \in Conns /\ wire[conns] \in Seq(Nat)
  BY FanoutAssumption DEF Conns
<1>2. CASE DialFanout
  BY <1>1, <1>2 DEF DialFanout, Conns
<1>3. CASE Scan
  <2>1. /\ conns \in Conns /\ wire[conns] # << >> /\ wire[conns] \in Seq(Nat)
        /\ wire' = [wire EXCEPT ![conns] = Tail(wire[conns])]
        /\ UNCHANGED <<conns, up, server, out, got>>
    BY <1>1, <1>3 DEF Scan
  <2>2. Tail(wire[conns]) \in Seq(Nat) /\ Head(wire[conns]) \in Nat
    BY <2>1, OfTail
  <2>3. wire' \in [Conns -> Seq(Nat)]
    BY <2>1, <2>2
  <2>4. /\ Append(inbox, Head(wire[conns])) \in Seq(Nat)
        /\ Len(Append(inbox, Head(wire[conns]))) = Len(inbox) + 1
    BY <2>2
  <2>5. inbox' \in Seq(Nat) /\ Len(inbox') <= InCap
    BY <1>1, <1>3, <2>4 DEF Scan
  <2>6. QED
    BY <2>1, <2>3, <2>5
<1>4. CASE Hangup
  BY <1>1, <1>4 DEF Hangup
<1>5. CASE Pump
  <2>1. /\ Head(inbox) \in Nat /\ Tail(inbox) \in Seq(Nat)
        /\ Len(Tail(inbox)) <= InCap
    BY <1>1, <1>5 DEF Pump
  <2>2. Append(got, Head(inbox)) \in Seq(Nat)
    BY <2>1
  <2>3. QED
    BY <1>5, <2>1, <2>2 DEF Pump
<1>6. QED
  BY <1>2, <1>3, <1>4, <1>5

\* The same, whatever the server does.
LEMMA ServerTyped ==
    ASSUME FanoutTypeOK, ReadsOne,
           \/ \E k \in Conns : Register(k) \/ Serve(k)
           \/ \E n \in Nat : Broadcast(n)
           \/ FanoutCrash
    PROVE  FanoutTypeOK' /\ ReadsOne'
<1> USE DEF FanoutTypeOK, ReadsOne
<1>1. MaxConns \in Nat /\ OutCap \in Nat /\ InCap \in Nat
  BY FanoutAssumption
<1>2. ASSUME NEW k \in Conns, Register(k) PROVE FanoutTypeOK' /\ ReadsOne'
  BY <1>1, <1>2 DEF Register
<1>3. ASSUME NEW k \in Conns, Serve(k) PROVE FanoutTypeOK' /\ ReadsOne'
  <2>1. /\ out[k] \in Seq(Nat) /\ out[k] # << >> /\ Len(out[k]) <= OutCap
        /\ wire[k] \in Seq(Nat)
    BY <1>3 DEF Serve
  <2>2. /\ Head(out[k]) \in Nat /\ Tail(out[k]) \in Seq(Nat)
        /\ Len(Tail(out[k])) <= OutCap
    BY <1>1, <2>1
  <2>3. Append(wire[k], Head(out[k])) \in Seq(Nat)
    BY <2>1, <2>2
  <2>4. out' = [out EXCEPT ![k] = Tail(out[k])] /\ UNCHANGED <<conns, up, inbox, got>>
    BY <1>3 DEF Serve
  <2>5. out' \in [Conns -> Seq(Nat)] /\ \A c \in Conns : Len(out'[c]) <= OutCap
    BY <2>2, <2>4
  <2>6. wire' = wire \/ wire' = [wire EXCEPT ![k] = Append(wire[k], Head(out[k]))]
    BY <1>3 DEF Serve
  <2>7. wire' \in [Conns -> Seq(Nat)]
    BY <2>3, <2>6
  <2>8. server' \in [Conns -> {"none", "dialed", "registered", "gone"}]
    BY <1>3 DEF Serve
  <2>9. QED
    BY <2>4, <2>5, <2>7, <2>8
<1>4. ASSUME NEW n \in Nat, Broadcast(n) PROVE FanoutTypeOK' /\ ReadsOne'
  <2>1. \A c \in Conns : /\ Append(out[c], n) \in Seq(Nat)
                         /\ Len(Append(out[c], n)) = Len(out[c]) + 1
    OBVIOUS
  <2>2. out' \in [Conns -> Seq(Nat)]
    BY <1>4, <2>1 DEF Broadcast
  <2>3. \A c \in Conns : Len(out[c]) \in Nat
    OBVIOUS
  <2>4. \A c \in Conns : Len(out'[c]) <= OutCap
    BY <1>1, <1>4, <2>1, <2>3 DEF Broadcast
  <2>5. QED
    BY <1>4, <2>2, <2>4 DEF Broadcast
<1>5. CASE FanoutCrash
  <2>1. << >> \in Seq(Nat) /\ Len(<< >>) = 0
    OBVIOUS
  <2>2. out' \in [Conns -> Seq(Nat)] /\ \A c \in Conns : Len(out'[c]) <= OutCap
    BY <1>1, <1>5, <2>1 DEF FanoutCrash
  <2>3. server' \in [Conns -> {"none", "dialed", "registered", "gone"}]
    BY <1>5 DEF FanoutCrash
  <2>4. QED
    BY <1>5, <2>2, <2>3 DEF FanoutCrash
<1>6. QED
  BY <1>2, <1>3, <1>4, <1>5

\* Every step keeps the ingester and the feed well typed.
LEMMA TypeNext ==
    ASSUME TypeOK, ReadsOne, [Next]_vars
    PROVE  TypeOK' /\ ReadsOne'
<1> USE DEF TypeOK
<1>1. MaxEvents \in Nat /\ read \in Nat
  BY FeedAssumption
<1>2. CASE Reader
  <2>1. CASE ReadMessage
    BY <1>1, <2>1
    DEF ReadMessage, StoreTypeOK, FanoutTypeOK, ReadsOne, storeVars, fanoutVars
  <2>2. CASE HandleStore
    BY <1>1, <2>2, EnqueueTyped DEF HandleStore, FanoutTypeOK, ReadsOne, fanoutVars
  <2>3. CASE HandleFanout
    BY <1>1, <2>3, ServerTyped DEF HandleFanout, StoreTypeOK, storeVars
  <2>4. QED
    BY <1>2, <2>1, <2>2, <2>3 DEF Reader
<1>3. CASE WriterCollects
  BY <1>3, CollectTyped DEF WriterCollects, FanoutTypeOK, ReadsOne, fanoutVars
<1>4. CASE WriterTicks
  BY <1>4, TickTyped DEF WriterTicks, FanoutTypeOK, ReadsOne, fanoutVars
<1>5. CASE Fanout /\ UNCHANGED <<read, handling, storeVars>>
  <2>1. FanoutTypeOK' /\ ReadsOne'
    BY <1>5, ClientTyped, ServerTyped DEF Fanout
  <2>2. QED
    BY <1>5, <2>1 DEF StoreTypeOK, storeVars
<1>6. CASE Crash
  BY <1>6, StoreCrashTyped, ServerTyped DEF Crash
<1>7. CASE UNCHANGED vars
  BY <1>7 DEF vars, storeVars, fanoutVars, StoreTypeOK, FanoutTypeOK, ReadsOne
<1>8. QED
  BY <1>2, <1>3, <1>4, <1>5, <1>6, <1>7 DEF Next

\* The ingester, the fanout and the bot's client are always well typed: no
\* buffer of theirs ever holds more than its capacity.
THEOREM FeedTypeCorrect == Spec => []TypeOK
<1>1. Init => TypeOK /\ ReadsOne
  BY TypeInit DEF Init, FanoutInit, ReadsOne
<1>2. TypeOK /\ ReadsOne /\ [Next]_vars => TypeOK' /\ ReadsOne'
  BY TypeNext
<1>3. QED
  BY <1>1, <1>2, PTL DEF Spec

-----------------------------------------------------------------------------
(* Every row is in one place, once.                                        *)

\* The rows that are in the table, on their way to it or given up.
Handed == ToSet(trades) \cup Waiting \cup unstored

\* The order of the rows, from the table over the batch to the queue.
StoreOrder ==
    /\ Ascends(trades) /\ Ascends(batch) /\ Ascends(queue)
    /\ AllBelow(ToSet(trades), ToSet(batch))
    /\ AllBelow(ToSet(trades), ToSet(queue))
    /\ AllBelow(ToSet(batch), ToSet(queue))
    /\ (ToSet(trades) \cup Waiting) \cap unstored = {}

HandedSoFar == IF handling = "store" THEN read - 1 ELSE read

StoreInv ==
    /\ TypeOK /\ ReadsOne
    /\ handling = "store" => read # 0
    /\ StoreOrder
    /\ Handed \subseteq 1..HandedSoFar
    /\ accepted = Handed

\* A number above all others at the end of the queue.
LEMMA EnqueueOrder ==
    ASSUME StoreTypeOK, StoreOrder, NEW n \in Nat, AllBelow(Handed, {n}), EnqueueTrade(n)
    PROVE  StoreOrder' /\ Handed' = Handed \cup {n}
<1>1. /\ queue \in Seq(Nat) /\ queue' = Append(queue, n)
      /\ UNCHANGED <<batch, trades, unstored>>
      /\ AllBelow(ToSet(queue), {n}) /\ AllBelow(ToSet(batch), {n})
      /\ AllBelow(ToSet(trades), {n})
  BY DEF StoreTypeOK, EnqueueTrade, Handed, Waiting, AllBelow
<1>2. Ascends(queue') /\ ToSet(queue') = ToSet(queue) \cup {n}
  BY <1>1, OfAppend DEF StoreOrder
<1>3. n \notin unstored
  BY DEF Handed, AllBelow
<1>4. Handed' = Handed \cup {n}
  BY <1>1, <1>2 DEF Handed, Waiting
<1>5. /\ AllBelow(ToSet(trades), ToSet(queue)) /\ AllBelow(ToSet(batch), ToSet(queue))
      /\ Ascends(trades) /\ Ascends(batch) /\ AllBelow(ToSet(trades), ToSet(batch))
      /\ (ToSet(trades) \cup Waiting) \cap unstored = {}
  BY DEF StoreOrder
<1>6. AllBelow(ToSet(trades'), ToSet(queue')) /\ AllBelow(ToSet(batch'), ToSet(queue'))
  BY <1>1, <1>2, <1>5 DEF AllBelow
<1>7. (ToSet(trades') \cup Waiting') \cap unstored' = {}
  BY <1>1, <1>2, <1>3, <1>5 DEF Waiting
<1>8. QED
  BY <1>1, <1>2, <1>4, <1>5, <1>6, <1>7 DEF StoreOrder

\* A batch that goes to the table or is given up.
LEMMA FlushedOrder ==
    ASSUME StoreTypeOK, Ascends(trades), NEW rows \in Seq(Nat), Ascends(rows),
           AllBelow(ToSet(trades), ToSet(rows)),
           (ToSet(trades) \cup ToSet(rows)) \cap unstored = {}, Flushed(rows)
    PROVE  /\ Ascends(trades') /\ batch' = << >>
           /\ ToSet(trades') \cup unstored' = ToSet(trades) \cup ToSet(rows) \cup unstored
           /\ ToSet(trades') \cap unstored' = {}
           /\ ToSet(trades') \subseteq ToSet(trades) \cup ToSet(rows)
           /\ unstored' \subseteq unstored \cup ToSet(rows)
<1>1. CASE trades' = trades \o rows /\ unstored' = unstored
  <2>1. Ascends(trades') /\ ToSet(trades') = ToSet(trades) \cup ToSet(rows)
    BY <1>1, OfConcat DEF StoreTypeOK
  <2>2. QED
    BY <1>1, <2>1 DEF Flushed
<1>2. CASE unstored' = unstored \cup ToSet(rows) /\ trades' = trades
  <2>1. ToSet(trades) \cap ToSet(rows) = {}
    <3>1. ToSet(trades) \subseteq Nat
      BY DEF StoreTypeOK, ToSet
    <3>2. QED
      BY <3>1 DEF AllBelow
  <2>2. QED
    BY <1>2, <2>1 DEF Flushed
<1>3. QED
  BY <1>1, <1>2 DEF Flushed

\* The first of the queue at the end of the batch.
LEMMA CollectOrder ==
    ASSUME StoreTypeOK, StoreOrder, Collect
    PROVE  StoreOrder' /\ Handed' = Handed
<1> DEFINE n == Head(queue)
           rows == Append(batch, n)
<1>1. /\ queue \in Seq(Nat) /\ queue # << >> /\ queue' = Tail(queue)
      /\ batch \in Seq(Nat)
  BY DEF StoreTypeOK, Collect
<1>2. /\ n \in Nat /\ ToSet(queue) = {n} \cup ToSet(queue')
      /\ Ascends(queue') /\ AllBelow({n}, ToSet(queue'))
  BY <1>1, OfTail DEF StoreOrder
<1>3. /\ Ascends(trades) /\ Ascends(batch)
      /\ AllBelow(ToSet(trades), ToSet(batch)) /\ AllBelow(ToSet(trades), ToSet(queue))
      /\ AllBelow(ToSet(batch), ToSet(queue))
      /\ (ToSet(trades) \cup ToSet(batch) \cup ToSet(queue)) \cap unstored = {}
  BY DEF StoreOrder, Waiting
<1>4. AllBelow(ToSet(batch), {n})
  BY <1>2, <1>3 DEF AllBelow
<1>5. rows \in Seq(Nat) /\ Ascends(rows) /\ ToSet(rows) = ToSet(batch) \cup {n}
  BY <1>1, <1>2, <1>3, <1>4, OfAppend
<1> HIDE DEF n, rows
<1>6. /\ AllBelow(ToSet(trades), ToSet(rows)) /\ AllBelow(ToSet(rows), ToSet(queue'))
      /\ AllBelow(ToSet(trades), ToSet(queue'))
  BY <1>2, <1>3, <1>5 DEF AllBelow
<1>7. (ToSet(trades) \cup ToSet(rows)) \cap unstored = {}
  BY <1>2, <1>3, <1>5
<1>8. ToSet(queue') \cap (ToSet(rows) \cup unstored) = {}
  <2>1. ToSet(rows) \subseteq Nat
    BY <1>5 DEF ToSet
  <2>2. ToSet(queue') \cap ToSet(rows) = {}
    BY <1>6, <2>1 DEF AllBelow
  <2>3. QED
    BY <1>2, <1>3, <2>2
<1>9. CASE Flushed(rows)
  <2>1. /\ Ascends(trades') /\ batch' = << >>
        /\ ToSet(trades') \cup unstored' = ToSet(trades) \cup ToSet(rows) \cup unstored
        /\ ToSet(trades') \cap unstored' = {}
        /\ ToSet(trades') \subseteq ToSet(trades) \cup ToSet(rows)
        /\ unstored' \subseteq unstored \cup ToSet(rows)
    BY <1>3, <1>5, <1>6, <1>7, <1>9, FlushedOrder
  <2>2. ToSet(batch') = {} /\ Ascends(batch')
    BY <2>1, OfEmpty
  <2>3. Handed' = Handed
    BY <1>2, <1>5, <2>1, <2>2 DEF Handed, Waiting
  <2>4. AllBelow(ToSet(trades'), ToSet(queue'))
    BY <1>6, <2>1 DEF AllBelow
  <2>5. AllBelow(ToSet(trades'), ToSet(batch')) /\ AllBelow(ToSet(batch'), ToSet(queue'))
    BY <2>2 DEF AllBelow
  <2>6. (ToSet(trades') \cup Waiting') \cap unstored' = {}
    BY <1>8, <2>1, <2>2 DEF Waiting
  <2>7. QED
    BY <1>2, <2>1, <2>2, <2>3, <2>4, <2>5, <2>6 DEF StoreOrder
<1>10. CASE batch' = rows /\ UNCHANGED <<trades, unstored>>
  <2>1. Handed' = Handed
    BY <1>2, <1>5, <1>10 DEF Handed, Waiting
  <2>2. (ToSet(trades') \cup Waiting') \cap unstored' = {}
    BY <1>7, <1>8, <1>10 DEF Waiting
  <2>3. QED
    BY <1>2, <1>3, <1>5, <1>6, <1>10, <2>1, <2>2 DEF StoreOrder
<1>11. QED
  BY <1>9, <1>10 DEF Collect, rows, n

\* The ticker's flush.
LEMMA TickOrder ==
    ASSUME StoreTypeOK, StoreOrder, Tick
    PROVE  StoreOrder' /\ Handed' = Handed
<1>1. batch \in Seq(Nat) /\ Flushed(batch) /\ queue' = queue
  BY DEF StoreTypeOK, Tick
<1>2. /\ Ascends(trades) /\ Ascends(batch) /\ Ascends(queue)
      /\ AllBelow(ToSet(trades), ToSet(batch)) /\ AllBelow(ToSet(trades), ToSet(queue))
      /\ AllBelow(ToSet(batch), ToSet(queue))
      /\ (ToSet(trades) \cup ToSet(batch) \cup ToSet(queue)) \cap unstored = {}
  BY DEF StoreOrder, Waiting
<1>3. /\ Ascends(trades') /\ batch' = << >>
      /\ ToSet(trades') \cup unstored' = ToSet(trades) \cup ToSet(batch) \cup unstored
      /\ ToSet(trades') \cap unstored' = {}
      /\ ToSet(trades') \subseteq ToSet(trades) \cup ToSet(batch)
      /\ unstored' \subseteq unstored \cup ToSet(batch)
  BY <1>1, <1>2, FlushedOrder
<1>4. ToSet(batch') = {} /\ Ascends(batch')
  BY <1>3, OfEmpty
<1>5. ToSet(queue) \cap ToSet(batch) = {}
  <2>1. ToSet(batch) \subseteq Nat
    BY <1>1 DEF ToSet
  <2>2. QED
    BY <1>2, <2>1 DEF AllBelow
<1>6. Handed' = Handed
  BY <1>1, <1>3, <1>4 DEF Handed, Waiting
<1>7. /\ AllBelow(ToSet(trades'), ToSet(queue'))
      /\ AllBelow(ToSet(trades'), ToSet(batch')) /\ AllBelow(ToSet(batch'), ToSet(queue'))
  BY <1>1, <1>2, <1>3, <1>4 DEF AllBelow
<1>8. (ToSet(trades') \cup Waiting') \cap unstored' = {}
  BY <1>1, <1>2, <1>3, <1>4, <1>5 DEF Waiting
<1>9. QED
  BY <1>1, <1>2, <1>3, <1>4, <1>6, <1>7, <1>8 DEF StoreOrder

\* The loss of what is in memory.
LEMMA StoreCrashOrder ==
    ASSUME StoreTypeOK, StoreOrder, StoreCrash
    PROVE  StoreOrder' /\ Handed' = Handed
<1>1. /\ ToSet(queue') = {} /\ Ascends(queue') /\ ToSet(batch') = {} /\ Ascends(batch')
      /\ unstored' = unstored \cup Waiting /\ trades' = trades
  BY OfEmpty DEF StoreCrash, Waiting
<1>2. ToSet(trades) \cap Waiting = {}
  <2>1. ToSet(trades) \subseteq Nat
    BY DEF StoreTypeOK, ToSet
  <2>2. QED
    BY <2>1 DEF StoreOrder, AllBelow, Waiting
<1>3. Handed' = Handed
  BY <1>1 DEF Handed, Waiting
<1>4. (ToSet(trades') \cup Waiting') \cap unstored' = {}
  BY <1>1, <1>2 DEF StoreOrder, Waiting
<1>5. QED
  BY <1>1, <1>3, <1>4 DEF StoreOrder, AllBelow

\* Every step keeps the rows in order, none below one that came before it, and
\* loses none of those the store has accepted.
LEMMA StoreNext == StoreInv /\ [Next]_vars => StoreInv'
<1> SUFFICES ASSUME StoreInv, [Next]_vars PROVE StoreInv'
  OBVIOUS
<1>1. /\ TypeOK /\ ReadsOne /\ StoreTypeOK /\ StoreOrder
      /\ read \in Nat /\ Handed \subseteq 1..HandedSoFar
      /\ handling = "store" => read # 0
      /\ accepted = Handed
  BY FeedAssumption DEF StoreInv, TypeOK
<1>2. TypeOK' /\ ReadsOne'
  BY <1>1, TypeNext
<1>3. CASE ReadMessage
  <2>1. StoreOrder' /\ Handed' = Handed
    BY <1>1, <1>3 DEF ReadMessage, storeVars, StoreOrder, Handed, Waiting
  <2>1a. accepted' = Handed'
    BY <1>1, <1>3, <2>1 DEF ReadMessage, storeVars
  <2>2. (handling = "store" => read # 0)' /\ HandedSoFar' = HandedSoFar
    BY <1>1, <1>3 DEF ReadMessage, HandedSoFar
  <2>3. QED
    BY <1>1, <1>2, <2>1, <2>1a, <2>2 DEF StoreInv
<1>4. CASE HandleStore
  <2>1. AllBelow(Handed, {read})
    BY <1>1, <1>4 DEF HandleStore, HandedSoFar, AllBelow
  <2>2. StoreOrder' /\ Handed' = Handed \cup {read}
    BY <1>1, <1>4, <2>1, EnqueueOrder DEF HandleStore
  <2>3. HandedSoFar = read - 1 /\ HandedSoFar' = read /\ handling' # "store"
    BY <1>4 DEF HandleStore, HandedSoFar
  <2>4. Handed' \subseteq 1..HandedSoFar'
    BY <1>1, <1>4, <2>2, <2>3 DEF HandleStore
  <2>5. accepted' = Handed'
    BY <1>1, <1>4, <2>2 DEF HandleStore, EnqueueTrade
  <2>6. QED
    BY <1>2, <2>2, <2>3, <2>4, <2>5 DEF StoreInv
<1>5. CASE HandleFanout
  <2>1. StoreOrder' /\ Handed' = Handed
    BY <1>1, <1>5 DEF HandleFanout, storeVars, StoreOrder, Handed, Waiting
  <2>1a. accepted' = Handed'
    BY <1>1, <1>5, <2>1 DEF HandleFanout, storeVars
  <2>2. handling' # "store" /\ HandedSoFar' = HandedSoFar
    BY <1>5 DEF HandleFanout, HandedSoFar
  <2>3. QED
    BY <1>1, <1>2, <2>1, <2>1a, <2>2 DEF StoreInv
<1>6. CASE WriterCollects \/ WriterTicks
  <2>1. StoreOrder' /\ Handed' = Handed
    BY <1>1, <1>6, CollectOrder, TickOrder DEF WriterCollects, WriterTicks
  <2>2. UNCHANGED <<read, handling, accepted>>
    BY <1>6 DEF WriterCollects, WriterTicks, Collect, Tick
  <2>3. QED
    BY <1>1, <1>2, <2>1, <2>2 DEF StoreInv, HandedSoFar
<1>7. CASE UNCHANGED <<read, handling, storeVars>>
  <2>1. StoreOrder' /\ Handed' = Handed
    BY <1>1, <1>7 DEF storeVars, StoreOrder, Handed, Waiting
  <2>2. QED
    BY <1>1, <1>2, <1>7, <2>1 DEF StoreInv, HandedSoFar, storeVars
<1>8. CASE Crash
  <2>1. StoreOrder' /\ Handed' = Handed
    BY <1>1, <1>8, StoreCrashOrder DEF Crash
  <2>1a. accepted' = Handed'
    BY <1>1, <1>8, <2>1 DEF Crash, StoreCrash
  <2>2. 1..HandedSoFar \subseteq 1..HandedSoFar' /\ handling' # "store"
    BY <1>1, <1>8 DEF Crash, HandedSoFar
  <2>3. QED
    BY <1>1, <1>2, <2>1, <2>1a, <2>2 DEF StoreInv
<1>9. QED
  BY <1>3, <1>4, <1>5, <1>6, <1>7, <1>8 DEF Next, Reader, vars

\* The ingester starts with nothing.
LEMMA StoreStart == Init => StoreInv
<1> SUFFICES ASSUME Init PROVE StoreInv
  OBVIOUS
<1>1. /\ TypeOK /\ ReadsOne /\ handling # "store"
  BY TypeInit DEF Init, FanoutInit, ReadsOne
<1>2. /\ queue = << >> /\ batch = << >> /\ trades = << >>
      /\ unstored = {} /\ accepted = {}
  BY DEF Init, StoreInit
<1>3. Handed = {} /\ accepted = {} /\ StoreOrder
  BY <1>2, OfEmpty DEF Handed, Waiting, StoreOrder, AllBelow
<1>4. QED
  BY <1>1, <1>3 DEF StoreInv

\* Every event that the store has accepted is in the table, on its way to it or
\* given up, in only one of these places and there only once, and the rows come in
\* the order of the events, whatever COPYs fail and whenever the ingester dies.
THEOREM StoredOnceCorrect == Spec => []StoredOnce
<1>1. Init => StoreInv
  BY StoreStart
<1>2. StoreInv => StoredOnce
  <2> SUFFICES ASSUME StoreInv PROVE StoredOnce
    OBVIOUS
  <2> DEFINE kept == trades \o batch
             rows == kept \o queue
  <2>1. /\ trades \in Seq(Nat) /\ batch \in Seq(Nat) /\ queue \in Seq(Nat)
        /\ StoreOrder /\ accepted = Handed
    BY DEF StoreInv, TypeOK, StoreTypeOK
  <2>2. /\ kept \in Seq(Nat) /\ Ascends(kept)
        /\ ToSet(kept) = ToSet(trades) \cup ToSet(batch)
    BY <2>1, OfConcat DEF StoreOrder
  <2> HIDE DEF kept
  <2>3. AllBelow(ToSet(kept), ToSet(queue)) /\ Ascends(queue)
    BY <2>1, <2>2 DEF StoreOrder, AllBelow
  <2>4. Ascends(rows) /\ ToSet(rows) = ToSet(kept) \cup ToSet(queue)
    BY <2>1, <2>2, <2>3, OfConcat
  <2> HIDE DEF rows
  <2>5. ToSet(rows) = ToSet(trades) \cup Waiting
    BY <2>2, <2>4 DEF Waiting
  <2>6. ToSet(rows) \cap unstored = {} /\ accepted = ToSet(rows) \cup unstored
    BY <2>1, <2>5 DEF StoreOrder, Handed
  <2>7. \A i, j \in 1..Len(rows) : i < j => rows[i] < rows[j]
    BY <2>4 DEF Ascends
  <2>8. rows = trades \o batch \o queue
    BY DEF rows, kept
  <2>9. QED
    BY <2>6, <2>7, <2>8 DEF StoredOnce
<1>3. QED
  BY <1>1, <1>2, StoreNext, PTL DEF Spec

-----------------------------------------------------------------------------
(* What the bot sees was handed to the store before.                       *)

\* All events anywhere between the fanout server and the bot are in S.
FlowsFrom(S) ==
    /\ ToSet(got) \cup ToSet(inbox) \subseteq S
    /\ \A k \in Conns : ToSet(out[k]) \cup ToSet(wire[k]) \subseteq S

FeedInv ==
    /\ StoreInv
    /\ FlowsFrom(Handed)
    /\ handling = "fanout" => read \in Handed

\* The client sees nothing but what was sent to it.
LEMMA ClientFlows ==
    ASSUME FanoutTypeOK, ReadsOne, NEW S, FlowsFrom(S), DialFanout \/ Scan \/ Hangup \/ Pump
    PROVE  FlowsFrom(S)'
<1>1. up => conns \in Conns /\ wire[conns] \in Seq(Nat)
  BY FanoutAssumption DEF Conns, FanoutTypeOK, ReadsOne
<1>2. CASE DialFanout
  BY <1>2 DEF DialFanout, FlowsFrom
<1>3. CASE Scan
  <2>1. /\ conns \in Conns /\ wire[conns] # << >> /\ wire[conns] \in Seq(Nat)
        /\ wire' = [wire EXCEPT ![conns] = Tail(wire[conns])]
        /\ UNCHANGED <<out, got>>
    BY <1>1, <1>3 DEF Scan
  <2>2. ToSet(wire[conns]) = {Head(wire[conns])} \cup ToSet(Tail(wire[conns]))
    BY <2>1, OfTail
  <2>3. ToSet(wire[conns]) \subseteq S
    BY <2>1 DEF FlowsFrom
  <2>4. inbox \in Seq(Nat) /\ Head(wire[conns]) \in Nat
    BY <2>1, OfTail DEF FanoutTypeOK
  <2>5. ToSet(inbox') \subseteq ToSet(inbox) \cup {Head(wire[conns])}
    BY <1>3, <2>4, OfAppend DEF Scan
  <2>6. \A k \in Conns : ToSet(wire'[k]) \subseteq S
    BY <2>1, <2>2, <2>3 DEF FlowsFrom, FanoutTypeOK
  <2>7. QED
    BY <2>1, <2>2, <2>3, <2>5, <2>6 DEF FlowsFrom
<1>4. CASE Hangup
  <2>1. wire' = [wire EXCEPT ![conns] = << >>] /\ UNCHANGED <<out, inbox, got>>
    BY <1>4 DEF Hangup
  <2>2. \A k \in Conns : ToSet(wire'[k]) \subseteq S
    BY <2>1, OfEmpty DEF FlowsFrom, FanoutTypeOK
  <2>3. QED
    BY <2>1, <2>2 DEF FlowsFrom
<1>5. CASE Pump
  <2>1. /\ inbox \in Seq(Nat) /\ inbox # << >> /\ got \in Seq(Nat)
        /\ inbox' = Tail(inbox) /\ got' = Append(got, Head(inbox))
        /\ UNCHANGED <<out, wire>>
    BY <1>5 DEF Pump, FanoutTypeOK
  <2>2. /\ ToSet(inbox) = {Head(inbox)} \cup ToSet(inbox') /\ Head(inbox) \in Nat
    BY <2>1, OfTail
  <2>3. ToSet(got') = ToSet(got) \cup {Head(inbox)}
    BY <2>1, <2>2, OfAppend
  <2>4. QED
    BY <2>1, <2>2, <2>3 DEF FlowsFrom
<1>6. QED
  BY <1>2, <1>3, <1>4, <1>5

\* The server sends nothing but what was broadcast to it.
LEMMA ServerFlows ==
    ASSUME FanoutTypeOK, NEW S, FlowsFrom(S),
           \/ \E k \in Conns : Register(k) \/ Serve(k)
           \/ \E n \in Nat \cap S : Broadcast(n)
           \/ FanoutCrash
    PROVE  FlowsFrom(S)'
<1>1. ASSUME NEW k \in Conns, Register(k) PROVE FlowsFrom(S)'
  BY <1>1 DEF Register, FlowsFrom
<1>2. ASSUME NEW k \in Conns, Serve(k) PROVE FlowsFrom(S)'
  <2>1. /\ out[k] \in Seq(Nat) /\ out[k] # << >> /\ wire[k] \in Seq(Nat)
        /\ out' = [out EXCEPT ![k] = Tail(out[k])] /\ UNCHANGED <<inbox, got>>
        /\ wire' = wire \/ wire' = [wire EXCEPT ![k] = Append(wire[k], Head(out[k]))]
    BY <1>2 DEF Serve, FanoutTypeOK
  <2>2. ToSet(out[k]) = {Head(out[k])} \cup ToSet(Tail(out[k])) /\ Head(out[k]) \in Nat
    BY <2>1, OfTail
  <2>3. ToSet(Append(wire[k], Head(out[k]))) = ToSet(wire[k]) \cup {Head(out[k])}
    BY <2>1, <2>2, OfAppend
  <2>4. \A c \in Conns : ToSet(out'[c]) \subseteq S
    BY <2>1, <2>2 DEF FlowsFrom, FanoutTypeOK
  <2>5. \A c \in Conns : ToSet(wire'[c]) \subseteq S
    BY <2>1, <2>2, <2>3 DEF FlowsFrom, FanoutTypeOK
  <2>6. QED
    BY <2>1, <2>4, <2>5 DEF FlowsFrom
<1>3. ASSUME NEW n \in Nat \cap S, Broadcast(n) PROVE FlowsFrom(S)'
  <2>1. \A c \in Conns : ToSet(Append(out[c], n)) = ToSet(out[c]) \cup {n}
    <3>1. TAKE c \in Conns
    <3>2. out[c] \in Seq(Nat)
      BY DEF FanoutTypeOK
    <3>3. QED
      BY <3>2, OfAppend
  <2>2. \A c \in Conns : ToSet(out'[c]) \subseteq S
    BY <1>3, <2>1 DEF Broadcast, FlowsFrom
  <2>3. QED
    BY <1>3, <2>2 DEF Broadcast, FlowsFrom
<1>4. CASE FanoutCrash
  BY <1>4, OfEmpty DEF FanoutCrash, FlowsFrom
<1>5. QED
  BY <1>1, <1>2, <1>3, <1>4

\* Every step keeps the feed behind the store.
LEMMA FeedNext == FeedInv /\ [Next]_vars => FeedInv'
<1> SUFFICES ASSUME FeedInv, [Next]_vars PROVE FeedInv'
  OBVIOUS
<1>1. /\ StoreInv' /\ StoreInv /\ StoreTypeOK /\ StoreOrder /\ FanoutTypeOK /\ ReadsOne
      /\ read \in Nat /\ Handed \subseteq 1..HandedSoFar
  BY StoreNext, FeedAssumption DEF FeedInv, StoreInv, TypeOK
<1>2. PICK S : S = Handed
  OBVIOUS
<1>3. FlowsFrom(S) /\ (handling = "fanout" => read \in S)
  BY <1>2 DEF FeedInv
<1>4. CASE ReadMessage
  <2>1. Handed' = S /\ FlowsFrom(S)' /\ handling' # "fanout"
    BY <1>2, <1>3, <1>4
    DEF ReadMessage, storeVars, fanoutVars, Handed, Waiting, FlowsFrom
  <2>2. QED
    BY <1>1, <2>1 DEF FeedInv, FlowsFrom
<1>5. CASE HandleStore
  <2>1. AllBelow(Handed, {read})
    BY <1>1, <1>5 DEF HandleStore, HandedSoFar, AllBelow
  <2>2. Handed' = S \cup {read} /\ read' = read
    BY <1>1, <1>2, <1>5, <2>1, EnqueueOrder DEF HandleStore
  <2>3. FlowsFrom(S)'
    BY <1>3, <1>5 DEF HandleStore, fanoutVars, FlowsFrom
  <2>4. QED
    BY <1>1, <2>2, <2>3 DEF FeedInv, FlowsFrom
<1>6. CASE HandleFanout
  <2>1. Handed' = S /\ handling' # "fanout"
    BY <1>2, <1>6 DEF HandleFanout, storeVars, Handed, Waiting
  <2>2. FlowsFrom(S)'
    BY <1>1, <1>3, <1>6, ServerFlows DEF HandleFanout
  <2>3. QED
    BY <1>1, <2>1, <2>2 DEF FeedInv, FlowsFrom
<1>7. CASE WriterCollects \/ WriterTicks
  <2>1. Handed' = S
    BY <1>1, <1>2, <1>7, CollectOrder, TickOrder DEF WriterCollects, WriterTicks
  <2>2. FlowsFrom(S)' /\ UNCHANGED <<read, handling>>
    BY <1>3, <1>7 DEF WriterCollects, WriterTicks, fanoutVars, FlowsFrom
  <2>3. QED
    BY <1>1, <1>3, <2>1, <2>2 DEF FeedInv, FlowsFrom
<1>8. CASE Fanout /\ UNCHANGED <<read, handling, storeVars>>
  <2>1. Handed' = S
    BY <1>2, <1>8 DEF storeVars, Handed, Waiting
  <2>2. FlowsFrom(S)'
    BY <1>1, <1>3, <1>8, ClientFlows, ServerFlows DEF Fanout
  <2>3. QED
    BY <1>1, <1>3, <1>8, <2>1, <2>2 DEF FeedInv, FlowsFrom
<1>9. CASE Crash
  <2>1. Handed' = S /\ handling' # "fanout"
    BY <1>1, <1>2, <1>9, StoreCrashOrder DEF Crash
  <2>2. FlowsFrom(S)'
    BY <1>1, <1>3, <1>9, ServerFlows DEF Crash
  <2>3. QED
    BY <1>1, <2>1, <2>2 DEF FeedInv, FlowsFrom
<1>10. CASE UNCHANGED vars
  <2>1. Handed' = S /\ FlowsFrom(S)' /\ UNCHANGED <<read, handling>>
    BY <1>2, <1>3, <1>10 DEF vars, storeVars, fanoutVars, Handed, Waiting, FlowsFrom
  <2>2. QED
    BY <1>1, <1>3, <2>1 DEF FeedInv, FlowsFrom
<1>11. QED
  BY <1>4, <1>5, <1>6, <1>7, <1>8, <1>9, <1>10 DEF Next, Reader

\* The bot is never ahead of the store: whatever it has seen was queued for
\* the table first.
THEOREM BotBehindStoreCorrect == Spec => []BotBehindStore
<1>1. Init => FeedInv
  <2> SUFFICES ASSUME Init PROVE FeedInv
    OBVIOUS
  <2>1. /\ got = << >> /\ inbox = << >> /\ handling # "fanout"
        /\ \A k \in Conns : out[k] = << >> /\ wire[k] = << >>
    BY DEF Init, FanoutInit
  <2>2. FlowsFrom(Handed)
    BY <2>1, OfEmpty DEF FlowsFrom
  <2>3. StoreInv
    BY StoreStart
  <2>4. QED
    BY <2>1, <2>2, <2>3 DEF FeedInv
<1>2. FeedInv => BotBehindStore
  BY DEF FeedInv, FlowsFrom, Handed, BotBehindStore
<1>3. QED
  BY <1>1, <1>2, FeedNext, PTL DEF Spec
-----------------------------------------------------------------------------
(* The refinement: to the bot the feed is a channel.                       *)

\* The event the reader has in its hands.
Pending == IF handling = "none" THEN << >> ELSE <<read>>

Channel == OnTheWay \o Pending

\* A longer prefix.
LEMMA PrefixStep ==
    ASSUME NEW d \in Seq(Nat), NEW m \in 0..(Len(d) - 1)
    PROVE  /\ [j \in 1..m |-> d[j]] \in Seq(Nat)
           /\ Append([j \in 1..m |-> d[j]], d[m + 1]) = [j \in 1..(m + 1) |-> d[j]]
<1> DEFINE p == [j \in 1..m |-> d[j]]
           q == [j \in 1..(m + 1) |-> d[j]]
<1>1. m \in Nat /\ m + 1 \in Nat /\ DOMAIN d = 1..Len(d) /\ Len(d) \in Nat
      /\ \A j \in 1..(m + 1) : j \in 1..Len(d) /\ d[j] \in Nat
  OBVIOUS
<1>2. p \in Seq(Nat) /\ Len(p) = m /\ q \in Seq(Nat) /\ Len(q) = m + 1
  <2>1. p \in [1..m -> Nat] /\ q \in [1..(m + 1) -> Nat]
    BY <1>1
  <2> QED
    BY <1>1, <2>1
<1>3. \A j \in 1..m : p[j] = d[j]
  OBVIOUS
<1>4. \A j \in 1..(m + 1) : q[j] = d[j]
  OBVIOUS
<1> HIDE DEF p, q
<1>5. Append(p, d[m + 1]) = q
  <2> DEFINE r == Append(p, d[m + 1])
  <2>1. /\ r \in Seq(Nat) /\ Len(r) = m + 1 /\ r[m + 1] = d[m + 1]
        /\ \A j \in 1..m : r[j] = p[j]
    BY <1>1, <1>2
  <2> HIDE DEF r
  <2>2. \A j \in 1..(m + 1) : r[j] = q[j]
    BY <1>1, <1>3, <1>4, <2>1
  <2>3. r = q
    BY <1>2, <2>1, <2>2
  <2> QED
    BY <2>3 DEF r
<1> QED
  BY <1>2, <1>5 DEF p, q

\* Any stretch of the channel may be lost.
LEMMA CutOut ==
    ASSUME NEW a \in Seq(Nat), NEW b \in Seq(Nat), NEW c \in Seq(Nat),
           Channel = (a \o b) \o c
    PROVE  \E keep \in SUBSET (1..Len(Channel)) : Feed!Thinned(keep) = a \o c
<1> DEFINE ch == Channel
           d == a \o c
           A == Len(a)
           B == Len(b)
           C == Len(c)
           keep == 1..A \cup ((A + B + 1)..(A + B + C))
           m(i) == IF i <= A THEN i ELSE IF i <= A + B THEN A ELSE i - B
           h == [i \in 0..Len(ch) |-> [j \in 1..m(i) |-> d[j]]]
           Body(g, i) == IF i = 0 THEN << >>
                         ELSE IF i \in keep THEN Append(g[i - 1], ch[i]) ELSE g[i - 1]
           it == CHOOSE g : g = [i \in 0..Len(ch) |-> Body(g, i)]
<1>1. Feed!Thinned(keep) = it[Len(ch)]
  BY DEF Feed!Thinned, Channel, Pending
<1>2. /\ A \in Nat /\ B \in Nat /\ C \in Nat
      /\ d \in Seq(Nat) /\ Len(d) = A + C
      /\ \A i \in 1..(A + C) : d[i] = IF i <= A THEN a[i] ELSE c[i - A]
  BY ConcatProperties
<1>3. /\ ch \in Seq(Nat) /\ Len(ch) = A + B + C
      /\ \A i \in 1..A : ch[i] = a[i]
      /\ \A i \in 1..C : ch[A + B + i] = c[i]
  <2> DEFINE e == a \o b
  <2>1. /\ e \in Seq(Nat) /\ Len(e) = A + B
        /\ \A i \in 1..(A + B) : e[i] = IF i <= A THEN a[i] ELSE b[i - A]
    BY ConcatProperties
  <2>2. ch = e \o c
    OBVIOUS
  <2> HIDE DEF e
  <2>3. /\ e \o c \in Seq(Nat) /\ Len(e \o c) = Len(e) + C
        /\ \A i \in 1..(Len(e) + C) : (e \o c)[i] = IF i <= Len(e) THEN e[i] ELSE c[i - Len(e)]
    <3>1. e \in Seq(Nat)
      BY <2>1
    <3>2. /\ e \o c \in Seq(Nat) /\ Len(e \o c) = Len(e) + Len(c)
          /\ \A i \in 1..(Len(e) + Len(c)) :
               (e \o c)[i] = IF i <= Len(e) THEN e[i] ELSE c[i - Len(e)]
      BY <3>1, ConcatProperties, Zenon
    <3> QED
      BY <3>2
  <2> HIDE DEF ch, A, B, C
  <2>4. \A i \in 1..A : ch[i] = a[i]
    <3> TAKE i \in 1..A
    <3>1. i <= Len(e) /\ i \in 1..(Len(e) + C) /\ i <= A /\ i \in 1..(A + B)
      BY <1>2, <2>1
    <3> QED
      BY <2>1, <2>2, <2>3, <3>1
  <2>5. \A i \in 1..C : ch[A + B + i] = c[i]
    <3> TAKE i \in 1..C
    <3>1. Len(e) + i \in 1..(Len(e) + C) /\ ~(Len(e) + i <= Len(e)) /\ (Len(e) + i) - Len(e) = i
      BY <1>2, <2>1
    <3>2. ch[Len(e) + i] = c[i]
      BY <2>2, <2>3, <3>1
    <3> QED
      BY <2>1, <3>2
  <2> QED
    BY <1>2, <2>1, <2>2, <2>3, <2>4, <2>5
<1> HIDE DEF ch, d, A, B, C
<1> DEFINE L == Len(ch)
           N == Len(d)
<1>4. A \in Nat /\ B \in Nat /\ C \in Nat /\ L = A + B + C /\ N = A + C
  BY <1>2, <1>3
<1> HIDE DEF L, N
<1>5. ASSUME NEW i \in 1..Len(ch)
      PROVE  h[i] = IF i \in keep THEN Append(h[i - 1], ch[i]) ELSE h[i - 1]
  <2>1. i - 1 \in 0..Len(ch) /\ i \in 0..Len(ch) /\ i \in 1..L
    BY <1>4 DEF L
  <2>2. h[i] = [j \in 1..m(i) |-> d[j]] /\ h[i - 1] = [j \in 1..m(i - 1) |-> d[j]]
    BY <2>1
  <2>3. CASE i \in 1..A
    <3>1. m(i) = i /\ m(i - 1) = i - 1 /\ i - 1 \in 0..(N - 1) /\ (i - 1) + 1 = i /\ i \in keep
          /\ i \in 1..(A + C) /\ i <= A
      BY <1>4, <2>3
    <3>2. ch[i] = d[i]
      BY <1>2, <1>3, <2>3, <3>1
    <3>3. Append([j \in 1..(i - 1) |-> d[j]], d[i]) = [j \in 1..i |-> d[j]]
      BY <1>2, <3>1, PrefixStep DEF N
    <3> HIDE DEF m, h, keep
    <3> QED
      BY <2>2, <3>1, <3>2, <3>3
  <2>4. CASE i \in (A + B + 1)..(A + B + C)
    <3> DEFINE k == i - B
    <3>1. /\ m(i) = k /\ m(i - 1) = k - 1 /\ k - 1 \in 0..(N - 1) /\ (k - 1) + 1 = k /\ i \in keep
          /\ k \in 1..(A + C) /\ ~(k <= A) /\ k - A \in 1..C /\ i = A + B + (k - A)
      BY <1>4, <2>4
    <3> HIDE DEF k
    <3>2. ch[i] = c[k - A] /\ d[k] = c[k - A]
      BY <1>2, <1>3, <3>1
    <3>3. Append([j \in 1..(k - 1) |-> d[j]], d[k]) = [j \in 1..k |-> d[j]]
      <4> DEFINE n == k - 1
      <4>1. n \in 0..(Len(d) - 1) /\ n + 1 = k
        BY <3>1 DEF N
      <4> HIDE DEF n
      <4>2. Append([j \in 1..n |-> d[j]], d[n + 1]) = [j \in 1..(n + 1) |-> d[j]]
        BY <1>2, <4>1, PrefixStep
      <4> QED
        BY <4>1, <4>2 DEF n
    <3> HIDE DEF m, h, keep
    <3> QED
      BY <2>2, <3>1, <3>2, <3>3
  <2>5. CASE i \notin keep
    <3>1. i > A /\ i <= A + B
      BY <1>4, <2>1, <2>5
    <3>2. m(i) = A /\ m(i - 1) = A
      BY <1>4, <2>1, <3>1
    <3> HIDE DEF m, h, keep
    <3> QED
      BY <2>2, <2>5, <3>2
  <2> QED
    BY <2>3, <2>4, <2>5
<1>6. h[0] = << >> /\ h[Len(ch)] = d
  <2>1. 0 \in 0..Len(ch) /\ Len(ch) \in 0..Len(ch)
    BY <1>4 DEF L
  <2>2. m(0) = 0 /\ m(Len(ch)) = Len(d)
    <3>1. m(0) = 0 /\ m(L) = N
      BY <1>4
    <3> QED
      BY <3>1 DEF L, N
  <2>3. h[0] = [j \in 1..0 |-> d[j]] /\ h[Len(ch)] = [j \in 1..Len(d) |-> d[j]]
    <3> HIDE DEF m
    <3> QED
      BY <2>1, <2>2
  <2> HIDE DEF h
  <2>4. [j \in 1..0 |-> d[j]] = << >>
    OBVIOUS
  <2>5. [j \in 1..Len(d) |-> d[j]] = d
    BY <1>2
  <2> QED
    BY <2>3, <2>4, <2>5
<1>7. h = [i \in 0..Len(ch) |-> Body(h, i)]
  <2>1. \A i \in 0..Len(ch) : i = 0 \/ i \in 1..Len(ch)
    BY <1>3
  <2>2. \A i \in 0..Len(ch) : h[i] = Body(h, i)
    <3> HIDE DEF h, keep
    <3> QED
      BY <1>5, <1>6, <2>1
  <2>3. h = [i \in 0..Len(ch) |-> h[i]]
    OBVIOUS
  <2> HIDE DEF h, keep
  <2> QED
    BY <2>2, <2>3
<1>8. it = [i \in 0..Len(ch) |-> Body(it, i)]
  <2> HIDE DEF h, keep
  <2> QED
    BY <1>7
<1>9. \A i \in 0..Len(ch) : it[i] = Body(it, i)
  <2> HIDE DEF it, keep
  <2> QED
    BY <1>8
<1> HIDE DEF it, h, keep
<1> DEFINE T == {i \in 0..Len(ch) : it[i] = h[i]}
<1>10. 0 \in T
  <2>1. 0 \in 0..Len(ch)
    BY <1>3
  <2> QED
    BY <1>6, <1>9, <2>1
<1>11. ASSUME NEW i \in 0..(Len(ch) - 1), i \in T PROVE i + 1 \in T
  <2>1. i + 1 \in 1..Len(ch) /\ (i + 1) - 1 = i /\ i + 1 # 0 /\ i + 1 \in 0..Len(ch)
    <3>1. i \in 0..(L - 1)
      BY DEF L
    <3>2. i + 1 \in 1..L /\ (i + 1) - 1 = i /\ i + 1 # 0 /\ i + 1 \in 0..L
      BY <1>4, <3>1
    <3> QED
      BY <3>2 DEF L
  <2>2. it[i + 1] = IF i + 1 \in keep THEN Append(it[i], ch[i + 1]) ELSE it[i]
    BY <1>9, <2>1
  <2>3. h[i + 1] = IF i + 1 \in keep THEN Append(h[i], ch[i + 1]) ELSE h[i]
    BY <1>5, <2>1
  <2> QED
    BY <1>11, <2>1, <2>2, <2>3
<1> HIDE DEF T
<1>12. Len(ch) \in T
  <2>1. Len(ch) \in Nat
    BY <1>3
  <2>2. \A i \in 0..Len(ch) : i \in T
    BY <1>10, <1>11, <2>1, UpTo
  <2> QED
    BY <2>1, <2>2
<1>13. Feed!Thinned(keep) = d
  BY <1>1, <1>6, <1>12 DEF T
<1>14. keep \in SUBSET (1..Len(ch))
  BY <1>2, <1>3 DEF keep
<1> QED
  BY <1>13, <1>14 DEF ch, d
-----------------------------------------------------------------------------
(* Each step of the feed is a step of the channel.                         *)

\* A connection not made yet is known to nobody.
Unused ==
    \A k \in Conns : k > conns => server[k] = "none" /\ out[k] = << >> /\ wire[k] = << >>

ChannelInv == TypeOK /\ ReadsOne /\ Unused

LEMMA UnusedNext == ASSUME ChannelInv, [Next]_vars PROVE Unused'
<1>1. /\ Unused /\ FanoutTypeOK /\ ReadsOne /\ conns \in 0..MaxConns /\ MaxConns \in Nat
  BY FanoutAssumption DEF ChannelInv, TypeOK, FanoutTypeOK
<1>2. CASE ReadMessage \/ HandleStore \/ WriterCollects \/ WriterTicks \/ UNCHANGED vars
  <2>1. UNCHANGED fanoutVars
    BY <1>2 DEF ReadMessage, HandleStore, WriterCollects, WriterTicks, vars
  <2> QED
    BY <1>1, <2>1 DEF fanoutVars, Unused
<1>3. CASE HandleFanout
  <2>1. Broadcast(read)
    BY <1>3 DEF HandleFanout
  <2> QED
    BY <1>1, <2>1 DEF Broadcast, Unused
<1>4. CASE Crash
  <2>1. FanoutCrash
    BY <1>4 DEF Crash
  <2> QED
    BY <1>1, <2>1 DEF FanoutCrash, Unused
<1>5. CASE DialFanout
  <2>1. /\ conns' = conns + 1 /\ UNCHANGED <<out, wire>>
        /\ server' = [server EXCEPT ![conns + 1] = "dialed"]
    BY <1>5 DEF DialFanout
  <2>2. \A k \in Conns : k > conns + 1 => k > conns /\ k # conns + 1
    BY <1>1 DEF Conns
  <2>3. \A k \in Conns : k # conns + 1 => server'[k] = server[k]
    BY <1>1, <2>1 DEF FanoutTypeOK
  <2> QED
    BY <1>1, <2>1, <2>2, <2>3 DEF Unused
<1>6. CASE Scan \/ Hangup
  <2>1. /\ conns \in Conns /\ UNCHANGED <<conns, server, out>>
        /\ \E s : wire' = [wire EXCEPT ![conns] = s]
    BY <1>1, <1>6 DEF Scan, Hangup, ReadsOne, Conns
  <2>2. \A k \in Conns : k > conns => wire'[k] = wire[k]
    BY <1>1, <2>1 DEF FanoutTypeOK, Conns
  <2> QED
    BY <1>1, <2>1, <2>2 DEF Unused
<1>7. CASE Pump
  BY <1>1, <1>7 DEF Pump, Unused
<1>8. ASSUME NEW k \in Conns, Register(k) \/ Serve(k) PROVE Unused'
  <2>1. server[k] # "none" /\ conns' = conns
    BY <1>8 DEF Register, Serve
  <2>2. \A j \in Conns : j > conns => /\ server'[j] = server[j]
                                      /\ out'[j] = out[j] /\ wire'[j] = wire[j]
    <3>1. TAKE j \in Conns
    <3>2. HAVE j > conns
    <3>3. j # k
      BY <1>1, <2>1, <3>2 DEF Unused
    <3> QED
      BY <1>1, <1>8, <3>3 DEF Register, Serve, FanoutTypeOK
  <2> QED
    BY <1>1, <2>1, <2>2 DEF Unused
<1> QED
  BY <1>2, <1>3, <1>4, <1>5, <1>6, <1>7, <1>8 DEF Next, Reader, Fanout

\* Sequences of events.
LEMMA Joined ==
    ASSUME NEW a \in Seq(Nat), NEW b \in Seq(Nat), NEW c \in Seq(Nat)
    PROVE  a \o b \in Seq(Nat) /\ (a \o b) \o c = a \o (b \o c)
<1>1. a \o b \in Seq(Nat)
  BY ConcatProperties
<1>2. (a \o b) \o c = a \o (b \o c)
  BY ConcatAssociative
<1> QED
  BY <1>1, <1>2

LEMMA JoinedEmpty ==
    ASSUME NEW a \in Seq(Nat)
    PROVE  << >> \in Seq(Nat) /\ a \o << >> = a /\ << >> \o a = a
<1>1. a \o << >> = a /\ << >> \o a = a
  BY ConcatEmptySeq
<1> QED
  BY <1>1

LEMMA OneMore ==
    ASSUME NEW a \in Seq(Nat), NEW x \in Nat
    PROVE  <<x>> \in Seq(Nat) /\ Append(a, x) \in Seq(Nat) /\ Append(a, x) = a \o <<x>>
<1>1. Append(a, x) = a \o <<x>>
  BY AppendIsConcat
<1> QED
  BY <1>1

LEMMA FirstEvent ==
    ASSUME NEW a \in Seq(Nat), a # << >>, NEW b \in Seq(Nat)
    PROVE  /\ Head(a) \in Nat /\ Tail(a) \in Seq(Nat) /\ a = <<Head(a)>> \o Tail(a)
           /\ a \o b # << >> /\ Head(a \o b) = Head(a) /\ Tail(a \o b) = Tail(a) \o b
<1>1. Head(a) \in Nat /\ Tail(a) \in Seq(Nat)
  BY HeadTailProperties
<1>2. a = <<Head(a)>> \o Tail(a)
  <2>1. PICK h \in Nat, t \in Seq(Nat) : h = Head(a) /\ t = Tail(a)
    BY <1>1
  <2>2. /\ <<h>> \in Seq(Nat) /\ Len(<<h>>) = 1 /\ <<h>>[1] = h
        /\ Len(a) \in Nat /\ Len(a) >= 1 /\ a[1] = h /\ Len(t) = Len(a) - 1
        /\ \A i \in 1..Len(t) : t[i] = a[i + 1]
    BY <2>1, HeadTailProperties
  <2> DEFINE g == <<h>>
             s == g \o t
  <2>3. g \in Seq(Nat)
    OBVIOUS
  <2>4. /\ s \in Seq(Nat) /\ Len(s) = Len(a)
        /\ \A i \in 1..Len(a) : s[i] = IF i <= 1 THEN g[i] ELSE t[i - 1]
    <3>1. Len(g) = 1
      BY <2>2
    <3> HIDE DEF g
    <3>2. /\ s \in Seq(Nat) /\ Len(s) = Len(g) + Len(t)
          /\ \A i \in 1..(Len(g) + Len(t)) : s[i] = IF i <= Len(g) THEN g[i] ELSE t[i - Len(g)]
      BY <2>3, ConcatProperties, Zenon
    <3> HIDE DEF s
    <3>3. Len(g) + Len(t) = Len(a)
      BY <2>2, <3>1
    <3> QED
      BY <3>1, <3>2, <3>3
  <2>5. \A i \in 1..Len(a) : s[i] = a[i]
    <3>0. g[1] = h
      BY <2>2
    <3> HIDE DEF g
    <3> HIDE DEF s
    <3>1. TAKE i \in 1..Len(a)
    <3>2. CASE i = 1
      BY <2>2, <2>4, <3>0, <3>2
    <3>3. CASE i # 1
      <4>1. i - 1 \in 1..Len(t) /\ (i - 1) + 1 = i /\ ~(i <= 1)
        BY <2>2, <3>3
      <4> QED
        BY <2>2, <2>4, <4>1
    <3> QED
      BY <3>2, <3>3
  <2>6. s = a
    <3> HIDE DEF s
    <3> QED
      BY <2>4, <2>5, SeqEqual
  <2> QED
    BY <2>1, <2>6
<1>3. a \o b # << >>
  BY ConcatEqualIffEmpty
<1>4. a \o b = <<Head(a)>> \o (Tail(a) \o b)
  <2>1. PICK h \in Nat, t \in Seq(Nat) : h = Head(a) /\ t = Tail(a) /\ a = <<h>> \o t
    BY <1>1, <1>2
  <2>2. <<h>> \in Seq(Nat)
    OBVIOUS
  <2>3. (<<h>> \o t) \o b = <<h>> \o (t \o b)
    BY <2>2, ConcatAssociative
  <2> QED
    BY <2>1, <2>3
<1>5. ASSUME NEW h \in Nat, NEW t \in Seq(Nat), NEW s \in Seq(Nat), s = <<h>> \o t
      PROVE  Head(s) = h /\ Tail(s) = t
  <2>1. <<h>> \in Seq(Nat) /\ Len(<<h>>) = 1 /\ <<h>>[1] = h
    OBVIOUS
  <2>2. /\ Len(s) = Len(<<h>>) + Len(t)
        /\ \A i \in 1..(Len(<<h>>) + Len(t)) :
             s[i] = IF i <= Len(<<h>>) THEN <<h>>[i] ELSE t[i - Len(<<h>>)]
    BY <1>5, <2>1, ConcatProperties, Zenon
  <2> DEFINE g == <<h>>
  <2>3. /\ Len(g) = 1 /\ g[1] = h /\ Len(s) = Len(g) + Len(t)
        /\ \A i \in 1..(Len(g) + Len(t)) : s[i] = IF i <= Len(g) THEN g[i] ELSE t[i - Len(g)]
    BY <2>1, <2>2
  <2> HIDE DEF g
  <2>4. Len(t) \in Nat /\ Len(s) = 1 + Len(t) /\ s # << >>
    BY <2>3
  <2>5. /\ s[1] = h
        /\ \A i \in 1..Len(t) : s[i + 1] = t[i]
    <3>1. s[1] = h
      BY <2>3, <2>4
    <3>2. ASSUME NEW i \in 1..Len(t) PROVE s[i + 1] = t[i]
      <4>1. i + 1 \in 1..(Len(g) + Len(t)) /\ ~(i + 1 <= Len(g)) /\ (i + 1) - Len(g) = i
        BY <2>3, <2>4
      <4> QED
        BY <2>3, <4>1
    <3> QED
      BY <3>1, <3>2
  <2>6. Tail(s) \in Seq(Nat) /\ Len(Tail(s)) = Len(t)
        /\ \A i \in 1..Len(t) : Tail(s)[i] = s[i + 1]
    BY <2>4, HeadTailProperties
  <2>7. Tail(s) = t
    BY <2>5, <2>6, SeqEqual
  <2>8. Head(s) = s[1]
    BY <2>4
  <2> QED
    BY <2>5, <2>7, <2>8
<1>6. Tail(a) \o b \in Seq(Nat) /\ a \o b \in Seq(Nat)
  BY <1>1, ConcatProperties
<1> QED
  BY <1>1, <1>2, <1>3, <1>4, <1>5, <1>6

\* What a step leaves alone and what it may lose.
LEMMA Stutters ==
    ASSUME Channel' = Channel, read' = read, got' = got
    PROVE  UNCHANGED Feed!vars
BY DEF Channel, Pending, Feed!vars

LEMMA Loses ==
    ASSUME NEW a \in Seq(Nat), NEW b \in Seq(Nat), NEW c \in Seq(Nat),
           Channel = (a \o b) \o c, Channel' = a \o c, read' = read, got' = got
    PROVE  Feed!Lose
<1>1. PICK keep \in SUBSET (1..Len(Channel)) : Feed!Thinned(keep) = a \o c
  BY CutOut
<1>2. keep \in SUBSET (1..Len(Channel)) /\ Channel' = Feed!Thinned(keep)
  BY <1>1
<1> DEFINE T(k) == Feed!Thinned(k)
<1>3. keep \in SUBSET (1..Len(Channel)) /\ Channel' = T(keep)
  BY <1>2
<1> HIDE DEF T
<1>4. \E k \in SUBSET (1..Len(Channel)) : Channel' = T(k)
  BY <1>3
<1> QED
  BY <1>4 DEF T, Feed!Lose, Channel, Pending

\* What the client still has, and what is on the way from the server to it.
OnWire == IF up THEN wire[conns] \o out[conns] ELSE << >>

LEMMA Parts ==
    ASSUME ChannelInv
    PROVE  /\ inbox \in Seq(Nat) /\ got \in Seq(Nat) /\ read \in Nat /\ Pending \in Seq(Nat)
           /\ OnWire \in Seq(Nat)
           /\ up => conns \in Conns /\ wire[conns] \in Seq(Nat) /\ out[conns] \in Seq(Nat)
           /\ Channel = (inbox \o OnWire) \o Pending
<1>1. /\ inbox \in Seq(Nat) /\ got \in Seq(Nat) /\ read \in Nat
      /\ up => conns \in Conns /\ wire[conns] \in Seq(Nat) /\ out[conns] \in Seq(Nat)
  BY FanoutAssumption, FeedAssumption DEF ChannelInv, TypeOK, FanoutTypeOK, ReadsOne, Conns
<1>2. << >> \in Seq(Nat) /\ <<read>> \in Seq(Nat)
  BY <1>1
<1>3. OnWire \in Seq(Nat)
  BY <1>1, <1>2, Joined, JoinedEmpty, OneMore DEF OnWire
<1>4. Pending \in Seq(Nat)
  BY <1>1, <1>2 DEF Pending
<1> QED
  BY <1>1, <1>3, <1>4 DEF Channel, OnTheWay, OnWire

LEMMA ReadMessageMaps == ASSUME ChannelInv, ReadMessage PROVE Feed!Publish
<1>1. /\ handling = "none" /\ handling' = "store" /\ read' = read + 1
      /\ UNCHANGED fanoutVars
  BY DEF ReadMessage
<1>2. OnTheWay' = OnTheWay /\ got' = got
  BY <1>1 DEF fanoutVars, OnTheWay
<1>3. Pending = << >> /\ Pending' = <<read + 1>>
  BY <1>1 DEF Pending
<1>4. OnTheWay \in Seq(Nat) /\ read + 1 \in Nat
  BY Parts, Joined, JoinedEmpty, OneMore DEF OnTheWay, OnWire
<1>5. Channel = OnTheWay /\ Channel' = OnTheWay \o <<read + 1>>
  BY <1>2, <1>3, <1>4, Joined, JoinedEmpty, OneMore DEF Channel
<1>6. Channel' = Append(Channel, read + 1)
  BY <1>4, <1>5, Joined, JoinedEmpty, OneMore
<1> QED
  BY <1>1, <1>2, <1>6 DEF Feed!Publish, Channel, Pending

\* The reader's other step with the fanout server: the event is on its way, or
\* it is lost because the bot is not connected or its buffer is full.
LEMMA HandleFanoutMaps ==
    ASSUME ChannelInv, HandleFanout
    PROVE  UNCHANGED Feed!vars \/ Feed!Lose
<1>1. /\ handling = "fanout" /\ handling' = "none" /\ read' = read /\ Broadcast(read)
      /\ UNCHANGED <<conns, up, server, wire, inbox, got>>
  BY DEF HandleFanout, Broadcast
<1>2. Pending = <<read>> /\ Pending' = << >>
  BY <1>1 DEF Pending
<1>3. /\ inbox \in Seq(Nat) /\ read \in Nat /\ OnWire \in Seq(Nat)
      /\ <<read>> \in Seq(Nat) /\ << >> \in Seq(Nat)
      /\ up => conns \in Conns /\ wire[conns] \in Seq(Nat) /\ out[conns] \in Seq(Nat)
      /\ Channel = (inbox \o OnWire) \o <<read>>
  BY <1>2, Parts, Joined, JoinedEmpty, OneMore
<1>4. OnWire' = OnWire \/ OnWire' = OnWire \o <<read>>
  <2>1. CASE ~up
    BY <1>1, <2>1 DEF OnWire
  <2>2. CASE up
    <3>1. out'[conns] = out[conns] \/ out'[conns] = Append(out[conns], read)
      BY <1>1, <1>3, <2>2 DEF Broadcast
    <3>2. (wire[conns] \o out[conns]) \o <<read>> = wire[conns] \o Append(out[conns], read)
      <4>0. wire[conns] \in Seq(Nat) /\ out[conns] \in Seq(Nat) /\ <<read>> \in Seq(Nat)
        BY <1>3, <2>2
      <4>1. Append(out[conns], read) = out[conns] \o <<read>>
        BY <1>3, <2>2, OneMore
      <4>2. (wire[conns] \o out[conns]) \o <<read>> = wire[conns] \o (out[conns] \o <<read>>)
        BY <4>0, Joined, Zenon
      <4> QED
        BY <4>1, <4>2
    <3> QED
      BY <1>1, <2>2, <3>1, <3>2 DEF OnWire
  <2> QED
    BY <2>1, <2>2
<1>5. Channel' = (inbox \o OnWire') \o << >>
  BY <1>1, <1>2 DEF Channel, OnTheWay, OnWire
<1>6. CASE OnWire' = OnWire \o <<read>>
  <2>1. Channel' = Channel
    BY <1>3, <1>5, <1>6, Joined, JoinedEmpty, OneMore
  <2> QED
    BY <1>1, <2>1, Stutters
<1>7. CASE OnWire' = OnWire
  <2> DEFINE a == inbox \o OnWire
             b == <<read>>
             c == << >>
  <2>1. a \in Seq(Nat) /\ b \in Seq(Nat) /\ c \in Seq(Nat)
    BY <1>3, Joined, JoinedEmpty, OneMore
  <2>2. Channel = (a \o b) \o c /\ Channel' = a \o c
    <3>1. Channel = a \o b /\ a \o b \in Seq(Nat)
      BY <1>3, <2>1, Joined, JoinedEmpty, OneMore
    <3>2. (a \o b) \o c = a \o b
      <4> HIDE DEF a, b
      <4> QED
        BY <3>1, Joined, JoinedEmpty, OneMore
    <3> QED
      BY <1>5, <1>7, <3>1, <3>2
  <2> HIDE DEF a, b, c
  <2>3. Feed!Lose
    BY <1>1, <2>1, <2>2, Loses
  <2> QED
    BY <2>3
<1> QED
  BY <1>4, <1>6, <1>7

\* The client's steps.
LEMMA DialMaps ==
    ASSUME ChannelInv, DialFanout, UNCHANGED <<read, handling>>
    PROVE  UNCHANGED Feed!vars
<1>1. /\ ~up /\ up' /\ conns' = conns + 1 /\ UNCHANGED <<out, wire, inbox, got>>
      /\ conns \in 0..MaxConns /\ conns < MaxConns /\ MaxConns \in Nat
  BY FanoutAssumption DEF DialFanout, ChannelInv, TypeOK, FanoutTypeOK
<1>2. conns + 1 \in Conns /\ conns + 1 > conns
  BY <1>1 DEF Conns
<1>3. wire'[conns'] = << >> /\ out'[conns'] = << >>
  BY <1>1, <1>2 DEF ChannelInv, Unused
<1>4. OnWire = << >> /\ OnWire' = << >> \o << >>
  BY <1>1, <1>3 DEF OnWire
<1>5. << >> \o << >> = << >>
  BY Joined, JoinedEmpty, OneMore
<1>6. Pending' = Pending
  BY DEF Pending
<1>7. Channel' = Channel
  BY <1>1, <1>4, <1>5, <1>6 DEF Channel, OnTheWay, OnWire
<1> QED
  BY <1>1, <1>7, Stutters

LEMMA ScanMaps ==
    ASSUME ChannelInv, Scan, UNCHANGED <<read, handling>>
    PROVE  UNCHANGED Feed!vars \/ Feed!Lose
<1>1. /\ inbox \in Seq(Nat) /\ Pending \in Seq(Nat) /\ up
      /\ conns \in Conns /\ wire[conns] \in Seq(Nat) /\ out[conns] \in Seq(Nat)
      /\ OnWire = wire[conns] \o out[conns]
      /\ Channel = (inbox \o OnWire) \o Pending
      /\ wire \in [Conns -> Seq(Nat)]
  BY Parts DEF Scan, OnWire, ChannelInv, TypeOK, FanoutTypeOK
<1> DEFINE w == wire[conns]
           o == out[conns]
           h == <<Head(w)>>
           t == Tail(w)
           p == Pending
           r == (t \o o) \o p
<1>2. /\ w # << >> /\ wire' = [wire EXCEPT ![conns] = t]
      /\ UNCHANGED <<conns, up, out, got>>
      /\ inbox' = inbox \/ inbox' = Append(inbox, Head(w))
  BY DEF Scan
<1>3. /\ Head(w) \in Nat /\ h \in Seq(Nat) /\ t \in Seq(Nat) /\ w = h \o t
  BY <1>1, <1>2, FirstEvent, Joined, JoinedEmpty, OneMore
<1>4. wire'[conns] = t /\ OnWire' = t \o o /\ Pending' = p
  BY <1>1, <1>2 DEF OnWire, Pending
<1>5. Channel' = (inbox' \o (t \o o)) \o p
  BY <1>2, <1>4 DEF Channel, OnTheWay, OnWire
<1>6. inbox' = inbox \/ inbox' = inbox \o h
  BY <1>1, <1>2, <1>3, Joined, JoinedEmpty, OneMore
<1>7. Channel = (inbox \o ((h \o t) \o o)) \o p
  BY <1>1, <1>3
<1>8. inbox \in Seq(Nat) /\ o \in Seq(Nat) /\ p \in Seq(Nat)
  BY <1>1
<1> HIDE DEF w, o, h, t, p
<1>9. /\ t \o o \in Seq(Nat) /\ r \in Seq(Nat) /\ inbox \o h \in Seq(Nat)
      /\ h \o (t \o o) \in Seq(Nat)
  BY <1>3, <1>8, Joined, JoinedEmpty, OneMore
<1>10. Channel = (inbox \o h) \o r
  <2>0. /\ inbox \in Seq(Nat) /\ h \in Seq(Nat) /\ t \in Seq(Nat) /\ o \in Seq(Nat)
        /\ p \in Seq(Nat) /\ t \o o \in Seq(Nat) /\ inbox \o h \in Seq(Nat)
    BY <1>3, <1>8, <1>9
  <2>1. (h \o t) \o o = h \o (t \o o)
    <3>1. h \in Seq(Nat) /\ t \in Seq(Nat) /\ o \in Seq(Nat)
      BY <2>0
    <3> HIDE DEF r
    <3> QED
      BY <3>1, Joined, Zenon
  <2>2. inbox \o (h \o (t \o o)) = (inbox \o h) \o (t \o o)
    <3> DEFINE q == t \o o
    <3>1. inbox \in Seq(Nat) /\ h \in Seq(Nat) /\ q \in Seq(Nat)
      BY <2>0
    <3> HIDE DEF q
    <3>2. inbox \o (h \o q) = (inbox \o h) \o q
      BY <3>1, ConcatAssociative
    <3> QED
      BY <3>2 DEF q
  <2>3. ((inbox \o h) \o (t \o o)) \o p = (inbox \o h) \o r
    <3> DEFINE a == inbox \o h
               b == t \o o
    <3>1. a \in Seq(Nat) /\ b \in Seq(Nat) /\ p \in Seq(Nat)
      BY <2>0
    <3>2. r = b \o p
      OBVIOUS
    <3> HIDE DEF a, b, r
    <3>3. (a \o b) \o p = a \o r
      BY <3>1, <3>2, ConcatAssociative
    <3> QED
      BY <3>3 DEF a, b
  <2> QED
    BY <1>7, <2>1, <2>2, <2>3
<1>11. Channel' = inbox' \o r
  <2>1. inbox' \in Seq(Nat)
    BY <1>6, <1>8, <1>9
  <2> QED
    BY <1>5, <1>8, <1>9, <2>1, Joined, JoinedEmpty, OneMore
<1>12. CASE inbox' = inbox \o h
  BY <1>2, <1>10, <1>11, <1>12, Stutters
<1>13. CASE inbox' = inbox
  <2> HIDE DEF r
  <2>1. Feed!Lose
    BY <1>2, <1>3, <1>8, <1>9, <1>10, <1>11, <1>13, Loses
  <2> QED
    BY <2>1
<1> QED
  BY <1>6, <1>12, <1>13

LEMMA HangupMaps ==
    ASSUME ChannelInv, Hangup, UNCHANGED <<read, handling>>
    PROVE  Feed!Lose
<1>1. /\ inbox \in Seq(Nat) /\ Pending \in Seq(Nat) /\ OnWire \in Seq(Nat)
      /\ Channel = (inbox \o OnWire) \o Pending
  BY Parts
<1>2. inbox' = inbox /\ got' = got /\ OnWire' = << >> /\ Pending' = Pending
  BY DEF Hangup, OnWire, Pending
<1>3. Channel' = (inbox \o << >>) \o Pending
  BY <1>2 DEF Channel, OnTheWay, OnWire
<1>4. Channel' = inbox \o Pending
  BY <1>1, <1>3, Joined, JoinedEmpty, OneMore
<1> QED
  BY <1>1, <1>2, <1>4, Loses

LEMMA PumpMaps ==
    ASSUME ChannelInv, Pump, UNCHANGED <<read, handling>>
    PROVE  Feed!Deliver
<1>1. /\ inbox \in Seq(Nat) /\ Pending \in Seq(Nat) /\ OnWire \in Seq(Nat)
      /\ Channel = (inbox \o OnWire) \o Pending
  BY Parts
<1>2. /\ inbox # << >> /\ inbox' = Tail(inbox) /\ got' = Append(got, Head(inbox))
      /\ OnWire' = OnWire /\ Pending' = Pending
  BY DEF Pump, OnWire, Pending
<1>3. Tail(inbox) \in Seq(Nat)
  BY <1>1, <1>2, FirstEvent
<1>4. Channel = inbox \o (OnWire \o Pending) /\ OnWire \o Pending \in Seq(Nat)
  BY <1>1, Joined, JoinedEmpty, OneMore
<1>5. Channel' = (Tail(inbox) \o OnWire) \o Pending
  BY <1>2 DEF Channel, OnTheWay, OnWire
<1>6. Channel' = Tail(inbox) \o (OnWire \o Pending)
  BY <1>1, <1>3, <1>5, Joined, JoinedEmpty, OneMore
<1>7. Channel # << >> /\ Channel' = Tail(Channel) /\ Head(Channel) = Head(inbox)
  <2> DEFINE r == OnWire \o Pending
  <2>1. r \in Seq(Nat) /\ Channel = inbox \o r /\ Channel' = Tail(inbox) \o r
    BY <1>4, <1>6
  <2> HIDE DEF r
  <2>2. inbox \o r # << >> /\ Head(inbox \o r) = Head(inbox) /\ Tail(inbox \o r) = Tail(inbox) \o r
    BY <1>1, <1>2, <2>1, FirstEvent
  <2> QED
    BY <2>1, <2>2
<1>8. got' = Append(got, Head(Channel))
  BY <1>2, <1>7
<1> QED
  BY <1>7, <1>8 DEF Feed!Deliver, Channel, Pending

\* The server's steps for a connection.
LEMMA ServeMaps ==
    ASSUME ChannelInv, NEW k \in Conns, Register(k) \/ Serve(k), UNCHANGED <<read, handling>>
    PROVE  UNCHANGED Feed!vars
<1>1. UNCHANGED <<conns, up, inbox, got>>
  BY DEF Register, Serve
<1>2. OnWire' = OnWire
  <2>1. CASE ~up
    BY <1>1, <2>1 DEF OnWire
  <2>2. CASE up /\ k # conns
    <3>1. out'[conns] = out[conns] /\ wire'[conns] = wire[conns]
      BY <2>2, Parts DEF Register, Serve, ChannelInv, TypeOK, FanoutTypeOK
    <3> QED
      BY <1>1, <3>1 DEF OnWire
  <2>3. CASE up /\ k = conns /\ Register(k)
    BY <1>1, <2>3 DEF OnWire, Register
  <2>4. CASE up /\ k = conns /\ Serve(k)
    <3>1. /\ wire[k] \in Seq(Nat) /\ out[k] \in Seq(Nat) /\ out[k] # << >>
          /\ out' = [out EXCEPT ![k] = Tail(out[k])]
          /\ wire' = [wire EXCEPT ![k] = Append(wire[k], Head(out[k]))]
          /\ out \in [Conns -> Seq(Nat)] /\ wire \in [Conns -> Seq(Nat)]
      BY <2>4, Parts DEF Serve, ChannelInv, TypeOK, FanoutTypeOK
    <3>2. out'[k] = Tail(out[k]) /\ wire'[k] = Append(wire[k], Head(out[k]))
      BY <3>1
    <3> DEFINE w == wire[k]
               o == out[k]
               h == <<Head(o)>>
               t == Tail(o)
    <3>3. Head(o) \in Nat /\ h \in Seq(Nat) /\ t \in Seq(Nat) /\ o = h \o t
      BY <3>1, FirstEvent, Joined, JoinedEmpty, OneMore
    <3>4. w \in Seq(Nat) /\ Append(w, Head(o)) = w \o h
      BY <3>1, <3>3, Joined, JoinedEmpty, OneMore
    <3>5. (w \o h) \o t = w \o (h \o t)
      <4> HIDE DEF w, h, t
      <4> QED
        BY <3>3, <3>4, Joined, JoinedEmpty, OneMore
    <3>6. wire'[k] \o out'[k] = wire[k] \o out[k]
      BY <3>2, <3>3, <3>4, <3>5
    <3> QED
      BY <1>1, <2>4, <3>6 DEF OnWire
  <2> QED
    BY <2>1, <2>2, <2>3, <2>4
<1>3. Pending' = Pending
  BY DEF Pending
<1>4. Channel' = Channel
  BY <1>1, <1>2, <1>3 DEF Channel, OnTheWay, OnWire
<1> QED
  BY <1>1, <1>4, Stutters

LEMMA CrashMaps == ASSUME ChannelInv, Crash PROVE Feed!Lose
<1>1. /\ inbox \in Seq(Nat) /\ Pending \in Seq(Nat) /\ OnWire \in Seq(Nat) /\ << >> \in Seq(Nat)
      /\ Channel = (inbox \o OnWire) \o Pending
      /\ up => conns \in Conns /\ wire[conns] \in Seq(Nat) /\ out[conns] \in Seq(Nat)
  BY Parts, Joined, JoinedEmpty, OneMore
<1>2. /\ UNCHANGED <<conns, up, wire, inbox, got, read>> /\ handling' = "none"
      /\ out' = [k \in Conns |-> << >>]
  BY DEF Crash, FanoutCrash
<1>3. Pending' = << >>
  BY <1>2 DEF Pending
<1> DEFINE w == IF up THEN wire[conns] ELSE << >>
           o == IF up THEN out[conns] ELSE << >>
           a == inbox \o w
           b == o \o Pending
           c == << >>
<1>4. w \in Seq(Nat) /\ o \in Seq(Nat) /\ c \in Seq(Nat)
  BY <1>1
<1>5. OnWire = w \o o
  BY <1>1, <1>4, Joined, JoinedEmpty, OneMore DEF OnWire
<1>6. OnWire' = w
  <2>1. CASE up
    <3>1. OnWire' = wire[conns] \o << >>
      BY <1>1, <1>2, <2>1 DEF OnWire
    <3> QED
      BY <1>1, <2>1, <3>1, Joined, JoinedEmpty, OneMore
  <2>2. CASE ~up
    BY <1>2, <2>2 DEF OnWire
  <2> QED
    BY <2>1, <2>2
<1>7. Channel' = (inbox \o w) \o c
  BY <1>2, <1>3, <1>6 DEF Channel, OnTheWay, OnWire
<1> HIDE DEF w, o
<1>8. a \in Seq(Nat) /\ b \in Seq(Nat)
  BY <1>1, <1>4, Joined, JoinedEmpty, OneMore
<1>9. Channel = a \o b
  <2>0. inbox \in Seq(Nat) /\ w \in Seq(Nat) /\ o \in Seq(Nat) /\ Pending \in Seq(Nat)
        /\ inbox \o w \in Seq(Nat)
    BY <1>1, <1>4, <1>8
  <2>1. inbox \o (w \o o) = (inbox \o w) \o o
    <3>1. inbox \in Seq(Nat) /\ w \in Seq(Nat) /\ o \in Seq(Nat)
      BY <2>0
    <3> QED
      BY <3>1, ConcatAssociative
  <2>2. ((inbox \o w) \o o) \o Pending = (inbox \o w) \o (o \o Pending)
    BY <2>0, Joined, Zenon
  <2> QED
    BY <1>1, <1>5, <2>1, <2>2
<1> HIDE DEF a, b
<1>10. a \o b \in Seq(Nat)
  BY <1>8, Joined, JoinedEmpty, OneMore
<1>11. Channel = (a \o b) \o c /\ Channel' = a \o c
  BY <1>7, <1>9, <1>10, Joined, JoinedEmpty, OneMore DEF a
<1> QED
  BY <1>2, <1>4, <1>8, <1>11, Loses

\* The store and its writer do not touch the channel.
LEMMA StoreMaps ==
    ASSUME HandleStore \/ WriterCollects \/ WriterTicks
    PROVE  UNCHANGED Feed!vars
<1>1. /\ UNCHANGED fanoutVars /\ read' = read
      /\ handling' = handling \/ (handling = "store" /\ handling' = "fanout")
  BY DEF HandleStore, WriterCollects, WriterTicks
<1>2. Pending' = Pending /\ OnTheWay' = OnTheWay /\ got' = got
  BY <1>1 DEF Pending, OnTheWay, fanoutVars
<1>3. Channel' = Channel
  BY <1>2 DEF Channel
<1> QED
  BY <1>1, <1>2, <1>3, Stutters

LEMMA StepMaps == ChannelInv /\ [Next]_vars => [Feed!Next]_(Feed!vars)
<1> SUFFICES ASSUME ChannelInv, [Next]_vars
             PROVE  Feed!Next \/ UNCHANGED Feed!vars
  OBVIOUS
<1>1. CASE ReadMessage
  BY <1>1, ReadMessageMaps DEF Feed!Next
<1>2. CASE HandleStore \/ WriterCollects \/ WriterTicks
  BY <1>2, StoreMaps
<1>3. CASE HandleFanout
  BY <1>3, HandleFanoutMaps DEF Feed!Next
<1>4. CASE Fanout /\ UNCHANGED <<read, handling>>
  BY <1>4, DialMaps, ScanMaps, HangupMaps, PumpMaps, ServeMaps DEF Fanout, Feed!Next
<1>5. CASE Crash
  BY <1>5, CrashMaps DEF Feed!Next
<1>6. CASE UNCHANGED vars
  <2>1. UNCHANGED fanoutVars /\ read' = read /\ handling' = handling
    BY <1>6 DEF vars
  <2>2. Channel' = Channel /\ got' = got
    BY <2>1 DEF Channel, Pending, OnTheWay, fanoutVars
  <2> QED
    BY <2>1, <2>2, Stutters
<1> QED
  BY <1>1, <1>2, <1>3, <1>4, <1>5, <1>6 DEF Next, Reader

\* The feed implements the channel: whatever the capacities of the buffers,
\* however often the bot reconnects and the ingester restarts, the bot receives
\* events in the order in which they were read and none of them twice.
THEOREM FeedImplementsChannel == Spec => ImplementsChannel
<1>1. Init => ChannelInv
  <2>1. Init => ReadsOne /\ Unused
    BY DEF Init, FanoutInit, ReadsOne, Unused
  <2> QED
    BY <2>1, TypeInit DEF ChannelInv
<1>2. ChannelInv /\ [Next]_vars => ChannelInv'
  BY TypeNext, UnusedNext DEF ChannelInv
<1>3. Init => Feed!Init
  <2> SUFFICES ASSUME Init PROVE Feed!Init
    OBVIOUS
  <2>1. read = 0 /\ inbox = << >> /\ ~up /\ handling = "none" /\ got = << >>
    BY DEF Init, FanoutInit
  <2>2. << >> \o << >> = << >>
    BY Joined, JoinedEmpty, OneMore
  <2> QED
    BY <2>1, <2>2 DEF Feed!Init, OnTheWay
<1> QED
  BY <1>1, <1>2, <1>3, StepMaps, PTL DEF Spec, ImplementsChannel, Feed!Spec
=============================================================================
