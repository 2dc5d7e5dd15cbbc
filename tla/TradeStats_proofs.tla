--------------------------- MODULE TradeStats_proofs ---------------------------
(***************************************************************************)
(* Theorems about TradeTable and what TradeStats shows of it.  TLC checks  *)
(* them for a day ahead, a day swept and a day retained; they hold for any *)
(* windows.  Days are a division by a constant, so a few lemmas about Day  *)
(* come first; the rest uses no other fact about it.  The table is first,  *)
(* then what a sweep changes of the pages, the profit of a wallet, and the *)
(* pages against each other.                                               *)
(***************************************************************************)
EXTENDS TradeStats, InductionLemmas

\* Day is the quotient.

LEMMA DayType ==
    ASSUME NEW t \in Int
    PROVE  /\ Day(t) \in Int
           /\ TicksPerDay * Day(t) <= t
           /\ t < TicksPerDay * (Day(t) + 1)
BY TableAssumption DEF Day

\* Multiples of a day grow by at least a day.
LEMMA ProductMonotone ==
    ASSUME NEW a \in Int, NEW b \in Int, a < b
    PROVE  TicksPerDay * (a + 1) <= TicksPerDay * b
<1>1. b - a - 1 \in Nat
  OBVIOUS
<1>2. TicksPerDay * (b - a - 1) >= 0
  BY <1>1, TableAssumption
<1> QED
  BY <1>2, TableAssumption

\* A time within the day a has a for its day.
LEMMA DayUnique ==
    ASSUME NEW t \in Int, NEW a \in Int,
           TicksPerDay * a <= t, t < TicksPerDay * (a + 1)
    PROVE  Day(t) = a
<1> DEFINE p == TicksPerDay * Day(t)
           q == TicksPerDay * (Day(t) + 1)
           r == TicksPerDay * a
           s == TicksPerDay * (a + 1)
<1>1. p \in Int /\ q \in Int /\ r \in Int /\ s \in Int
  BY DayType, TableAssumption
<1>2. p <= t /\ t < q /\ r <= t /\ t < s /\ Day(t) \in Int
  BY DayType
<1>3. Day(t) < a => q <= r
  BY <1>2, ProductMonotone
<1>4. a < Day(t) => s <= p
  BY <1>2, ProductMonotone
<1> HIDE DEF p, q, r, s
<1> QED
  BY <1>1, <1>2, <1>3, <1>4

\* Later times have later days.
LEMMA DayMonotone ==
    ASSUME NEW t \in Int, NEW u \in Int, t <= u
    PROVE  Day(t) <= Day(u)
<1> DEFINE p == TicksPerDay * Day(t)
           q == TicksPerDay * (Day(u) + 1)
<1>1. p \in Int /\ q \in Int
  BY DayType, TableAssumption
<1>2. p <= t /\ u < q /\ Day(t) \in Int /\ Day(u) \in Int
  BY DayType
<1>3. Day(u) < Day(t) => q <= p
  BY <1>2, ProductMonotone
<1> HIDE DEF p, q
<1> QED
  BY <1>1, <1>2, <1>3

\* k days earlier the day is lower by k.
LEMMA DayShift ==
    ASSUME NEW t \in Int, NEW k \in Int
    PROVE  Day(t - k * TicksPerDay) = Day(t) - k
<1>1. Day(t) \in Int /\ TicksPerDay * Day(t) <= t /\ t < TicksPerDay * (Day(t) + 1)
  BY DayType
<1>2. /\ TicksPerDay * (Day(t) - k) = TicksPerDay * Day(t) - k * TicksPerDay
      /\ TicksPerDay * ((Day(t) - k) + 1) = TicksPerDay * (Day(t) + 1) - k * TicksPerDay
  BY <1>1, TableAssumption
<1>3. k * TicksPerDay \in Int /\ TicksPerDay * Day(t) \in Int
      /\ TicksPerDay * (Day(t) + 1) \in Int /\ Day(t) - k \in Int
  BY <1>1, TableAssumption
<1>4. /\ TicksPerDay * (Day(t) - k) <= t - k * TicksPerDay
      /\ t - k * TicksPerDay < TicksPerDay * ((Day(t) - k) + 1)
  BY <1>1, <1>2, <1>3
<1> QED
  BY <1>3, <1>4, DayUnique

\* A tick goes on by a day at most.
LEMMA DayStep ==
    ASSUME NEW t \in Int
    PROVE  Day(t) <= Day(t + 1) /\ Day(t + 1) <= Day(t) + 1
<1>1. Day(t - (-1) * TicksPerDay) = Day(t) - (-1)
  BY DayShift
<1>2. t + 1 <= t - (-1) * TicksPerDay /\ t - (-1) * TicksPerDay \in Int
  BY TableAssumption
<1>3. Day(t + 1) <= Day(t - (-1) * TicksPerDay)
  BY <1>2, DayMonotone
<1> QED
  BY <1>1, <1>3, DayMonotone, DayType

\* The cutoff is a day before today at least.
LEMMA CutoffType == ASSUME now \in Int
                    PROVE  /\ Day(now) \in Int
                           /\ CutoffDay = Day(now) - RetainDays
                           /\ CutoffDay \in Int
                           /\ RetainDays >= 1
  BY DayShift, DayType, TableAssumption DEF CutoffDay

\* EnsurePartitions adds days.
LEMMA EnsuredType ==
    ASSUME now \in Int, parts \subseteq Int, NEW last
    PROVE  Ensured(last) \subseteq Int
<1>1. Day(now) - 1 \in Int /\ Day(now) + AheadDays \in Int
  BY CutoffType, TableAssumption
<1>2. EnsureDays \subseteq Int
  BY <1>1 DEF EnsureDays
<1> QED
  BY <1>2 DEF Ensured

\* The trades of a history are ordered by time.
LEMMA TradeFields ==
    ASSUME trades \in Histories
    PROVE  /\ Len(trades) \in Nat
           /\ \A n \in 1..Len(trades) : trades[n].at \in Nat /\ DayOf(n) \in Int
           /\ \A i, j \in 1..Len(trades) : i < j => trades[i].at <= trades[j].at
<1>1. trades \in Seq(Row)
  BY HistoryAssumption
<1>2. DOMAIN trades = 1..Len(trades) /\ Len(trades) \in Nat
  BY <1>1
<1>3. ASSUME NEW n \in 1..Len(trades)
      PROVE  trades[n].at \in Nat /\ DayOf(n) \in Int
  <2>1. trades[n] \in Row
    BY <1>1, <1>2
  <2>2. trades[n].at \in Nat
    BY <2>1 DEF Row
  <2> DEFINE t == trades[n].at
  <2>3. Day(t) \in Int
    <3> t \in Int
      BY <2>2
    <3> HIDE DEF t
    <3> QED
      BY DayType
  <2> QED
    BY <2>2, <2>3 DEF DayOf
<1> QED
  BY <1>2, <1>3, HistoryAssumption

-----------------------------------------------------------------------------
(* The invariant.                                                          *)

\* A daemon beyond the first migration left the table schema_version with a row.
VersionInv ==
    \A d \in Daemons :
       /\ daemon[d].pc = "v1" /\ daemon[d].current > 0 => version > 0
       /\ daemon[d].pc \in {"v2", "partitions", "up"} => version > 0

\* Rows wait for less than two ticks.
BatchInv == \A n \in batch : now - 1 <= trades[n].at /\ trades[n].at <= now

\* What the last complete EnsurePartitions made is there, down to yesterday.
AheadInv ==
    /\ ensured <= Day(now)
    /\ Day(now) - ensured <= AheadDays =>
          ((Day(now) - 1)..(ensured + AheadDays)) \subseteq parts

\* Nothing is older than the last complete sweep, which was in the past.
SweptInv ==
    /\ swept <= Day(now) - RetainDays
    /\ ~lapsed => \A day \in parts : day >= swept

Inv == TypeOK /\ VersionInv /\ BatchInv /\ AheadInv /\ SweptInv

\* The invariant gives the property.
LEMMA InvImpliesFollows == Inv => PartitionsFollowTime
<1> SUFFICES ASSUME Inv PROVE PartitionsFollowTime
  OBVIOUS
<1> USE DEF Inv
<1>1. now \in Int /\ ensured \in Int /\ AheadDays \in Nat /\ Day(now) \in Int
  BY CutoffType, TableAssumption DEF TypeOK
<1>2. ASSUME Day(now) - ensured <= AheadDays
      PROVE  {Day(now)} \cup {DayOf(n) : n \in batch} \subseteq parts
  <2>1. \A day \in Int : Day(now) - 1 <= day /\ day <= Day(now) => day \in parts
    BY <1>1, <1>2 DEF AheadInv
  <2>2. ASSUME NEW n \in batch PROVE DayOf(n) \in parts
    <3>1. trades[n].at \in Int
      BY TradeFields DEF TypeOK
    <3>2. now - 1 <= trades[n].at /\ trades[n].at <= now
      BY DEF BatchInv
    <3>3. /\ Day(now - 1) <= Day(trades[n].at)
          /\ Day(trades[n].at) <= Day(now)
          /\ Day((now - 1) + 1) <= Day(now - 1) + 1
      BY <1>1, <3>1, <3>2, DayMonotone, DayStep
    <3>4. (now - 1) + 1 = now
      BY <1>1
    <3>5. Day(trades[n].at) \in Int /\ Day(now - 1) \in Int
      BY <1>1, <3>1, DayType
    <3> QED
      BY <1>1, <2>1, <3>3, <3>4, <3>5 DEF DayOf
  <2> QED
    BY <1>1, <2>1, <2>2
<1>3. ~lapsed => \A day \in parts : day >= swept
  BY DEF SweptInv
<1> QED
  BY <1>2, <1>3 DEF PartitionsFollowTime

\* It holds at the start.
LEMMA InitInv == Init => Inv
<1> SUFFICES ASSUME Init PROVE Inv
  OBVIOUS
<1> USE DEF Init
<1>1. Day(TicksPerDay) = 1
  BY DayUnique, TableAssumption
<1>2. TypeOK
  <2>1. /\ now \in Nat /\ made \in 0..Len(trades) /\ -AheadDays \in Int
        /\ 1 - RetainDays \in Int /\ faults \in 0..MaxFaults
    BY TradeFields, TableAssumption
  <2>2. daemon \in [Daemons -> [pc : {"down", "lock", "v1", "v2", "partitions", "up"},
                                current : 0..2]]
    BY DEF Down
  <2>3. \A d \in Daemons : daemon[d].pc \in {"v1", "v2", "partitions"} <=> lock = d
    BY TableAssumption DEF Down
  <2>4. ensured \in Int /\ swept \in Int
    BY <2>1
  <2>5. /\ batch \subseteq 1..made /\ rows \subseteq 1..made /\ batch \cap rows = {}
        /\ parts \subseteq Int /\ (\A n \in rows : DayOf(n) \in parts)
        /\ trades \in Histories /\ (version = 0 => parts = {})
    OBVIOUS
  <2>6. lapsed \in BOOLEAN
    OBVIOUS
  <2>7. lock \in Daemons \cup {NoDaemon} /\ version \in 0..2
    OBVIOUS
  <2> HIDE DEF Init
  <2> QED
    BY <2>1, <2>2, <2>3, <2>4, <2>5, <2>6, <2>7 DEF TypeOK
<1>3. VersionInv
  BY DEF VersionInv, Down
<1>4. BatchInv
  BY DEF BatchInv
<1>5. AheadInv
  BY <1>1, TableAssumption DEF AheadInv
<1>6. SweptInv
  BY <1>1, TableAssumption DEF SweptInv
<1> QED
  BY <1>2, <1>3, <1>4, <1>5, <1>6 DEF Inv

-----------------------------------------------------------------------------
(* One lemma for each group of steps.                                      *)

\* A trade, and the COPY of a batch.
LEMMA TableStep ==
    ASSUME Inv, Trade \/ Copy
    PROVE  Inv'
<1> USE DEF Inv, table, schema, history
<1>1. Len(trades) \in Nat /\ made \in 0..Len(trades) /\ now \in Nat
  BY TradeFields DEF TypeOK
<1>2. UNCHANGED <<now, trades, version, lock, parts, daemon, ensured, swept, lapsed>>
  BY DEF Trade, Copy
<1>3. VersionInv' /\ AheadInv' /\ SweptInv'
  BY <1>2 DEF VersionInv, AheadInv, SweptInv, Day
<1>4. CASE Trade
  <2>1. made' = made + 1 /\ made + 1 \in 0..Len(trades) /\ trades[made + 1].at = now
        /\ batch' \subseteq batch \cup {made + 1} /\ rows' = rows /\ faults' = faults
    BY <1>1, <1>4 DEF Trade
  <2>2. batch \subseteq 1..made /\ rows \subseteq 1..made /\ batch \cap rows = {}
    BY DEF TypeOK
  <2>3. /\ batch' \subseteq 1..made' /\ rows' \subseteq 1..made' /\ batch' \cap rows' = {}
    BY <1>1, <2>1, <2>2
  <2>4. TypeOK'
    BY <1>2, <2>1, <2>3 DEF TypeOK, DayOf, Day
  <2>5. BatchInv'
    BY <1>1, <1>2, <2>1 DEF BatchInv
  <2> QED
    BY <1>3, <2>4, <2>5
<1>5. CASE Copy
  <2>1. batch' = {} /\ made' = made /\ faults' \in 0..MaxFaults
        /\ \/ rows' = rows
           \/ rows' = rows \cup batch /\ (\A n \in batch : DayOf(n) \in parts)
    BY <1>5, TableAssumption DEF Copy, Fault, TypeOK
  <2>2. rows' \subseteq 1..made' /\ (\A n \in rows' : DayOf(n) \in parts)
    BY <2>1 DEF TypeOK
  <2>3. TypeOK'
    BY <1>2, <2>1, <2>2 DEF TypeOK, DayOf, Day
  <2>4. BatchInv'
    BY <2>1 DEF BatchInv
  <2> QED
    BY <1>3, <2>3, <2>4
<1> QED
  BY <1>4, <1>5

\* Time passes.
LEMMA TickStep ==
    ASSUME Inv, Tick
    PROVE  Inv'
<1> USE DEF Inv, table, schema, history
<1>1. /\ now \in Nat /\ now' = now + 1 /\ Day(now) \in Int /\ Day(now') \in Int
      /\ Day(now) <= Day(now')
  BY DayStep, DayType DEF Tick, TypeOK
<1>2. UNCHANGED <<trades, made, batch, rows, version, lock, parts, daemon,
                  ensured, swept, lapsed, faults>>
  BY DEF Tick
<1>3. TypeOK'
  BY <1>1, <1>2 DEF TypeOK, DayOf, Day
<1>4. VersionInv'
  BY <1>2 DEF VersionInv
<1>5. BatchInv'
  BY <1>1, <1>2 DEF BatchInv, Tick
<1>6. AheadInv'
  <2>1. ensured \in Int /\ AheadDays \in Nat
    BY TableAssumption DEF TypeOK
  <2>2. ensured' <= Day(now')
    BY <1>1, <1>2, <2>1 DEF AheadInv
  <2>3. ASSUME Day(now') - ensured <= AheadDays
        PROVE  ((Day(now') - 1)..(ensured + AheadDays)) \subseteq parts
    <3>1. ((Day(now) - 1)..(ensured + AheadDays)) \subseteq parts
      BY <1>1, <2>1, <2>3 DEF AheadInv
    <3> QED
      BY <1>1, <2>1, <3>1
  <2> QED
    BY <1>2, <2>2, <2>3 DEF AheadInv, Day
<1>7. SweptInv'
  <2>1. swept \in Int /\ RetainDays \in Int
    BY TableAssumption DEF TypeOK
  <2> QED
    BY <1>1, <1>2, <2>1 DEF SweptInv, Day
<1> QED
  BY <1>3, <1>4, <1>5, <1>6, <1>7

\* What EnsurePartitions adds, completely or not.
LEMMA EnsuredDays ==
    ASSUME now \in Int, parts \subseteq Int, NEW last
    PROVE  /\ parts \subseteq Ensured(last)
           /\ \A day \in Ensured(last) \ parts : day >= Day(now) - 1
           /\ ((Day(now) - 1)..(Day(now) + AheadDays)) \subseteq Ensured(Day(now) + AheadDays)
<1>1. Day(now) \in Int /\ AheadDays \in Nat
  BY CutoffType, TableAssumption
<1> QED
  BY <1>1 DEF Ensured, EnsureDays

\* More partitions of recent days leave the invariant as it is.
LEMMA MorePartitions ==
    ASSUME Inv, NEW last, parts' \in {parts, Ensured(last)},
           UNCHANGED <<now, ensured, swept, lapsed>>
    PROVE  /\ parts \subseteq parts' /\ parts' \subseteq Int
           /\ AheadInv' /\ SweptInv'
<1> USE DEF Inv
<1>1. now \in Int /\ parts \subseteq Int /\ swept \in Int
  BY DEF TypeOK
<1>2. Day(now) \in Int /\ RetainDays >= 1 /\ RetainDays \in Nat
  BY <1>1, CutoffType, TableAssumption
<1>3. /\ parts \subseteq parts' /\ parts' \subseteq Int
      /\ \A day \in parts' \ parts : day >= Day(now) - 1
  BY <1>1, EnsuredDays, EnsuredType
<1>4. Day(now)' = Day(now)
  BY DEF Day
<1>5. AheadInv'
  BY <1>3, <1>4 DEF AheadInv
<1>6. ASSUME ~lapsed, NEW day \in parts' PROVE day >= swept
  <2>1. CASE day \in parts
    BY <1>6, <2>1 DEF SweptInv
  <2>2. CASE day \notin parts
    BY <1>1, <1>2, <1>3, <2>2 DEF SweptInv
  <2> QED
    BY <2>1, <2>2
<1>7. SweptInv'
  BY <1>4, <1>6 DEF SweptInv
<1> QED
  BY <1>3, <1>5, <1>7

\* EnsurePartitions and DropOldPartitions, each up to some day.
LEMMA PrunerStep ==
    ASSUME Inv, PrunerTick
    PROVE  Inv'
<1> USE DEF Inv, table, schema, history
<1> PICK last \in EnsureReaches, dropped \in SweepReaches :
      LET gone == {d \in SweptDays : d <= dropped}
          ahead == last = Day(now) + AheadDays
          full == gone = SweptDays
      IN  /\ parts' = Ensured(last) \ gone
          /\ rows' = {n \in rows : DayOf(n) \notin gone}
          /\ ensured' = IF ahead THEN Day(now) ELSE ensured
          /\ swept' = IF full THEN CutoffDay ELSE swept
          /\ lapsed' = (lapsed \/ (full /\ CutoffDay - SweepDays > swept))
          /\ IF ahead /\ full THEN UNCHANGED faults ELSE Fault
  BY DEF PrunerTick
<1> DEFINE gone == {d \in SweptDays : d <= dropped}
           ahead == last = Day(now) + AheadDays
           full == gone = SweptDays
<1>1. /\ now \in Int /\ parts \subseteq Int /\ swept \in Int /\ ensured \in Int
      /\ lapsed \in BOOLEAN
  BY DEF TypeOK
<1>2. /\ Day(now) \in Int /\ RetainDays >= 1 /\ RetainDays \in Nat
      /\ CutoffDay = Day(now) - RetainDays /\ SweepDays \in Nat /\ AheadDays \in Nat
      /\ CutoffDay \in Int
  BY <1>1, CutoffType, TableAssumption
<1>3. UNCHANGED <<now, trades, made, batch, version, lock, daemon>>
      /\ daemon[Ingest].pc = "up"
  BY DEF PrunerTick
<1>4. Day(now)' = Day(now)
  BY <1>3 DEF Day
<1>5. \A day \in gone : day \in Int /\ day < Day(now) - 1
  BY <1>2 DEF SweptDays
<1>6. /\ parts \subseteq Ensured(last) /\ Ensured(last) \subseteq Int
      /\ \A day \in Ensured(last) \ parts : day >= Day(now) - 1
      /\ ahead => ((Day(now) - 1)..(Day(now) + AheadDays)) \subseteq Ensured(last)
  BY <1>1, EnsuredDays, EnsuredType
<1>7. parts' = Ensured(last) \ gone /\ rows' = {n \in rows : DayOf(n) \notin gone}
      /\ ensured' = (IF ahead THEN Day(now) ELSE ensured)
      /\ swept' = (IF full THEN CutoffDay ELSE swept)
      /\ lapsed' = (lapsed \/ (full /\ CutoffDay - SweepDays > swept))
      /\ (faults' = faults \/ Fault)
  OBVIOUS
<1>8. TypeOK'
  <2>1. version # 0
    BY <1>3, TableAssumption DEF VersionInv, TypeOK
  <2>2. /\ parts' \subseteq Int /\ ensured' \in Int /\ swept' \in Int
    BY <1>1, <1>2, <1>6, <1>7
  <2>3. rows' \subseteq 1..made /\ batch \cap rows' = {} /\ \A n \in rows' : DayOf(n) \in parts'
    BY <1>6, <1>7 DEF TypeOK
  <2>4. lapsed' \in BOOLEAN
    BY <1>7
  <2>5. faults' \in 0..MaxFaults
    BY <1>7, TableAssumption DEF Fault, TypeOK
  <2>6. \A n : DayOf(n)' = DayOf(n)
    BY <1>3 DEF DayOf, Day
  <2> HIDE DEF gone, ahead, full
  <2> QED
    BY <1>3, <2>1, <2>2, <2>3, <2>4, <2>5, <2>6 DEF TypeOK
<1>9. VersionInv' /\ BatchInv'
  BY <1>3 DEF VersionInv, BatchInv
<1>10. AheadInv'
  <2>1. CASE ahead
    BY <1>2, <1>4, <1>5, <1>6, <1>7, <2>1 DEF AheadInv
  <2>2. CASE ~ahead
    BY <1>1, <1>2, <1>4, <1>5, <1>6, <1>7, <2>2 DEF AheadInv
  <2> QED
    BY <2>1, <2>2
<1>11. SweptInv'
  <2>1. swept' <= Day(now) - RetainDays
    BY <1>2, <1>7 DEF SweptInv
  <2>2. ASSUME ~lapsed', NEW day \in parts' PROVE day >= swept'
    <3>1. ~lapsed /\ (full => CutoffDay - SweepDays <= swept)
      <4> DEFINE above == CutoffDay - SweepDays > swept
      <4>1. ~lapsed /\ ~(full /\ above)
        BY <1>7, <2>2, Zenon
      <4>2. ~above => CutoffDay - SweepDays <= swept
        BY <1>1, <1>2
      <4> QED
        BY <4>1, <4>2, Zenon
    <3>2. day \in Ensured(last) /\ day \notin gone /\ day \in Int
      BY <1>6, <1>7, <2>2
    <3>3. day >= swept
      BY <1>1, <1>2, <1>6, <3>1, <3>2 DEF SweptInv
    <3>4. CASE full
      <4>1. day \notin SweptDays /\ day >= CutoffDay - SweepDays
        BY <1>1, <1>2, <3>1, <3>2, <3>3, <3>4
      <4>2. day >= CutoffDay
        BY <1>2, <3>2, <4>1 DEF SweptDays
      <4> QED
        BY <1>7, <3>4, <4>2
    <3> QED
      BY <1>7, <3>3, <3>4
  <2> QED
    BY <1>4, <2>1, <2>2 DEF SweptInv
<1> QED
  BY <1>8, <1>9, <1>10, <1>11

\* A step of a starting daemon.
LEMMA StartStepStep ==
    ASSUME Inv, NEW d \in Daemons, StartStep(d)
    PROVE  Inv'
<1> USE DEF Inv, table, schema, history
<1>1. UNCHANGED <<now, trades, made, batch, rows, swept, lapsed, faults>>
  BY DEF StartStep, Start, Lock, ApplyV1, ApplyV2, Partition
<1>2. /\ now \in Int /\ parts \subseteq Int /\ version \in 0..2
      /\ daemon \in [Daemons -> [pc : {"down", "lock", "v1", "v2", "partitions", "up"},
                                current : 0..2]]
      /\ \A c \in Daemons : daemon[c].pc \in {"v1", "v2", "partitions"} <=> lock = c
  BY DEF TypeOK
<1>3. BatchInv' /\ Day(now)' = Day(now) /\ \A n : DayOf(n)' = DayOf(n)
  BY <1>1 DEF BatchInv, Day, DayOf
<1>4. CASE Start(d) \/ Lock(d) \/ ApplyV1(d) \/ ApplyV2(d)
  <2>1. UNCHANGED <<parts, ensured>>
    BY <1>4 DEF Start, Lock, ApplyV1, ApplyV2
  <2>2. /\ daemon' \in [Daemons -> [pc : {"down", "lock", "v1", "v2", "partitions", "up"},
                                  current : 0..2]]
        /\ version' \in 0..2
        /\ version > 0 => version' > 0
    BY <1>2, <1>4 DEF Start, Lock, ApplyV1, ApplyV2
  <2>3. lock' \in Daemons \cup {NoDaemon}
        /\ \A c \in Daemons : daemon'[c].pc \in {"v1", "v2", "partitions"} <=> lock' = c
    BY <1>2, <1>4, TableAssumption DEF Start, Lock, ApplyV1, ApplyV2, TypeOK
  <2>4. TypeOK'
    BY <1>1, <1>2, <1>3, <2>1, <2>2, <2>3 DEF TypeOK
  <2>5. VersionInv'
    BY <1>2, <1>4, <2>2 DEF VersionInv, Start, Lock, ApplyV1, ApplyV2
  <2>6. AheadInv' /\ SweptInv'
    BY <1>1, <1>3, <2>1 DEF AheadInv, SweptInv
  <2> QED
    BY <1>3, <2>4, <2>5, <2>6
<1>5. CASE Partition(d)
  <2> DEFINE last == Day(now) + AheadDays
  <2>1. /\ parts' = Ensured(last) /\ ensured' = Day(now) /\ version' = version
        /\ daemon[d].pc = "partitions" /\ lock' = NoDaemon
        /\ daemon' = [daemon EXCEPT ![d].pc = "up"]
    BY <1>5 DEF Partition
  <2>2. /\ Day(now) \in Int /\ AheadDays \in Nat /\ RetainDays \in Nat /\ RetainDays >= 1
        /\ swept \in Int
    BY <1>2, CutoffType, TableAssumption DEF TypeOK
  <2>3. /\ parts \subseteq Ensured(last) /\ Ensured(last) \subseteq Int
        /\ \A day \in Ensured(last) \ parts : day >= Day(now) - 1
        /\ ((Day(now) - 1)..(Day(now) + AheadDays)) \subseteq Ensured(last)
    BY <1>2, EnsuredDays, EnsuredType
  <2> HIDE DEF last
  <2>4. version > 0
    BY <2>1 DEF VersionInv
  <2>5. /\ daemon' \in [Daemons -> [pc : {"down", "lock", "v1", "v2", "partitions", "up"},
                                  current : 0..2]]
        /\ \A c \in Daemons : daemon'[c].pc \in {"v1", "v2", "partitions"} <=> lock' = c
    BY <1>2, <2>1, TableAssumption
  <2>6. TypeOK'
    BY <1>1, <1>2, <1>3, <2>1, <2>2, <2>3, <2>4, <2>5 DEF TypeOK
  <2>7. VersionInv'
    BY <1>2, <2>1, <2>4 DEF VersionInv
  <2>8. AheadInv'
    BY <1>3, <2>1, <2>2, <2>3 DEF AheadInv
  <2>9. SweptInv'
    <3>1. ASSUME ~lapsed, NEW day \in Ensured(last) PROVE day >= swept
      BY <2>2, <2>3, <3>1 DEF SweptInv
    <3> QED
      BY <1>1, <1>3, <2>1, <3>1 DEF SweptInv
  <2> QED
    BY <1>3, <2>6, <2>7, <2>8, <2>9
<1> QED
  BY <1>4, <1>5 DEF StartStep

\* A daemon dies.
LEMMA DieStep ==
    ASSUME Inv, NEW d \in Daemons, Die(d)
    PROVE  Inv'
<1> USE DEF Inv, table, schema, history
<1>1. /\ UNCHANGED <<now, trades, made, rows, version, ensured, swept, lapsed>>
      /\ batch' \subseteq batch /\ faults' \in 0..MaxFaults
      /\ daemon' = [daemon EXCEPT ![d] = Down]
      /\ lock' = (IF lock = d THEN NoDaemon ELSE lock)
  BY TableAssumption DEF Die, Fault, TypeOK
<1>2. PICK last : parts' \in {parts, Ensured(last)}
  BY DEF Die
<1>3. parts \subseteq parts' /\ parts' \subseteq Int /\ AheadInv' /\ SweptInv'
  BY <1>1, <1>2, MorePartitions
<1>4. version = 0 => parts' = {}
  <2>1. CASE daemon[d].pc = "partitions"
    <3>1. version # 0
      BY <2>1 DEF VersionInv, TypeOK
    <3> QED
      BY <3>1
  <2>2. CASE daemon[d].pc # "partitions"
    <3>1. parts' = parts
      BY <2>2 DEF Die
    <3> QED
      BY <3>1 DEF TypeOK
  <2> QED
    BY <2>1, <2>2
<1>5. /\ daemon' \in [Daemons -> [pc : {"down", "lock", "v1", "v2", "partitions", "up"},
                                current : 0..2]]
      /\ lock' \in Daemons \cup {NoDaemon}
      /\ \A c \in Daemons : daemon'[c].pc \in {"v1", "v2", "partitions"} <=> lock' = c
  BY <1>1, TableAssumption DEF TypeOK, Down
<1>6. \A n : DayOf(n)' = DayOf(n)
  BY <1>1 DEF DayOf, Day
<1>7. TypeOK'
  BY <1>1, <1>3, <1>4, <1>5, <1>6 DEF TypeOK
<1>8. VersionInv' /\ BatchInv'
  BY <1>1 DEF VersionInv, BatchInv, Down, TypeOK
<1> QED
  BY <1>3, <1>7, <1>8

\* Every step preserves the invariant.
LEMMA NextInv == Inv /\ [Next]_vars => Inv'
<1> SUFFICES ASSUME Inv, [Next]_vars PROVE Inv'
  OBVIOUS
<1>1. CASE Next
  BY <1>1, TableStep, TickStep, PrunerStep, StartStepStep, DieStep DEF Next
<1>2. CASE UNCHANGED vars
  BY <1>2 DEF vars, table, schema, history, Inv, TypeOK, VersionInv, BatchInv,
              AheadInv, SweptInv, Day, DayOf
<1> QED
  BY <1>1, <1>2

\* The invariant holds always.
LEMMA Invariance == Spec => []Inv
BY InitInv, NextInv, PTL DEF Spec

-----------------------------------------------------------------------------
(* Theorems.                                                               *)

\* The table, its partitions, the advisory lock and the daemons are well typed,
\* for any histories, windows and number of daemons; every stored row is in a
\* partition.
THEOREM TypeCorrect == Spec => []TypeOK
BY Invariance, PTL DEF Inv

\* There is a partition for every day that needs one and none that is too old,
\* for any windows and any faults (internal/store/schema.go).
THEOREM PartitionsCorrect == Spec => []PartitionsFollowTime
BY Invariance, InvImpliesFollows, PTL

-----------------------------------------------------------------------------
(* What the command shows depends on the rows of its window only.          *)

LEMMA BoardOfWindow ==
    ASSUME NEW db, NEW left, NEW t, NEW w, Since(db, t, w) = Since(left, t, w)
    PROVE  \A limit, desc : RealizedPnL(db, t, w, limit, desc) = RealizedPnL(left, t, w, limit, desc)
BY DEF RealizedPnL

LEMMA TopOfWindow ==
    ASSUME NEW db, NEW left, NEW t, NEW w, NEW limit, NEW wallet,
           Since(db, t, w) = Since(left, t, w)
    PROVE  WalletTopTokensByVolume(db, t, w, wallet, limit)
              = WalletTopTokensByVolume(left, t, w, wallet, limit)
BY DEF WalletTopTokensByVolume, Mine

LEMMA PageOfWindow ==
    ASSUME NEW db, NEW left, NEW t, NEW w, Since(db, t, w) = Since(left, t, w)
    PROVE  \A wallet :
              /\ WalletRealizedPnLSOL(db, t, w, wallet) = WalletRealizedPnLSOL(left, t, w, wallet)
              /\ WalletTradeCount(db, t, w, wallet) = WalletTradeCount(left, t, w, wallet)
              /\ WalletDistinctPumpTokens(db, t, w, wallet)
                    = WalletDistinctPumpTokens(left, t, w, wallet)
              /\ \A limit : WalletTopTokensByVolume(db, t, w, wallet, limit)
                               = WalletTopTokensByVolume(left, t, w, wallet, limit)
<1>1. \A wallet : Mine(db, t, w, wallet) = Mine(left, t, w, wallet)
  BY DEF Mine
<1> TAKE wallet
<1>2. WalletRealizedPnLSOL(db, t, w, wallet) = WalletRealizedPnLSOL(left, t, w, wallet)
  BY <1>1 DEF WalletRealizedPnLSOL
<1>3. WalletTradeCount(db, t, w, wallet) = WalletTradeCount(left, t, w, wallet)
  BY <1>1 DEF WalletTradeCount
<1>4. WalletDistinctPumpTokens(db, t, w, wallet) = WalletDistinctPumpTokens(left, t, w, wallet)
  BY <1>1 DEF WalletDistinctPumpTokens
<1>5. \A limit : WalletTopTokensByVolume(db, t, w, wallet, limit)
                    = WalletTopTokensByVolume(left, t, w, wallet, limit)
  BY TopOfWindow
<1> QED
  BY <1>2, <1>3, <1>4, <1>5

LEMMA TilesOfWindow ==
    ASSUME NEW db, NEW left, NEW t, NEW w, Since(db, t, w) = Since(left, t, w)
    PROVE  /\ ActiveWallets24h(db, t, w) = ActiveWallets24h(left, t, w)
           /\ Volume24h(db, t, w) = Volume24h(left, t, w)
           /\ BuySellRatio24h(db, t, w) = BuySellRatio24h(left, t, w)
           /\ HottestToken1h(db, t, w) = HottestToken1h(left, t, w)
<1>1. ActiveWallets24h(db, t, w) = ActiveWallets24h(left, t, w)
  BY DEF ActiveWallets24h
<1>2. Volume24h(db, t, w) = Volume24h(left, t, w)
  BY DEF Volume24h
<1>3. BuySellRatio24h(db, t, w) = BuySellRatio24h(left, t, w)
  BY DEF BuySellRatio24h
<1>4. HottestToken1h(db, t, w) = HottestToken1h(left, t, w)
  BY DEF HottestToken1h
<1> QED
  BY <1>1, <1>2, <1>3, <1>4

\* A window of at most RetainDays days holds no more ticks than they have.
LEMMA WindowWithin ==
    /\ \A window \in Windows : InTicks(window) \in Nat /\ InTicks(window) <= RetainDays * TicksPerDay
    /\ TicksPerDay <= RetainDays * TicksPerDay
    /\ HourTicks \in Nat /\ HourTicks <= RetainDays * TicksPerDay
<1>1. RetainDays \in Nat /\ RetainDays >= 1 /\ TicksPerDay \in Nat
  BY TableAssumption
<1>2. \A k \in 1..RetainDays : k * TicksPerDay \in Nat /\ k * TicksPerDay <= RetainDays * TicksPerDay
  <2> TAKE k \in 1..RetainDays
  <2>1. RetainDays - k \in Nat
    BY <1>1
  <2>2. (RetainDays - k) * TicksPerDay >= 0
    BY <1>1, <2>1
  <2>3. RetainDays * TicksPerDay = (RetainDays - k) * TicksPerDay + k * TicksPerDay
    BY <1>1
  <2>4. /\ (RetainDays - k) * TicksPerDay \in Int /\ k * TicksPerDay \in Nat
        /\ RetainDays * TicksPerDay \in Int
    BY <1>1
  <2> QED
    BY <2>2, <2>3, <2>4
<1>3. TicksPerDay <= RetainDays * TicksPerDay /\ RetainDays * TicksPerDay \in Nat
  <2>1. 1 \in 1..RetainDays /\ 1 * TicksPerDay = TicksPerDay
    BY <1>1
  <2>2. RetainDays * TicksPerDay \in Nat
    BY <1>1
  <2> QED
    BY <1>2, <2>1, <2>2
<1>4. HourTicks \in Nat /\ HourTicks <= RetainDays * TicksPerDay
  BY <1>1, <1>3, StatsAssumption
<1> QED
  BY <1>2, <1>3, <1>4, StatsAssumption DEF InTicks

\* A tick of the pruner leaves every row of such a window: a sweep ends below the day
\* on which the longest of them began.
LEMMA WindowSurvives ==
    ASSUME Inv, PrunerTick, NEW w \in Nat, w <= RetainDays * TicksPerDay
    PROVE  Since(DB, now, w) = Since(DB', now, w)
<1>1. /\ now \in Nat /\ trades \in Histories /\ rows \subseteq 1..made /\ made \in 0..Len(trades)
      /\ trades' = trades
  BY DEF Inv, TypeOK, PrunerTick
<1>2. PICK gone : gone \subseteq SweptDays /\ rows' = {n \in rows : DayOf(n) \notin gone}
  BY DEF PrunerTick
<1>3. CutoffDay \in Int /\ Day(now) \in Int
  BY <1>1, CutoffType
<1>4. \A day \in gone : day < CutoffDay
  BY <1>2, <1>3, TableAssumption DEF SweptDays
<1>5. ASSUME NEW n \in rows, trades[n].at >= now - w PROVE n \in rows'
  <2>1. trades[n].at \in Int /\ DayOf(n) \in Int
    BY <1>1, TradeFields
  <2>2. now - RetainDays * TicksPerDay \in Int /\ now - RetainDays * TicksPerDay <= trades[n].at
    <3>1. RetainDays * TicksPerDay \in Int
      BY TableAssumption
    <3> QED
      BY <1>1, <1>5, <2>1, <3>1
  <2>3. CutoffDay <= DayOf(n)
    BY <2>1, <2>2, DayMonotone DEF CutoffDay, DayOf
  <2> QED
    BY <1>2, <1>3, <1>4, <2>1, <2>3
<1>6. rows' \subseteq rows
  BY <1>2
<1>7. DB' = {trades[n] : n \in rows'}
  BY <1>1 DEF DB
<1> QED
  BY <1>5, <1>6, <1>7 DEF DB, Since

\* The pruner takes nothing away that the command shows, for any history, windows
\* and retention (schema.go:178-188 against the WHERE clauses of the queries).
THEOREM PruningIsInvisible == Spec => AnswersSurvivePruning
<1>1. ASSUME Inv, PrunerTick
      PROVE  /\ Stats' = Stats
             /\ \A window \in Windows :
                   /\ \A desc \in BOOLEAN : Board(window, desc)' = Board(window, desc)
                   /\ \A w \in Traders : Whois(window, w)' = Whois(window, w)
  <2>1. now' = now
    BY <1>1 DEF PrunerTick
  <2>2. Stats' = Stats
    <3>1. Since(DB, now, TicksPerDay) = Since(DB', now, TicksPerDay)
      BY <1>1, WindowSurvives, WindowWithin, TableAssumption
    <3>2. Since(DB, now, HourTicks) = Since(DB', now, HourTicks)
      BY <1>1, WindowSurvives, WindowWithin
    <3> DEFINE left == DB'
    <3>3. /\ ActiveWallets24h(DB, now, TicksPerDay) = ActiveWallets24h(left, now, TicksPerDay)
          /\ Volume24h(DB, now, TicksPerDay) = Volume24h(left, now, TicksPerDay)
          /\ BuySellRatio24h(DB, now, TicksPerDay) = BuySellRatio24h(left, now, TicksPerDay)
      BY <3>1, TilesOfWindow
    <3>4. HottestToken1h(DB, now, HourTicks) = HottestToken1h(left, now, HourTicks)
      BY <3>2, TilesOfWindow
    <3> QED
      BY <2>1, <3>3, <3>4 DEF Stats
  <2>3. ASSUME NEW window \in Windows
        PROVE  /\ \A desc \in BOOLEAN : Board(window, desc)' = Board(window, desc)
               /\ \A w \in Traders : Whois(window, w)' = Whois(window, w)
    <3> DEFINE ticks == InTicks(window)
               left == DB'
    <3>1. Since(DB, now, ticks) = Since(left, now, ticks)
      BY <1>1, WindowSurvives, WindowWithin
    <3> HIDE DEF ticks
    <3>2. ASSUME NEW desc \in BOOLEAN PROVE Board(window, desc)' = Board(window, desc)
      BY <2>1, <3>1, BoardOfWindow DEF Board, ticks
    <3>3. ASSUME NEW w \in Traders PROVE Whois(window, w)' = Whois(window, w)
      BY <2>1, <3>1, PageOfWindow DEF Whois, ticks
    <3> QED
      BY <3>2, <3>3
  <2> QED
    BY <2>2, <2>3
<1>2. Inv /\ [Next]_vars =>
        [PrunerTick =>
           /\ Stats' = Stats
           /\ \A window \in Windows :
                 /\ \A desc \in BOOLEAN : Board(window, desc)' = Board(window, desc)
                 /\ \A w \in Traders : Whois(window, w)' = Whois(window, w)]_vars
  BY <1>1
<1> QED
  BY <1>2, Invariance, PTL DEF Spec, AnswersSurvivePruning

-----------------------------------------------------------------------------
(* The profit shown is the gain.                                           *)

LEMMA RowsMade ==
    ASSUME TypeOK, NEW w
    PROVE  /\ IsFiniteSet(MadeBy(w)) /\ MadeBy(w) \subseteq Row
           /\ \A r \in MadeBy(w) : r.n \in 1..made /\ r = trades[r.n] /\ r.trader = w
<1>1. /\ trades \in Seq(Row) /\ made \in 0..Len(trades) /\ Len(trades) \in Nat
      /\ \A i \in 1..Len(trades) : trades[i].n = i
  BY HistoryAssumption DEF TypeOK
<1> DEFINE N == {i \in 1..made : trades[i].trader = w}
<1>2. IsFiniteSet(1..made)
  BY <1>1, FS_Interval
<1>3. IsFiniteSet(N)
  BY <1>2, FS_Subset
<1>4. IsFiniteSet({trades[i] : i \in N})
  <2> DEFINE f == [i \in N |-> trades[i]]
             T == {trades[i] : i \in N}
  <2>1. f \in Surjection(N, T)
    BY DEF Surjection
  <2> HIDE DEF f, N, T
  <2>2. IsFiniteSet(T)
    BY <1>3, <2>1, FS_Surjection
  <2> QED
    BY <2>2 DEF T
<1>5. \A i \in N : /\ trades[i] \in Row /\ trades[i].n = i /\ i \in 1..made
                   /\ trades[i].trader = w
  BY <1>1
<1> QED
  BY <1>4, <1>5 DEF MadeBy

\* Tokens are counted.
LEMMA TokensType ==
    ASSUME TypeOK, NEW w, NEW mint, NEW sides, NEW last
    PROVE  Tokens(w, mint, sides, last) \in Nat
<1> DEFINE S == {r \in MadeBy(w) : r.mint = mint /\ r.side \in sides /\ r.n <= last}
           f == [r \in S |-> r.tokens]
<1>1. IsFiniteSet(S) /\ \A r \in S : r.tokens \in Nat
  <2>1. S \subseteq MadeBy(w) /\ MadeBy(w) \subseteq Row /\ IsFiniteSet(MadeBy(w))
    BY RowsMade
  <2>2. IsFiniteSet(S)
    BY <2>1, FS_Subset
  <2> QED
    BY <2>1, <2>2 DEF Row
<1>2. f \in [S -> Nat]
  BY <1>1
<1>3. Tokens(w, mint, sides, last) = SumFunction(f)
  BY DEF Tokens
<1> HIDE DEF S
<1>4. f = [x \in S |-> f[x]]
  OBVIOUS
<1> HIDE DEF f
<1>5. Total(f, S) \in Nat
  BY <1>1, <1>2, TotalIsNat
<1> QED
  BY <1>3, <1>4, <1>5 DEF Total

\* With every trade of the wallet in the window, whois reads them all.
LEMMA MineIsMade ==
    ASSUME TypeOK, NEW w, NEW ticks, \A r \in MadeBy(w) : r \in Since(DB, now, ticks)
    PROVE  Mine(DB, now, ticks, w) = MadeBy(w)
<1>1. rows \subseteq 1..made
  BY DEF TypeOK
<1>2. Mine(DB, now, ticks, w) \subseteq MadeBy(w)
  BY <1>1 DEF Mine, Since, DB, MadeBy
<1>3. MadeBy(w) \subseteq Mine(DB, now, ticks, w)
  BY RowsMade DEF Mine
<1> QED
  BY <1>2, <1>3

\* A position is closed by its last balance exactly when nothing of it is left.
LEMMA ClosedIsLeft ==
    ASSUME TypeOK, NEW w,
           \A r \in MadeBy(w) : Tokens(w, r.mint, {"sell"}, r.n) + r.bal
                                   = Tokens(w, r.mint, {"buy", "create"}, r.n),
           NEW r \in MadeBy(w)
    PROVE  (\E q \in MadeBy(w) : /\ q.mint = r.mint /\ q.bal = 0
                                 /\ \A x \in MadeBy(w) : x.mint = q.mint => x.n <= q.n)
           <=> ~(Tokens(w, r.mint, {"sell"}, made) < Tokens(w, r.mint, {"buy", "create"}, made))
<1> DEFINE mint == r.mint
           N == {x.n : x \in {y \in MadeBy(w) : y.mint = mint}}
           IsLast(q) == \A x \in MadeBy(w) : x.mint = mint => x.n <= q.n
<1>1. made \in Nat
  BY HistoryAssumption DEF TypeOK
<1>2. N \in SUBSET (1..made) /\ N # {}
  BY RowsMade
<1>3. PICK q \in MadeBy(w) : q.mint = mint /\ IsLast(q)
  <2> HIDE DEF N
  <2>1. Max(N) \in N /\ \A k \in N : Max(N) >= k
    BY <1>1, <1>2, MaxOfInterval
  <2>2. \A k \in N : k \in Nat
    BY <1>2
  <2> USE DEF N
  <2>3. PICK q \in MadeBy(w) : q.mint = mint /\ q.n = Max(N)
    BY <2>1
  <2>4. \A x \in MadeBy(w) : x.mint = mint => x.n \in N
    OBVIOUS
  <2> HIDE DEF N
  <2>5. \A x \in MadeBy(w) : x.mint = mint => x.n <= q.n
    BY <2>1, <2>2, <2>3, <2>4
  <2> QED
    BY <2>3, <2>5
<1>4. \A p \in MadeBy(w) : p.mint = mint /\ IsLast(p) => p = q
  <2> TAKE p \in MadeBy(w)
  <2>1. HAVE p.mint = mint /\ IsLast(p)
  <2>2. p.n <= q.n /\ q.n <= p.n
    BY <1>3, <2>1
  <2>3. p.n \in 1..made /\ q.n \in 1..made /\ p = trades[p.n] /\ q = trades[q.n]
    BY RowsMade
  <2>4. p.n = q.n
    BY <1>1, <2>2, <2>3
  <2> QED
    BY <2>3, <2>4
<1>5. \A sides : Tokens(w, mint, sides, q.n) = Tokens(w, mint, sides, made)
  <2> TAKE sides
  <2>1. \A x \in MadeBy(w) : x.mint = mint => (x.n <= q.n <=> x.n <= made)
    BY <1>1, <1>3, RowsMade
  <2>2. {x \in MadeBy(w) : x.mint = mint /\ x.side \in sides /\ x.n <= q.n}
          = {x \in MadeBy(w) : x.mint = mint /\ x.side \in sides /\ x.n <= made}
    BY <2>1
  <2> QED
    BY <2>2 DEF Tokens
<1> DEFINE sold == Tokens(w, mint, {"sell"}, made)
           bought == Tokens(w, mint, {"buy", "create"}, made)
<1>6. sold \in Nat /\ bought \in Nat /\ q.bal \in Nat
  BY TokensType, RowsMade DEF Row
<1>7. sold + q.bal = bought
  BY <1>3, <1>5
<1> HIDE DEF sold, bought
<1>8. q.bal = 0 <=> ~(sold < bought)
  BY <1>6, <1>7
<1> QED
  BY <1>3, <1>4, <1>8 DEF sold, bought

\* The profit whois shows of a wallet is what the wallet gained, for any history and
\* any numbers of tokens (whois_queries.go:19-48).
THEOREM ProfitIsGain == Spec => []PnLIsGain
<1>1. TypeOK => PnLIsGain
  <2> SUFFICES ASSUME TypeOK, NEW w \in Traders, NEW window \in Windows,
                      \A r \in MadeBy(w) :
                         /\ r \in Since(DB, now, InTicks(window))
                         /\ r.side # "create"
                         /\ Tokens(w, r.mint, {"sell"}, r.n) + r.bal
                               = Tokens(w, r.mint, {"buy", "create"}, r.n)
               PROVE  Whois(window, w).pnl = Gain(w)
    BY DEF PnLIsGain
  <2> DEFINE M == MadeBy(w)
             Holds(m) == Tokens(w, m, {"sell"}, made) < Tokens(w, m, {"buy", "create"}, made)
             closed == {r.mint : r \in {x \in {r \in M : \A x \in M : x.mint = r.mint => x.n <= r.n} :
                                          x.bal = 0}}
             flow == {r \in M : r.mint \in closed}
  <2>1. Mine(DB, now, InTicks(window), w) = M
    BY MineIsMade
  <2>2. Whois(window, w).pnl = Flow(flow)
    BY <2>1 DEF Whois, WalletRealizedPnLSOL
  <2>3. flow = {r \in M : ~Holds(r.mint)}
    <3>1. ASSUME NEW r \in M PROVE r.mint \in closed <=> ~Holds(r.mint)
      <4>1. r.mint \in closed
               <=> \E q \in M : /\ q.mint = r.mint /\ q.bal = 0
                                /\ \A x \in M : x.mint = q.mint => x.n <= q.n
        OBVIOUS
      <4> QED
        BY <4>1, ClosedIsLeft
    <3> HIDE DEF closed, Holds, M
    <3> QED
      BY <3>1
  <2>4. {r \in flow : r.side = "sell"} = {r \in M : ~Holds(r.mint) /\ r.side \in {"sell"}}
    <3> HIDE DEF Holds, M, flow
    <3> QED
      BY <2>3
  <2>5. {r \in flow : r.side = "buy"} = {r \in M : ~Holds(r.mint) /\ r.side \in {"buy", "create"}}
    <3>1. \A r \in M : r.side # "create"
      OBVIOUS
    <3> HIDE DEF Holds, M, flow
    <3> QED
      BY <2>3, <3>1
  <2> HIDE DEF flow
  <2>6. Flow(flow) = Gain(w)
    BY <2>4, <2>5 DEF Flow, Gain
  <2> QED
    BY <2>2, <2>6
<1> QED
  BY <1>1, TypeCorrect, PTL

-----------------------------------------------------------------------------
(* The pages agree.  D is any finite set of rows, most often a window.     *)

\* The rows stored.
LEMMA StoredRows ==
    ASSUME TypeOK
    PROVE  /\ IsFiniteSet(DB) /\ DB \subseteq Row
           /\ now \in Nat
<1>1. /\ trades \in Seq(Row) /\ made \in 0..Len(trades) /\ Len(trades) \in Nat
      /\ rows \subseteq 1..made
  BY HistoryAssumption DEF TypeOK
<1>2. IsFiniteSet(rows)
  <2>1. IsFiniteSet(1..made)
    BY <1>1, FS_Interval
  <2> QED
    BY <1>1, <2>1, FS_Subset
<1>3. IsFiniteSet({trades[n] : n \in rows})
  <2> DEFINE f == [n \in rows |-> trades[n]]
             T == {trades[n] : n \in rows}
  <2>1. f \in Surjection(rows, T)
    BY DEF Surjection
  <2> HIDE DEF f, T
  <2>2. IsFiniteSet(T)
    BY <1>2, <2>1, FS_Surjection
  <2> QED
    BY <2>2 DEF T
<1> QED
  BY <1>1, <1>3 DEF DB, TypeOK

\* The image of a finite set under the mints or the traders of its rows.
LEMMA NamesFinite ==
    ASSUME NEW D, IsFiniteSet(D), D \subseteq Row
    PROVE  /\ IsFiniteSet({r.mint : r \in D}) /\ {r.mint : r \in D} \subseteq Mints
           /\ IsFiniteSet({r.trader : r \in D}) /\ {r.trader : r \in D} \subseteq Traders
<1>1. {r.mint : r \in D} \subseteq Mints /\ {r.trader : r \in D} \subseteq Traders
  BY DEF Row
<1>2. IsFiniteSet(Traders) /\ IsFiniteSet(Mints)
  BY StatsAssumption
<1> QED
  BY <1>1, <1>2, FS_Subset

\* Amounts are counted, and what comes in less what goes out is an integer.
LEMMA AmountsType ==
    ASSUME NEW D, IsFiniteSet(D), D \subseteq Row
    PROVE  /\ TotalLamports(D) \in Nat
           /\ Flow(D) \in Int
           /\ D = {} => Flow(D) = 0
<1>1. ASSUME NEW X, X \subseteq D
      PROVE  TotalLamports(X) \in Nat /\ (X = {} => TotalLamports(X) = 0)
  <2> DEFINE f == [r \in X |-> r.sol]
  <2>1. IsFiniteSet(X) /\ f \in [X -> Nat]
    BY <1>1, FS_Subset DEF Row
  <2>2. TotalLamports(X) = SumFunction(f) /\ f = [x \in X |-> f[x]]
    BY DEF TotalLamports
  <2> HIDE DEF f
  <2>3. TotalLamports(X) = Total(f, X)
    BY <2>2 DEF Total
  <2>4. Total(f, X) \in Nat /\ Total(f, {}) = 0
    BY <2>1, TotalIsNat
  <2> QED
    BY <2>3, <2>4
<1> DEFINE sells == {r \in D : r.side = "sell"}
           buys == {r \in D : r.side = "buy"}
<1>2. sells \subseteq D /\ buys \subseteq D /\ (D = {} => sells = {} /\ buys = {})
  OBVIOUS
<1>3. Flow(D) = TotalLamports(sells) - TotalLamports(buys)
  BY DEF Flow
<1> HIDE DEF sells, buys
<1> QED
  BY <1>1, <1>2, <1>3

\* LIMIT cuts a result off, or leaves it alone.
LEMMA LimitedIs ==
    ASSUME NEW S, NEW f \in Seq(S), NEW limit \in Nat
    PROVE  /\ Len(Limited(f, limit)) = IF Len(f) <= limit THEN Len(f) ELSE limit
           /\ DOMAIN Limited(f, limit) = 1..Len(Limited(f, limit))
           /\ \A i \in 1..Len(Limited(f, limit)) : Limited(f, limit)[i] = f[i]
           /\ Len(f) <= limit => Limited(f, limit) = f
<1> DEFINE m == IF Len(f) <= limit THEN Len(f) ELSE limit
<1>1. Len(f) \in Nat
  OBVIOUS
<1>2. Min({Len(f), limit}) = m
  BY <1>1 DEF Min
<1>3. m \in Nat /\ m <= Len(f)
  BY <1>1
<1>4. Limited(f, limit) = SubSeq(f, 1, m)
  BY <1>2 DEF Limited
<1>5. Len(f) <= limit => SubSeq(f, 1, m) = f
  BY <1>1
<1> HIDE DEF m
<1>6. /\ Len(SubSeq(f, 1, m)) = m
      /\ DOMAIN SubSeq(f, 1, m) = 1..m
      /\ \A i \in 1..m : SubSeq(f, 1, m)[i] = f[i]
  BY <1>1, <1>3
<1> QED
  BY <1>4, <1>5, <1>6 DEF m

\* What RealizedPnL joins in D, and its sum for one trader.
Joined(D) ==
    LET lastBal == {r \in D : \A x \in D : x.trader = r.trader /\ x.mint = r.mint => x.n <= r.n}
        closed == {<<r.trader, r.mint>> : r \in {x \in lastBal : x.bal = 0}}
    IN  {r \in D : <<r.trader, r.mint>> \in closed}

Of(D, w) == {r \in D : r.trader = w}

Flows(D) == {[trader |-> t, pnl |-> Flow(Of(D, t))] : t \in {r.trader : r \in D}}

\* The two queries join the same rows for a wallet.
LEMMA SamePositions ==
    ASSUME NEW window, NEW w
    PROVE  Whois(window, w).pnl = Flow(Of(Joined(Since(DB, now, InTicks(window))), w))
<1> DEFINE D == Since(DB, now, InTicks(window))
           mine == {r \in D : r.trader = w}
           lastMine == {r \in mine : \A x \in mine : x.mint = r.mint => x.n <= r.n}
           closed == {r.mint : r \in {x \in lastMine : x.bal = 0}}
           flow == {r \in mine : r.mint \in closed}
           lastBal == {r \in D : \A x \in D : x.trader = r.trader /\ x.mint = r.mint => x.n <= r.n}
           pairs == {<<r.trader, r.mint>> : r \in {x \in lastBal : x.bal = 0}}
<1>1. Whois(window, w).pnl = Flow(flow)
  BY DEF Whois, WalletRealizedPnLSOL, Mine
<1>2. Joined(D) = {r \in D : <<r.trader, r.mint>> \in pairs}
  BY DEF Joined
<1> HIDE DEF D
<1>3. ASSUME NEW r \in D, r.trader = w PROVE r.mint \in closed <=> <<r.trader, r.mint>> \in pairs
  <2>1. r.mint \in closed
          <=> \E q \in D : /\ q.trader = w /\ q.mint = r.mint /\ q.bal = 0
                           /\ \A x \in D : x.trader = w /\ x.mint = q.mint => x.n <= q.n
    OBVIOUS
  <2>2. <<r.trader, r.mint>> \in pairs
          <=> \E q \in D : /\ q.trader = r.trader /\ q.mint = r.mint /\ q.bal = 0
                           /\ \A x \in D : x.trader = q.trader /\ x.mint = q.mint => x.n <= q.n
    OBVIOUS
  <2> HIDE DEF closed, pairs
  <2> QED
    BY <1>3, <2>1, <2>2
<1>4. flow = Of(Joined(D), w)
  <2> HIDE DEF closed, pairs
  <2> QED
    BY <1>2, <1>3 DEF Of
<1> QED
  BY <1>1, <1>4 DEF D

\* The board goes through the flows from the greatest down and stops at its limit.
LEMMA BoardIs ==
    ASSUME TypeOK, NEW window, NEW D, D = Joined(Since(DB, now, InTicks(window)))
    PROVE  \E f \in Seq(Flows(D)) :
              /\ Board(window, TRUE) = Limited(f, BoardLimit)
              /\ \A i, j \in 1..Len(f) : i < j => f[i].pnl >= f[j].pnl
              /\ \A x \in Flows(D) : \E i \in 1..Len(f) : f[i] = x
              /\ \A x \in Flows(D) : x.pnl \in Int
<1> DEFINE S == Flows(D)
           key == [x \in S |-> x.pnl]
           Desc(f) == f \in SetToSeqs(S) /\ \A i, j \in DOMAIN f : i < j => f[i].pnl >= f[j].pnl
           ranked == CHOOSE f \in SetToSeqs(S) :
                        \A i, j \in DOMAIN f : i < j => f[i].pnl >= f[j].pnl
<1>1. IsFiniteSet(D) /\ D \subseteq Row
  <2>1. D \subseteq DB
    BY DEF Joined, Since
  <2> QED
    BY <2>1, StoredRows, FS_Subset
<1>2. IsFiniteSet(S)
  <2> DEFINE T == {r.trader : r \in D}
             g == [t \in T |-> [trader |-> t, pnl |-> Flow(Of(D, t))]]
  <2>1. IsFiniteSet(T)
    BY <1>1, NamesFinite
  <2>2. g \in Surjection(T, S)
    BY DEF Surjection, Flows
  <2> HIDE DEF T, g, S
  <2> QED
    BY <2>1, <2>2, FS_Surjection
<1>3. \A x \in S : x.pnl \in Int
  <2>1. ASSUME NEW t PROVE Flow(Of(D, t)) \in Int
    <3>1. Of(D, t) \subseteq D
      BY DEF Of
    <3>2. IsFiniteSet(Of(D, t)) /\ Of(D, t) \subseteq Row
      BY <1>1, <3>1, FS_Subset
    <3> QED
      BY <3>2, AmountsType
  <2> QED
    BY <2>1 DEF Flows
<1>4. Board(window, TRUE) = Limited(ranked, BoardLimit)
  <2> DEFINE W == Since(DB, now, InTicks(window))
  <2>1. S = {[trader |-> t, pnl |-> Flow({r \in D : r.trader = t})] : t \in {r.trader : r \in D}}
    BY DEF Flows, Of
  <2>2. Board(window, TRUE) = RealizedPnL(DB, now, InTicks(window), BoardLimit, TRUE)
    BY DEF Board
  <2> HIDE DEF S
  <2> QED
    BY <2>1, <2>2 DEF RealizedPnL, Joined, Ranked
<1>5. \E f : Desc(f)
  <2>1. key \in [S -> Int]
    BY <1>3
  <2>2. PICK f : Descends(f, S, key)
    <3> HIDE DEF key, S
    <3> QED
      BY <1>2, <2>1, DescentExists
  <2>3. f \in SetToSeqs(S) /\ \A i, j \in DOMAIN f : i < j => key[f[i]] >= key[f[j]]
    BY <2>2 DEF Descends
  <2>4. \A i \in DOMAIN f : f[i] \in S
    BY <2>3 DEF SetToSeqs
  <2>5. \A i, j \in DOMAIN f : i < j => f[i].pnl >= f[j].pnl
    BY <2>3, <2>4
  <2> QED
    BY <2>3, <2>5
<1>6. Desc(ranked)
  <2> HIDE DEF S
  <2> QED
    BY <1>5
<1> HIDE DEF ranked
<1>7. /\ ranked \in Seq(S)
      /\ \A x \in S : \E i \in 1..Len(ranked) : ranked[i] = x
  <2>1. ranked \in SetToSeqs(S)
    BY <1>6
  <2> HIDE DEF S
  <2> QED
    BY <1>2, <2>1, DescentTakesAll
<1>8. DOMAIN ranked = 1..Len(ranked)
  BY <1>7
<1> QED
  BY <1>3, <1>4, <1>6, <1>7, <1>8

LEMMA BoardAgrees ==
    ASSUME TypeOK
    PROVE  BoardMatchesWhois
<1> SUFFICES ASSUME NEW window \in Windows
             PROVE  LET top == Board(window, TRUE)
                        OnBoard == {top[i].trader : i \in DOMAIN top}
                    IN  /\ \A i \in DOMAIN top : top[i].pnl = Whois(window, top[i].trader).pnl
                        /\ \A w \in Traders \ OnBoard :
                              LET pnl == Whois(window, w).pnl
                              IN  pnl = 0 \/ (Len(top) = BoardLimit /\ pnl <= top[Len(top)].pnl)
  BY DEF BoardMatchesWhois
<1> DEFINE top == Board(window, TRUE)
           OnBoard == {top[i].trader : i \in DOMAIN top}
           D == Joined(Since(DB, now, InTicks(window)))
<1>1. PICK f \in Seq(Flows(D)) :
         /\ top = Limited(f, BoardLimit)
         /\ \A i, j \in 1..Len(f) : i < j => f[i].pnl >= f[j].pnl
         /\ \A x \in Flows(D) : \E i \in 1..Len(f) : f[i] = x
         /\ \A x \in Flows(D) : x.pnl \in Int
  BY BoardIs
<1>2. \A w : Whois(window, w).pnl = Flow(Of(D, w))
  BY SamePositions
<1>3. BoardLimit \in Nat \ {0}
  BY StatsAssumption
<1> HIDE DEF D
<1>4. /\ Len(top) = IF Len(f) <= BoardLimit THEN Len(f) ELSE BoardLimit
      /\ DOMAIN top = 1..Len(top)
      /\ \A i \in 1..Len(top) : top[i] = f[i]
  <2> HIDE DEF top
  <2> QED
    BY <1>1, <1>3, LimitedIs
<1>5. Len(f) \in Nat /\ \A i \in 1..Len(f) : f[i] \in Flows(D)
  BY <1>1
<1> HIDE DEF top
<1>6. Len(top) \in Nat /\ Len(top) <= Len(f)
  BY <1>3, <1>4, <1>5
<1>7. ASSUME NEW i \in DOMAIN top PROVE top[i].pnl = Whois(window, top[i].trader).pnl
  <2>1. top[i] \in Flows(D)
    BY <1>4, <1>5, <1>6
  <2>2. PICK t : top[i] = [trader |-> t, pnl |-> Flow(Of(D, t))]
    BY <2>1 DEF Flows
  <2> QED
    BY <1>2, <2>2
<1>8. ASSUME NEW w \in Traders \ OnBoard
      PROVE  \/ Whois(window, w).pnl = 0
             \/ Len(top) = BoardLimit /\ Whois(window, w).pnl <= top[Len(top)].pnl
  <2>1. CASE Of(D, w) = {}
    <3>1. IsFiniteSet({}) /\ {} \subseteq Row
      BY FS_EmptySet
    <3>2. Flow({}) = 0
      BY <3>1, AmountsType
    <3> QED
      BY <1>2, <2>1, <3>2
  <2>2. CASE Of(D, w) # {}
    <3> DEFINE x == [trader |-> w, pnl |-> Flow(Of(D, w))]
    <3>1. x \in Flows(D)
      BY <2>2 DEF Flows, Of
    <3>2. PICK i \in 1..Len(f) : f[i] = x
      BY <1>1, <3>1
    <3>3. ~(i \in 1..Len(top))
      <4>1. SUFFICES ASSUME i \in 1..Len(top) PROVE FALSE
        OBVIOUS
      <4>2. top[i].trader = w /\ i \in DOMAIN top
        BY <1>4, <3>2, <4>1
      <4> QED
        BY <4>2
    <3>4. Len(top) = BoardLimit /\ Len(top) < i /\ Len(top) \in 1..Len(f) /\ Len(top) \in 1..Len(top)
      BY <1>3, <1>4, <1>5, <1>6, <3>3
    <3>5. f[Len(top)].pnl >= f[i].pnl /\ f[Len(top)].pnl \in Int /\ f[i].pnl \in Int
      BY <1>1, <1>5, <3>4
    <3>6. top[Len(top)] = f[Len(top)]
      BY <1>4, <3>4
    <3>7. Whois(window, w).pnl = f[i].pnl
      BY <1>2, <3>2
    <3> QED
      BY <3>4, <3>5, <3>6, <3>7
  <2> QED
    BY <2>1, <2>2
<1> QED
  BY <1>7, <1>8 DEF top

-----------------------------------------------------------------------------
\* The tokens a page lists of the rows D of a wallet.
TokenRows(D) ==
    LET In(m) == {r \in D : r.mint = m}
    IN  {[mint |-> m, volume |-> TotalLamports(In(m)), trades |-> Cardinality(In(m))] :
            m \in {r.mint : r \in D}}

\* top has each of the tokens of the rows D once at most, and all of them if there
\* is room.
Lists(top, D) ==
    LET tokens == Cardinality({r.mint : r \in D})
    IN  /\ top \in Seq(TokenRows(D)) /\ tokens \in Nat
        /\ Len(top) = IF tokens <= TokenLimit THEN tokens ELSE TokenLimit
        /\ \A i, j \in 1..Len(top) : i # j => top[i].mint # top[j].mint
        /\ tokens <= TokenLimit =>
              \A m \in {r.mint : r \in D} : \E i \in 1..Len(top) : top[i].mint = m

\* The rows of the tokens in top.
ListedRows(top, D) == {r \in D : \E i \in 1..Len(top) : top[i].mint = r.mint}

\* A page lists tokens so.
LEMMA TopIs ==
    ASSUME TypeOK, NEW window, NEW w, NEW D, D = Mine(DB, now, InTicks(window), w),
           NEW top, top = Whois(window, w).top
    PROVE  Lists(top, D)
<1> DEFINE S == TokenRows(D)
           M == {r.mint : r \in D}
           In(m) == {r \in D : r.mint = m}
           Entry(m) == [mint |-> m, volume |-> TotalLamports(In(m)), trades |-> Cardinality(In(m))]
           key == [x \in S |-> x.volume]
           ranked == CHOOSE f \in SetToSeqs(S) :
                        \A i, j \in DOMAIN f : i < j => f[i].volume >= f[j].volume
<1>1. IsFiniteSet(D) /\ D \subseteq Row
  <2>1. D \subseteq DB
    BY DEF Mine, Since
  <2> QED
    BY <2>1, StoredRows, FS_Subset
<1>2. IsFiniteSet(M) /\ Cardinality(M) \in Nat /\ TokenLimit \in Nat \ {0}
  <2>1. IsFiniteSet(M)
    BY <1>1, NamesFinite
  <2> HIDE DEF M
  <2> QED
    BY <2>1, FS_CardinalityType, StatsAssumption
<1>3. \A x \in S : x.mint \in M /\ x = Entry(x.mint)
  <2>1. TAKE x \in S
  <2>2. PICK m \in M : x = Entry(m)
    BY DEF TokenRows
  <2>3. Entry(m).mint = m
    OBVIOUS
  <2>4. x.mint = m
    BY <2>2, <2>3
  <2> HIDE DEF Entry, M
  <2> QED
    BY <2>2, <2>4
<1>4. \A m \in M : Entry(m) \in S /\ Entry(m).mint = m
  BY DEF TokenRows
<1>5. IsFiniteSet(S) /\ Cardinality(S) = Cardinality(M)
  <2> DEFINE g == [m \in M |-> Entry(m)]
  <2>1. g \in Surjection(M, S) /\ g \in Injection(M, S)
    <3> HIDE DEF Entry, M, S
    <3>1. g \in [M -> S] /\ \A m, n \in M : g[m] = g[n] => m = n
      BY <1>4
    <3>2. \A x \in S : \E m \in M : g[m] = x
      BY <1>3
    <3> QED
      BY <3>1, <3>2 DEF Surjection, Injection, IsInjective
  <2> HIDE DEF g, M, S
  <2>2. IsFiniteSet(S) /\ (Cardinality(S) = Cardinality(M) <=> g \in Injection(M, S))
    BY <1>2, <2>1, FS_Surjection
  <2> QED
    BY <2>1, <2>2
<1>6. \A x \in S : x.volume \in Int
  <2>1. ASSUME NEW m PROVE TotalLamports(In(m)) \in Int
    <3>1. IsFiniteSet(In(m)) /\ In(m) \subseteq Row
      <4>1. In(m) \subseteq D
        OBVIOUS
      <4> QED
        BY <1>1, <4>1, FS_Subset
    <3> HIDE DEF In
    <3> QED
      BY <3>1, AmountsType
  <2>2. \A m : Entry(m).volume = TotalLamports(In(m))
    OBVIOUS
  <2> HIDE DEF Entry, In, S, M
  <2> QED
    BY <1>3, <2>1, <2>2
<1>7. top = Limited(ranked, TokenLimit)
  <2> DEFINE E == {Entry(m) : m \in {r.mint : r \in D}}
  <2>1. S = E
    BY DEF TokenRows
  <2> HIDE DEF S
  <2> QED
    BY <2>1 DEF Whois, WalletTopTokensByVolume, Ranked
<1>8. \E f \in SetToSeqs(S) : \A i, j \in DOMAIN f : i < j => f[i].volume >= f[j].volume
  <2>1. key \in [S -> Int]
    BY <1>6
  <2>2. PICK f : Descends(f, S, key)
    <3> HIDE DEF key, S
    <3> QED
      BY <1>5, <2>1, DescentExists
  <2>3. f \in SetToSeqs(S) /\ \A i, j \in DOMAIN f : i < j => key[f[i]] >= key[f[j]]
    BY <2>2 DEF Descends
  <2>4. \A i \in DOMAIN f : f[i] \in S
    BY <2>3 DEF SetToSeqs
  <2>5. \A i, j \in DOMAIN f : i < j => f[i].volume >= f[j].volume
    BY <2>3, <2>4
  <2> QED
    BY <2>3, <2>5
<1>9. ranked \in SetToSeqs(S)
  <2> HIDE DEF S
  <2> QED
    BY <1>8
<1> HIDE DEF ranked, S, M, Entry
<1>10. /\ ranked \in Seq(S) /\ Len(ranked) = Cardinality(M)
       /\ \A i, j \in 1..Len(ranked) : i # j => ranked[i] # ranked[j]
       /\ \A x \in S : \E i \in 1..Len(ranked) : ranked[i] = x
  BY <1>5, <1>9, DescentTakesAll
<1>11. /\ Len(top) = IF Cardinality(M) <= TokenLimit THEN Cardinality(M) ELSE TokenLimit
       /\ DOMAIN top = 1..Len(top)
       /\ \A i \in 1..Len(top) : top[i] = ranked[i]
       /\ Cardinality(M) <= TokenLimit => top = ranked
  <2>1. Len(ranked) <= TokenLimit <=> Cardinality(M) <= TokenLimit
    BY <1>10
  <2> QED
    BY <1>2, <1>7, <1>10, <2>1, LimitedIs
<1>12. \A i \in 1..Len(top) : i \in 1..Len(ranked) /\ top[i] \in S
  <2>1. Len(top) \in Nat /\ Len(top) <= Len(ranked)
    BY <1>2, <1>10, <1>11
  <2> QED
    BY <1>10, <1>11, <2>1
<1>13. top \in Seq(S)
  <2>1. Min({Len(ranked), TokenLimit}) \in 0..Len(ranked)
    <3>1. Len(ranked) \in Nat
      BY <1>10
    <3> QED
      BY <1>2, <3>1 DEF Min
  <2>2. \A n \in 0..Len(ranked) : SubSeq(ranked, 1, n) \in Seq(S)
    BY <1>10
  <2> QED
    BY <1>7, <2>1, <2>2 DEF Limited
<1>14. \A i, j \in 1..Len(top) : i # j => top[i].mint # top[j].mint
  BY <1>3, <1>10, <1>11, <1>12
<1>15. Cardinality(M) <= TokenLimit =>
          \A m \in M : \E i \in 1..Len(top) : top[i].mint = m
  BY <1>4, <1>10, <1>11
<1> QED
  BY <1>2, <1>11, <1>13, <1>14, <1>15 DEF S, M, Lists

\* TotalLamports is the total of the amounts.
LEMMA LamportsAreTotals ==
    ASSUME NEW D, IsFiniteSet(D), D \subseteq Row
    PROVE  /\ [r \in D |-> r.sol] \in [D -> Nat]
           /\ \A X \in SUBSET D : TotalLamports(X) = Total([r \in D |-> r.sol], X)
<1> DEFINE f == [r \in D |-> r.sol]
<1>1. f \in [D -> Nat]
  BY DEF Row
<1>2. ASSUME NEW X \in SUBSET D PROVE TotalLamports(X) = Total(f, X)
  <2>1. [r \in X |-> r.sol] = [x \in X |-> f[x]]
    OBVIOUS
  <2> QED
    BY <2>1 DEF TotalLamports, Total
<1> QED
  BY <1>1, <1>2

\* Some of the parts are no more than all.
LEMMA TotalOfSome ==
    ASSUME NEW D, IsFiniteSet(D), D \subseteq Row, NEW L \in SUBSET D
    PROVE  TotalLamports(L) <= TotalLamports(D)
<1> DEFINE f == [r \in D |-> r.sol]
<1>1. f \in [D -> Nat] /\ \A X \in SUBSET D : TotalLamports(X) = Total(f, X)
  BY LamportsAreTotals
<1> HIDE DEF f
<1>2. PICK g \in [SUBSET D -> Nat] : Totals(g, f, D)
  BY <1>1, TotalSums
<1>3. Splits(g, D) /\ \A X \in SUBSET D : Total(f, X) = g[X]
  BY <1>1, <1>2, SumOfUnion DEF Totals
<1>4. g[L \cup (D \ L)] = g[L] + g[D \ L]
  <2>1. D \ L \in SUBSET D /\ L \cap (D \ L) = {}
    OBVIOUS
  <2> QED
    BY <1>3, <2>1 DEF Splits
<1>5. L \cup (D \ L) = D /\ D \in SUBSET D /\ D \ L \in SUBSET D
  OBVIOUS
<1>6. g[L] \in Nat /\ g[D \ L] \in Nat /\ g[D] = g[L] + g[D \ L]
  BY <1>4, <1>5
<1>7. g[L] <= g[D]
  BY <1>6
<1> QED
  BY <1>1, <1>3, <1>5, <1>7

\* The volumes a page lists add up to that of the rows of its tokens.
LEMMA VolumeOfPage ==
    ASSUME TypeOK, NEW window, NEW w, NEW D, D = Mine(DB, now, InTicks(window), w),
           NEW top, top = Whois(window, w).top
    PROVE  SumFunction([i \in DOMAIN top |-> top[i].volume])
              = TotalLamports(ListedRows(top, D))
<1> DEFINE L == ListedRows(top, D)
           f == [r \in L |-> r.sol]
           K == 1..Len(top)
           key == [r \in L |-> CHOOSE i \in K : top[i].mint = r.mint]
           part == [i \in K |-> top[i].volume]
<1>1. IsFiniteSet(L) /\ L \subseteq Row /\ L \subseteq D
  <2>1. L \subseteq DB /\ L \subseteq D
    BY DEF Mine, Since, ListedRows
  <2> HIDE DEF L
  <2> QED
    BY <2>1, StoredRows, FS_Subset
<1>2. /\ top \in Seq(TokenRows(D))
      /\ \A i, j \in K : i # j => top[i].mint # top[j].mint
      /\ \A r \in L : \E i \in K : top[i].mint = r.mint
      /\ \A i \in K : {r \in D : r.mint = top[i].mint} = {r \in L : r.mint = top[i].mint}
  <2>1. Lists(top, D)
    BY TopIs
  <2>2. /\ \A r \in L : \E i \in K : top[i].mint = r.mint
        /\ \A i \in K : {r \in D : r.mint = top[i].mint} = {r \in L : r.mint = top[i].mint}
    BY DEF ListedRows
  <2> QED
    BY <2>1, <2>2 DEF Lists
<1>3. DOMAIN top = K /\ Len(top) \in Nat
  BY <1>2
<1>4. f \in [L -> Nat] /\ \A X \in SUBSET L : TotalLamports(X) = Total(f, X)
  <2> HIDE DEF L
  <2> QED
    BY <1>1, LamportsAreTotals
<1>5. \A r \in L : \A i \in K : (CHOOSE j \in K : top[j].mint = r.mint) = i <=> top[i].mint = r.mint
  <2> HIDE DEF L
  <2> TAKE r \in L
  <2>1. \E j \in K : top[j].mint = r.mint
    BY <1>2
  <2> HIDE DEF K
  <2> QED
    BY <1>2, <2>1
<1>6. key \in [L -> K]
  <2>1. \A r \in L : \E i \in K : top[i].mint = r.mint
    BY <1>2
  <2> HIDE DEF K, L
  <2> QED
    BY <2>1
<1>7. \A i \in K : /\ top[i].volume = TotalLamports({r \in L : r.mint = top[i].mint})
                   /\ top[i].volume \in Nat
  <2> TAKE i \in K
  <2>1. top[i] \in TokenRows(D)
    BY <1>2
  <2>2. PICK m : /\ top[i].mint = m
                 /\ top[i].volume = TotalLamports({r \in D : r.mint = m})
    <3> DEFINE Entry(m) == [mint |-> m, volume |-> TotalLamports({r \in D : r.mint = m}),
                            trades |-> Cardinality({r \in D : r.mint = m})]
    <3>1. PICK m : top[i] = Entry(m)
      BY <2>1 DEF TokenRows
    <3>2. Entry(m).mint = m /\ Entry(m).volume = TotalLamports({r \in D : r.mint = m})
      OBVIOUS
    <3> HIDE DEF Entry
    <3>3. top[i].mint = m
      BY <3>1, <3>2
    <3>4. top[i].volume = TotalLamports({r \in D : r.mint = m})
      BY <3>1, <3>2
    <3> QED
      BY <3>3, <3>4
  <2> DEFINE X == {r \in L : r.mint = m}
  <2>3. X \subseteq L /\ X = {r \in D : r.mint = m}
    BY <1>2, <2>2
  <2> HIDE DEF X, L
  <2>4. TotalLamports(X) \in Nat
    <3>1. IsFiniteSet(X) /\ X \subseteq Row
      BY <1>1, <2>3, FS_Subset
    <3> QED
      BY <3>1, AmountsType
  <2> QED
    BY <2>2, <2>3, <2>4 DEF X
<1>8. part \in [K -> Nat]
  BY <1>7
<1>9. PartsTotal(part, f, L, K, key)
  <2>1. ASSUME NEW i \in K PROVE part[i] = Total(f, {r \in L : key[r] = i})
    <3> DEFINE X == {r \in L : r.mint = top[i].mint}
    <3>1. {r \in L : key[r] = i} = X
      <4>1. \A r \in L : key[r] = i <=> r.mint = top[i].mint
        BY <1>5
      <4> HIDE DEF key
      <4> QED
        BY <4>1
    <3>2. part[i] = TotalLamports(X)
      BY <1>7
    <3>3. X \in SUBSET L
      OBVIOUS
    <3> HIDE DEF X, f, part, key, L
    <3> QED
      BY <1>4, <3>1, <3>2, <3>3
  <2> HIDE DEF f, part, key, K, L
  <2> QED
    BY <2>1 DEF PartsTotal
<1>10. part = [i \in K |-> part[i]]
  OBVIOUS
<1>11. SumFunction([i \in DOMAIN top |-> top[i].volume]) = SumFunction(part)
  BY <1>3
<1>12. IsFiniteSet(K)
  BY <1>3, FS_Interval
<1> HIDE DEF f, part, key, K, L
<1>13. Total(part, K) = Total(f, L)
  BY <1>1, <1>4, <1>6, <1>8, <1>9, <1>12, TotalOfParts
<1>14. SumFunction(part) = Total(part, K)
  BY <1>10 DEF Total
<1>15. TotalLamports(L) = Total(f, L)
  <2>1. L \in SUBSET L
    OBVIOUS
  <2> QED
    BY <1>4, <2>1
<1> QED
  BY <1>11, <1>13, <1>14, <1>15 DEF L

\* The totals over all wallets are those of the rows: of the amounts and of their count.
LEMMA ByWallet ==
    ASSUME NEW D, IsFiniteSet(D), D \subseteq Row
    PROVE  /\ SumFunction([w \in Traders |-> TotalLamports(Of(D, w))]) = TotalLamports(D)
           /\ SumFunction([w \in Traders |-> Cardinality(Of(D, w))]) = Cardinality(D)
<1> DEFINE key == [r \in D |-> r.trader]
<1>1. IsFiniteSet(Traders) /\ key \in [D -> Traders]
  BY StatsAssumption DEF Row
<1>2. \A w : Of(D, w) \in SUBSET D /\ {r \in D : key[r] = w} = Of(D, w)
  BY DEF Of
<1>3. \A w : IsFiniteSet(Of(D, w)) /\ Of(D, w) \subseteq Row
  BY <1>2, FS_Subset
<1>4. D \in SUBSET D
  OBVIOUS
<1> HIDE DEF key
<1>5. ASSUME NEW f \in [D -> Nat], NEW part \in [Traders -> Nat],
             \A w \in Traders : part[w] = Total(f, Of(D, w))
      PROVE  SumFunction(part) = Total(f, D)
  <2>1. PartsTotal(part, f, D, Traders, key)
    BY <1>2, <1>5 DEF PartsTotal
  <2>2. Total(part, Traders) = Total(f, D)
    BY <1>1, <2>1, TotalOfParts
  <2>3. part = [w \in Traders |-> part[w]]
    OBVIOUS
  <2> QED
    BY <2>2, <2>3 DEF Total
<1>6. SumFunction([w \in Traders |-> TotalLamports(Of(D, w))]) = TotalLamports(D)
  <2> DEFINE f == [r \in D |-> r.sol]
             part == [w \in Traders |-> TotalLamports(Of(D, w))]
  <2>1. f \in [D -> Nat] /\ \A X \in SUBSET D : TotalLamports(X) = Total(f, X)
    BY LamportsAreTotals
  <2>2. \A w \in Traders : part[w] = Total(f, Of(D, w))
    BY <1>2, <2>1
  <2>3. part \in [Traders -> Nat]
    BY <1>3, AmountsType
  <2> HIDE DEF f, part
  <2>4. SumFunction(part) = Total(f, D)
    BY <1>5, <2>1, <2>2, <2>3
  <2> QED
    BY <1>4, <2>1, <2>4 DEF part
<1>7. SumFunction([w \in Traders |-> Cardinality(Of(D, w))]) = Cardinality(D)
  <2> DEFINE f == [r \in D |-> 1]
             part == [w \in Traders |-> Cardinality(Of(D, w))]
  <2>1. f \in [D -> Nat]
    OBVIOUS
  <2>2. \A X \in SUBSET D : Total(f, X) = Cardinality(X)
    BY TotalOfOnes
  <2>3. \A w \in Traders : part[w] = Total(f, Of(D, w))
    BY <1>2, <2>2
  <2>4. part \in [Traders -> Nat]
    BY <1>3, FS_CardinalityType
  <2> HIDE DEF f, part
  <2>5. SumFunction(part) = Total(f, D)
    BY <1>5, <2>1, <2>3, <2>4
  <2> QED
    BY <1>4, <2>2, <2>5 DEF part
<1> QED
  BY <1>6, <1>7

\* The hottest token has a row within the hour.
LEMMA HottestHasRow ==
    ASSUME TypeOK, Stats.hottest # << >>
    PROVE  \E r \in DB : r.at >= now - HourTicks
<1> DEFINE W == Since(DB, now, HourTicks)
           In(m) == {r \in W : r.mint = m}
           S == {[mint |-> m, trades |-> Cardinality(In(m))] : m \in {r.mint : r \in W}}
           ranked == CHOOSE f \in SetToSeqs(S) :
                        \A i, j \in DOMAIN f : i < j => f[i].trades >= f[j].trades
<1>1. SUFFICES ASSUME W = {} PROVE FALSE
  BY DEF Since
<1>2. S = {}
  BY <1>1
<1>3. Stats.hottest = Limited(ranked, 1)
  <2> HIDE DEF W
  <2> QED
    BY DEF Stats, HottestToken1h, Ranked, W
<1>4. IsFiniteSet({}) /\ Cardinality({}) = 0
  BY FS_EmptySet
<1> HIDE DEF S
<1>5. << >> \in SetToSeqs(S) /\ \A i, j \in DOMAIN << >> : i < j => << >>[i].trades >= << >>[j].trades
  BY <1>2, <1>4 DEF SetToSeqs
<1>6. ranked \in SetToSeqs(S)
  BY <1>5
<1> HIDE DEF ranked
<1>7. ranked \in Seq(S) /\ Len(ranked) = 0
  BY <1>2, <1>4, <1>6, DescentTakesAll
<1>8. Limited(ranked, 1) = ranked /\ ranked = << >>
  <2>1. 1 \in Nat /\ Len(ranked) <= 1
    BY <1>7
  <2>2. Limited(ranked, 1) = ranked
    BY <1>7, <2>1, LimitedIs
  <2> QED
    BY <1>7, <2>2
<1> QED
  BY <1>3, <1>8

\* LastTradeAt is the time of some row and of none earlier than another.
LEMMA LastIsLatest ==
    ASSUME NEW D, IsFiniteSet(D), D \subseteq Row
    PROVE  LastTradeAt(D) \in Nat /\ \A r \in D : r.at <= LastTradeAt(D)
<1> DEFINE T == {r.at : r \in D} \cup {0}
           key == [t \in T |-> -t]
<1>1. T \subseteq Nat /\ 0 \in T
  BY DEF Row
<1>2. IsFiniteSet(T)
  <2> DEFINE A == {r.at : r \in D}
             g == [r \in D |-> r.at]
  <2>1. g \in Surjection(D, A)
    BY DEF Surjection
  <2> HIDE DEF g, A
  <2>2. IsFiniteSet(A) /\ IsFiniteSet({0})
    BY <2>1, FS_Surjection, FS_Singleton
  <2>3. IsFiniteSet(A \cup {0})
    BY <2>2, FS_Union
  <2> QED
    BY <2>3 DEF A
<1>3. \A r \in D : r.at \in T
  OBVIOUS
<1>4. LastTradeAt(D) = Max(T)
  BY DEF LastTradeAt
<1>5. key \in [T -> Int] /\ \A t \in T : key[t] = -t
  BY <1>1
<1> HIDE DEF T, key
<1>6. PICK t \in T : \A u \in T : key[t] <= key[u]
  BY <1>1, <1>2, <1>5, LeastKey
<1>7. \A u \in T : t >= u
  BY <1>1, <1>5, <1>6
<1>8. Max(T) \in T /\ \A u \in T : Max(T) >= u
  BY <1>7 DEF Max
<1> QED
  BY <1>1, <1>3, <1>4, <1>8

\* Buys and sells are some of the trades.
LEMMA SidesAreTrades ==
    ASSUME NEW D, IsFiniteSet(D)
    PROVE  Cardinality({r \in D : r.side = "buy"}) + Cardinality({r \in D : r.side = "sell"})
              <= Cardinality(D)
<1> DEFINE B == {r \in D : r.side = "buy"}
           S == {r \in D : r.side = "sell"}
<1>1. IsFiniteSet(B) /\ IsFiniteSet(S)
  BY FS_Subset
<1>2. B \cap S = {} /\ (B \cup S) \subseteq D
  OBVIOUS
<1> HIDE DEF B, S
<1>3. Cardinality(B) \in Nat /\ Cardinality(S) \in Nat /\ Cardinality({}) = 0
  BY <1>1, FS_CardinalityType, FS_EmptySet
<1>4. Cardinality(B \cup S) = Cardinality(B) + Cardinality(S) - Cardinality(B \cap S)
  BY <1>1, FS_Union
<1>5. Cardinality(B \cup S) <= Cardinality(D) /\ Cardinality(D) \in Nat
  BY <1>2, FS_Subset, FS_CardinalityType
<1>6. Cardinality(B) + Cardinality(S) <= Cardinality(D)
  <2>1. Cardinality(B \cap S) = 0
    BY <1>2, <1>3
  <2> QED
    BY <1>3, <1>4, <1>5, <2>1
<1> QED
  BY <1>6 DEF B, S

LEMMA StatsAgree ==
    ASSUME TypeOK
    PROVE  StatsMatchWhois
<1> DEFINE W == Since(DB, now, TicksPerDay)
           Page(w) == Whois(1, w)
           Volume(top) == SumFunction([i \in DOMAIN top |-> top[i].volume])
           Listed == SumFunction([w \in Traders |-> Volume(Page(w).top)])
<1>1. InTicks(1) = TicksPerDay
  BY TableAssumption DEF InTicks
<1>2. IsFiniteSet(W) /\ W \subseteq Row /\ W \subseteq DB /\ IsFiniteSet(DB) /\ DB \subseteq Row
  <2>1. W \subseteq DB
    BY DEF Since
  <2> HIDE DEF W
  <2> QED
    BY <2>1, StoredRows, FS_Subset
<1>3. \A w : Mine(DB, now, InTicks(1), w) = Of(W, w)
  BY <1>1 DEF Mine, Of
<1>4. \A w : IsFiniteSet(Of(W, w)) /\ Of(W, w) \subseteq W
  <2> HIDE DEF W
  <2>1. \A w : Of(W, w) \subseteq W
    BY DEF Of
  <2> QED
    BY <1>2, <2>1, FS_Subset
<1>5. \A w : Page(w).count = Cardinality(Of(W, w))
  BY <1>3 DEF Whois, WalletTradeCount
<1>6. Stats.volume = TotalLamports(W)
  BY DEF Stats, Volume24h
<1>6a. /\ Listed <= Stats.volume
       /\ (\A w \in Traders : Page(w).tokens <= TokenLimit) => Listed = Stats.volume
  <2> DEFINE L == {r \in W : r \in ListedRows(Page(r.trader).top, Of(W, r.trader))}
  <2>1. ASSUME NEW w
        PROVE  Volume(Page(w).top) = TotalLamports(Of(L, w))
    <3> DEFINE top == Page(w).top
    <3>1. SumFunction([i \in DOMAIN top |-> top[i].volume])
             = TotalLamports(ListedRows(top, Of(W, w)))
      BY <1>3, VolumeOfPage
    <3> HIDE DEF W, Page
    <3>2. ListedRows(top, Of(W, w)) = Of(L, w)
      BY DEF ListedRows, Of
    <3> QED
      BY <3>1, <3>2
  <2>2. L \in SUBSET W
    OBVIOUS
  <2>3. \A w \in Traders : Page(w).tokens <= TokenLimit =>
           ListedRows(Page(w).top, Of(W, w)) = Of(W, w)
    <3> SUFFICES ASSUME NEW w \in Traders, Page(w).tokens <= TokenLimit
                 PROVE  ListedRows(Page(w).top, Of(W, w)) = Of(W, w)
      OBVIOUS
    <3>1. Lists(Page(w).top, Of(W, w))
      BY <1>3, TopIs
    <3>2. Page(w).tokens = Cardinality({r.mint : r \in Of(W, w)})
      BY <1>3 DEF Whois, WalletDistinctPumpTokens
    <3> HIDE DEF W, Page
    <3> QED
      BY <3>1, <3>2 DEF Lists, ListedRows
  <2>4. IsFiniteSet(L) /\ L \subseteq Row
    <3> HIDE DEF L, W
    <3> QED
      BY <1>2, <2>2, FS_Subset
  <2>5. \A r \in W : r.trader \in Traders /\ r \in Of(W, r.trader)
    <3> HIDE DEF W
    <3> QED
      BY <1>2 DEF Of, Row
  <2>6. Listed = SumFunction([w \in Traders |-> TotalLamports(Of(L, w))])
    <3>1. [w \in Traders |-> Volume(Page(w).top)] = [w \in Traders |-> TotalLamports(Of(L, w))]
      <4> HIDE DEF W, L, Volume, Page
      <4> QED
        BY <2>1
    <3> HIDE DEF W, L, Volume, Page
    <3> QED
      BY <3>1
  <2>7. Listed = TotalLamports(L)
    <3> HIDE DEF W, L, Page, Listed
    <3> QED
      BY <2>4, <2>6, ByWallet
  <2>8. TotalLamports(L) <= TotalLamports(W)
    <3> HIDE DEF W, L
    <3> QED
      BY <1>2, <2>2, TotalOfSome
  <2>9. (\A w \in Traders : Page(w).tokens <= TokenLimit) => L = W
    <3> HIDE DEF W, Page
    <3> QED
      BY <2>3, <2>5
  <2> HIDE DEF L, W, Page, Listed
  <2> QED
    BY <1>6, <2>7, <2>8, <2>9
<1>7. Stats.active = Cardinality({w \in Traders : Page(w).count > 0})
  <2> DEFINE A == {r.trader : r \in W}
  <2>1. Stats.active = Cardinality(A)
    BY DEF Stats, ActiveWallets24h
  <2> HIDE DEF W
  <2>2. \A w : Cardinality(Of(W, w)) > 0 <=> Of(W, w) # {}
    BY <1>4, FS_CardinalityType, FS_EmptySet
  <2>3. A = {w \in Traders : Of(W, w) # {}}
    BY <1>2 DEF Of, Row
  <2> HIDE DEF A, Page
  <2>4. A = {w \in Traders : Page(w).count > 0}
    BY <1>5, <2>2, <2>3
  <2> QED
    BY <2>1, <2>4
<1>8. Stats.active <= WalletCount(DB)
  <2> DEFINE A == {r.trader : r \in W}
             B == {r.trader : r \in DB}
  <2>1. Stats.active = Cardinality(A) /\ WalletCount(DB) = Cardinality(B)
    BY DEF Stats, ActiveWallets24h, WalletCount
  <2>2. A \subseteq B
    BY <1>2
  <2>3. IsFiniteSet(B)
    BY <1>2, NamesFinite
  <2> HIDE DEF A, B
  <2> QED
    BY <2>1, <2>2, <2>3, FS_Subset
<1>9. Stats.ratio.buys + Stats.ratio.sells <= SumFunction([w \in Traders |-> Page(w).count])
  <2>1. /\ Stats.ratio.buys = Cardinality({r \in W : r.side = "buy"})
        /\ Stats.ratio.sells = Cardinality({r \in W : r.side = "sell"})
    BY DEF Stats, BuySellRatio24h
  <2> HIDE DEF W
  <2>2. Stats.ratio.buys + Stats.ratio.sells <= Cardinality(W)
    BY <1>2, <2>1, SidesAreTrades
  <2>3. SumFunction([w \in Traders |-> Cardinality(Of(W, w))]) = Cardinality(W)
    BY <1>2, ByWallet
  <2> HIDE DEF Page
  <2>4. [w \in Traders |-> Page(w).count] = [w \in Traders |-> Cardinality(Of(W, w))]
    BY <1>5
  <2> QED
    BY <2>2, <2>3, <2>4
<1>10. \A w \in Traders : Len(Page(w).top) = Min({Page(w).tokens, TokenLimit})
  <2> TAKE w \in Traders
  <2> DEFINE D == Mine(DB, now, InTicks(1), w)
             tokens == Cardinality({r.mint : r \in D})
  <2>1. Lists(Page(w).top, D)
    BY TopIs
  <2>2. Page(w).tokens = tokens
    BY DEF Whois, WalletDistinctPumpTokens
  <2> HIDE DEF D, Page
  <2>3. /\ tokens \in Nat
        /\ Len(Page(w).top) = IF tokens <= TokenLimit THEN tokens ELSE TokenLimit
    BY <2>1 DEF Lists
  <2>4. Min({tokens, TokenLimit}) = IF tokens <= TokenLimit THEN tokens ELSE TokenLimit
    <3>1. TokenLimit \in Nat
      BY StatsAssumption
    <3> HIDE DEF tokens
    <3> QED
      BY <2>3, <3>1 DEF Min
  <2> QED
    BY <2>2, <2>3, <2>4
<1>11. Stats.hottest # << >> => LastTradeAt(DB) >= now - HourTicks
  <2>1. HAVE Stats.hottest # << >>
  <2>2. PICK r \in DB : r.at >= now - HourTicks
    BY <2>1, HottestHasRow
  <2>3. LastTradeAt(DB) \in Nat /\ r.at <= LastTradeAt(DB)
    BY <1>2, LastIsLatest
  <2>4. r.at \in Nat /\ now \in Nat /\ HourTicks \in Int
    BY <1>2, StoredRows, StatsAssumption, TableAssumption DEF Row
  <2> QED
    BY <2>2, <2>3, <2>4
<1> HIDE DEF W
<1> QED
  BY <1>6a, <1>7, <1>8, <1>9, <1>10, <1>11 DEF StatsMatchWhois

\* The answers of top, stats and whois agree with each other at any moment, for any
\* table, windows and limits (queries.go:22-58 against whois_queries.go and
\* stats_queries.go): two SQL statements of one profit, and two ways to add up trades,
\* whatever number of tokens a page has room for (whois.go:78).
THEOREM PagesAlwaysAgree == Spec => []PagesAgree
<1>1. TypeOK => PagesAgree
  BY BoardAgrees, StatsAgree DEF PagesAgree
<1> QED
  BY <1>1, TypeCorrect, PTL
=============================================================================
