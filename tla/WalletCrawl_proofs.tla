-------------------------- MODULE WalletCrawl_proofs --------------------------
(***************************************************************************)
(* What holds of a crawl for every page size, limit, number of wallets and *)
(* number of crawlers; at the end, that a crawl whose requests fail is a   *)
(* crawl all the same.                                                     *)
(***************************************************************************)
EXTENDS CrawlFetch, TLAPS

-----------------------------------------------------------------------------
(* The inductive invariant.                                                *)

\* page is what is left of a page that ends above transaction next.
Contiguous(page, next) ==
    \A i \in 1..Len(page) : page[i] = next + Len(page) + 1 - i

\* The readable transactions that were there when the backfill of w began, and
\* lie above left, have been visited.
Visited(w, left) == Readable(covered[w]) \ (1..left) \subseteq seen[w]

\* Run c still has to visit the transactions up to Bottom(c).
Bottom(c) ==
    LET r == run[c]
    IN  CASE r.pc = "fetch"    -> r.offset
          [] r.pc = "tx"       -> r.next + Len(r.page)
          [] r.pc = "classify" -> r.next + Len(r.page) - 1
          [] r.pc = "advance"  -> r.next
          [] OTHER             -> 0

\* A run has a wallet, may count the page it is in, and leaves "tx" with a
\* transaction.
TypeInv ==
    /\ TypeOK
    /\ \A c \in Crawlers :
          /\ (run[c].pc = "idle") = (run[c].wallet = NoWallet)
          /\ run[c].pc \in {"fetch", "tx", "classify", "advance", "stop"} =>
                run[c].pages < MaxPagesPerRun
          /\ run[c].pc \in {"classify", "stop"} => run[c].page # << >>

\* A page lies below the head of its wallet, its first transaction is marked seen
\* when the run has left "tx" for it, and only the first page of a backfill is
\* fetched before its wallet is covered.
RunInv(c) ==
    LET r == run[c]
    IN  /\ r.pc = "fetch" => r.offset <= head[r.wallet]
        /\ r.pc \in {"tx", "classify", "advance", "stop"} =>
              /\ Contiguous(r.page, r.next)
              /\ r.next + Len(r.page) <= head[r.wallet]
        /\ r.pc \in {"classify", "stop"} => Head(r.page) \in seen[r.wallet]
        /\ r.pc = "advance" => r.page = << >>
        /\ r.pc # "idle" =>
              /\ ~r.backfill => complete[r.wallet]
              /\ r.backfill => r.pc # "stop"
              /\ (r.pc = "fetch" /\ r.offset = 0) \/ covered[r.wallet] # -1

WalletInv(w) ==
    /\ covered[w] <= head[w]
    /\ nextOffset[w] <= head[w]
    /\ seen[w] \subseteq 1..head[w]
    /\ covered[w] = -1 => seen[w] = {} /\ ~complete[w] /\ nextOffset[w] = 0

\* BackfillCovers, and what the pause between two runs of a backfill rests on.
WalletCover(w) ==
    /\ complete[w] => Visited(w, 0)
    /\ ~complete[w] /\ nextOffset[w] # 0 => Visited(w, nextOffset[w])

\* What a run of a backfill has visited.
RunCover(c) ==
    /\ run[c].pc # "idle" /\ run[c].backfill
    /\ run[c].pc \in {"tx", "classify", "advance", "finish"} \/ Bottom(c) # 0
    => Visited(run[c].wallet, Bottom(c))

CoverInv ==
    /\ \A w \in Wallets : WalletCover(w)
    /\ \A c \in Crawlers : RunCover(c)

\* Crawler c has the edges of transaction t of w in memory, or is about to.
Holds(c, w, t) ==
    /\ run[c].wallet = w
    /\ t \in run[c].edges \/ (run[c].pc = "classify" /\ t = Head(run[c].page))

\* When a run has edges in memory, and of what transactions.
RunEdge(c) ==
    LET r == run[c]
        w == r.wallet
    IN  /\ r.pc \in {"idle", "fetch", "finish"} => r.edges = {}
        /\ r.pc = "pause" /\ r.backfill => r.edges = {}
        /\ r.pc = "advance" => r.edges \subseteq graph[w]
        /\ r.pc # "idle" /\ ~r.backfill =>
              /\ \A t \in r.edges : t > covered[w]
              /\ r.pc = "classify" => Head(r.page) > covered[w]

\* BackfillStoresEdges, with where the edges are until they are stored.
WalletEdge(w) ==
    ~aborted[w] =>
       \A t \in seen[w] : t <= covered[w] /\ Kind[t] = "transfer" =>
          t \in graph[w] \/ \E c \in Crawlers : Holds(c, w, t)

EdgeInv ==
    /\ \A c \in Crawlers : RunEdge(c)
    /\ \A w \in Wallets : WalletEdge(w)

\* No readable transaction below a seen one is unseen, but for those that a walk
\* down from the head has not reached: the ones up to left.
Gapless(w, left) ==
    \A t \in seen[w] : Readable(t) \ (IF t > left THEN 1..left ELSE {}) \subseteq seen[w]

\* Run c is on its way down to the transactions up to Left(c).
Left(c) == IF run[c].pc = "pause" THEN nextOffset[run[c].wallet] ELSE Bottom(c)

\* NoGaps, for a wallet that only one crawler at a time was ever at work on.
WalletGap(w) ==
    ~overlapped[w] =>
       /\ \A c, d \in Crawlers : run[c].wallet = w /\ run[d].wallet = w => c = d
       /\ \A c \in Crawlers : run[c].wallet = w /\ run[c].pc = "fetch" =>
             run[c].offset = nextOffset[w]
       /\ ~aborted[w] =>
             /\ Resting(w) => Gapless(w, nextOffset[w])
             /\ \A c \in Crawlers : run[c].wallet = w => Gapless(w, Left(c))

GapInv == \A w \in Wallets : WalletGap(w)

WalkInv ==
    /\ \A c \in Crawlers : RunInv(c)
    /\ \A w \in Wallets : WalletInv(w)

-----------------------------------------------------------------------------
(* Pages.                                                                  *)

\* A page goes down to the transaction above the one the next page starts with.
LEMMA PageLemma ==
    ASSUME NEW top \in 0..MaxTx
    PROVE  /\ PageFrom(top) \in Seq(Txs)
           /\ NextOf(top) \in 0..MaxTx
           /\ NextOf(top) + Len(PageFrom(top)) = top
           /\ Contiguous(PageFrom(top), NextOf(top))
<1> DEFINE n == IF top < PageLimit THEN top ELSE PageLimit
<1>1. n \in Nat /\ n <= top /\ top \in Nat /\ top <= MaxTx /\ MaxTx \in Nat
  BY CrawlAssumption
<1>2. /\ PageFrom(top) = [i \in 1..n |-> top - i + 1]
      /\ \A i \in 1..n : top - i + 1 \in Txs
  BY <1>1 DEF PageFrom, Txs
<1>3. PageFrom(top) \in Seq(Txs) /\ Len(PageFrom(top)) = n
  <2> HIDE DEF n
  <2>1. QED
    BY <1>1, <1>2
<1>4. NextOf(top) \in 0..MaxTx /\ NextOf(top) + n = top
  BY <1>1, CrawlAssumption DEF NextOf
<1>5. QED
  BY <1>1, <1>2, <1>3, <1>4 DEF Contiguous

\* Its first transaction and the rest of it.
LEMMA TailLemma ==
    ASSUME NEW page \in Seq(Txs), page # << >>, NEW next \in 0..MaxTx
    PROVE  /\ Tail(page) \in Seq(Txs)
           /\ Len(Tail(page)) = Len(page) - 1
           /\ Len(page) \in Nat \ {0}
           /\ Head(page) \in Txs
           /\ Contiguous(page, next) =>
                 Contiguous(Tail(page), next) /\ Head(page) = next + Len(page)
<1>1. /\ Tail(page) \in Seq(Txs)
      /\ Len(page) \in Nat \ {0}
      /\ Len(Tail(page)) = Len(page) - 1
      /\ \A i \in 1..(Len(page) - 1) : Tail(page)[i] = page[i + 1]
      /\ Head(page) = page[1] /\ Head(page) \in Txs
  OBVIOUS
<1>2. ASSUME Contiguous(page, next) PROVE Contiguous(Tail(page), next)
  <2>1. \A i \in 1..(Len(page) - 1) : page[i + 1] = next + Len(page) - i
    BY <1>1, <1>2, CrawlAssumption DEF Contiguous
  <2>2. QED
    BY <1>1, <2>1, CrawlAssumption DEF Contiguous
<1>3. QED
  BY <1>1, <1>2, CrawlAssumption DEF Contiguous

\* The sequence of completed wallets stays one.
LEMMA MovedToEndLemma ==
    ASSUME order \in Seq(Wallets), NEW w \in Wallets
    PROVE  MovedToEnd(w) \in Seq(Wallets)
<1> DEFINE k == CHOOSE i \in 1..Len(order) : order[i] = w
<1>1. CASE w \in Completed
  <2>1. k \in 1..Len(order)
    BY <1>1 DEF Completed
  <2>2. SubSeq(order, 1, k - 1) \in Seq(Wallets)
    <3> HIDE DEF k
    <3>1. QED
      BY <2>1
  <2>3. SubSeq(order, k + 1, Len(order)) \in Seq(Wallets)
    <3> HIDE DEF k
    <3>1. QED
      BY <2>1
  <2>4. QED
    BY <1>1, <2>2, <2>3 DEF MovedToEnd, RemoveAt
<1>2. CASE w \notin Completed
  BY <1>2 DEF MovedToEnd
<1>3. QED
  BY <1>1, <1>2

-----------------------------------------------------------------------------
(* Types.                                                                  *)

Runs == [pc : Steps, wallet : Wallets \cup {NoWallet}, backfill : BOOLEAN, offset : 0..MaxTx,
         old : 0..StopAfterSeen, pages : 0..MaxPagesPerRun, page : Seq(Txs), next : 0..MaxTx,
         edges : SUBSET Txs]

\* What an action needs to know of its crawler.
LEMMA AtWork ==
    ASSUME TypeInv, NEW c \in Crawlers, run[c].pc # "idle"
    PROVE  run[c] \in Runs /\ run[c].wallet \in Wallets
BY DEF TypeInv, TypeOK, Runs

\* A step of c keeps the types if its own run and the tables keep theirs.
LEMMA TypeOfStep ==
    ASSUME TypeInv, NEW c \in Crawlers, NEW r \in Runs,
           run' = [run EXCEPT ![c] = r],
           (r.pc = "idle") = (r.wallet = NoWallet),
           r.pc \in {"fetch", "tx", "classify", "advance", "stop"} => r.pages < MaxPagesPerRun,
           r.pc \in {"classify", "stop"} => r.page # << >>,
           head' = head, queued' = queued,
           complete' \in [Wallets -> BOOLEAN],
           nextOffset' \in [Wallets -> 0..MaxTx],
           order' \in Seq(Wallets),
           seen' \in [Wallets -> SUBSET Txs],
           graph' \in [Wallets -> SUBSET Txs],
           covered' \in [Wallets -> -1..MaxTx],
           aborted' \in [Wallets -> BOOLEAN],
           overlapped' \in [Wallets -> BOOLEAN]
    PROVE  TypeInv'
<1>1. run \in [Crawlers -> Runs] /\ run' \in [Crawlers -> Runs]
  BY DEF TypeInv, TypeOK, Runs
<1>2. \A d \in Crawlers : run'[d] = IF d = c THEN r ELSE run[d]
  BY <1>1
<1>3. TypeOK'
  BY <1>1 DEF TypeInv, TypeOK, Runs
<1>4. QED
  BY <1>2, <1>3 DEF TypeInv

\* The types hold in every step of every run, and no run fetches more pages than
\* it may.
LEMMA TypeStep == TypeInv /\ [Next]_vars => TypeInv'
<1> SUFFICES ASSUME TypeInv, [Next]_vars PROVE TypeInv'
  OBVIOUS
<1> USE CrawlAssumption
<1>t. /\ head \in [Wallets -> 0..MaxTx] /\ queued \subseteq Wallets
      /\ complete \in [Wallets -> BOOLEAN] /\ nextOffset \in [Wallets -> 0..MaxTx]
      /\ order \in Seq(Wallets)
      /\ seen \in [Wallets -> SUBSET Txs] /\ graph \in [Wallets -> SUBSET Txs]
      /\ covered \in [Wallets -> -1..MaxTx]
      /\ aborted \in [Wallets -> BOOLEAN] /\ overlapped \in [Wallets -> BOOLEAN]
  BY DEF TypeInv, TypeOK
<1>n. NoRun \in Runs /\ NoRun.pc = "idle" /\ NoRun.wallet = NoWallet /\ NoRun.pages = 0
  BY DEF NoRun, Runs, Steps, Txs
<1>1. ASSUME NEW w \in Wallets, NewTx(w) PROVE TypeInv'
  BY <1>1 DEF NewTx, TypeInv, TypeOK, tables, history
<1>2. CASE SyncWalletQueue
  BY <1>2 DEF SyncWalletQueue, TypeInv, TypeOK, history
<1>3. ASSUME NEW c \in Crawlers, NEW w \in Wallets, PickNextWallet(c, w) PROVE TypeInv'
  <2> DEFINE r == [NoRun EXCEPT !.pc = "fetch", !.wallet = w, !.backfill = ~complete[w],
                                !.offset = nextOffset[w]]
  <2>1. /\ r \in Runs
        /\ r.pc # "idle" /\ r.wallet # NoWallet /\ r.pages < MaxPagesPerRun
        /\ r.pc \notin {"classify", "stop"}
    <3>1. nextOffset[w] \in 0..MaxTx
      BY <1>t
    <3>2. r \in Runs
      BY <1>n, <3>1 DEF Runs, Steps
    <3>3. QED
      BY <1>n, <3>2 DEF Runs
  <2>2. overlapped' \in [Wallets -> BOOLEAN]
    BY <1>3, <1>t DEF PickNextWallet
  <2>3. run' = [run EXCEPT ![c] = r]
    BY <1>3 DEF PickNextWallet
  <2> HIDE DEF r
  <2>4. QED
    BY <1>3, <1>t, <2>1, <2>2, <2>3, TypeOfStep DEF PickNextWallet, tables
<1>4. ASSUME NEW c \in Crawlers, GetTransactions(c) PROVE TypeInv'
  <2> DEFINE r == [run[c] EXCEPT !.pc = "tx", !.page = PageFrom(Top(c)), !.next = NextOf(Top(c)),
                                 !.edges = {}]
  <2>1. run[c].pc = "fetch" /\ run[c] \in Runs /\ run[c].wallet \in Wallets
    BY <1>4, AtWork DEF GetTransactions, TakePage
  <2>2. Top(c) \in 0..MaxTx
    BY <1>t, <2>1 DEF Top, Runs
  <2>3. r \in Runs /\ r.pc = "tx" /\ r.wallet = run[c].wallet /\ r.pages = run[c].pages
    BY <2>1, <2>2, PageLemma DEF Runs, Steps
  <2>4. run' = [run EXCEPT ![c] = r]
    BY <1>4, <2>1 DEF GetTransactions, TakePage, TypeInv, TypeOK
  <2>5. covered' \in [Wallets -> -1..MaxTx]
    BY <1>4, <1>t, <2>1 DEF GetTransactions, TakePage
  <2>6. r.pages < MaxPagesPerRun
    BY <2>1, <2>3 DEF TypeInv
  <2> HIDE DEF r
  <2>7. QED
    BY ZenonT(30), <1>4, <1>t, <2>1, <2>3, <2>4, <2>5, <2>6, TypeOfStep DEF GetTransactions, TakePage, tables
<1>5. ASSUME NEW c \in Crawlers, SkipMalformed(c) PROVE TypeInv'
  <2> DEFINE r == [run[c] EXCEPT !.page = Tail(@)]
  <2>1. /\ run[c].pc = "tx" /\ run[c] \in Runs /\ run[c].wallet \in Wallets
        /\ run[c].page \in Seq(Txs) /\ run[c].page # << >>
    BY <1>5, AtWork DEF SkipMalformed, AtTx, Runs
  <2>2. Tail(run[c].page) \in Seq(Txs) /\ Head(run[c].page) \in Txs
    BY <2>1
  <2>3. r \in Runs /\ r.pc = "tx" /\ r.wallet = run[c].wallet /\ r.pages = run[c].pages
    BY <2>1, <2>2 DEF Runs
  <2>4. run' = [run EXCEPT ![c] = r]
    BY <1>5, <2>1 DEF SkipMalformed, TypeInv, TypeOK
  <2>5. seen' \in [Wallets -> SUBSET Txs]
    <3>1. WithSeen(run[c].wallet, Head(run[c].page)) \in [Wallets -> SUBSET Txs]
      BY <1>t, <2>1, <2>2 DEF WithSeen
    <3>2. QED
      BY <1>5, <1>t, <3>1 DEF SkipMalformed
  <2>6. r.pages < MaxPagesPerRun
    BY <2>1, <2>3 DEF TypeInv
  <2> HIDE DEF r
  <2>7. QED
    BY <1>5, <1>t, <2>1, <2>3, <2>4, <2>5, <2>6, TypeOfStep DEF SkipMalformed, history
<1>6. ASSUME NEW c \in Crawlers, MarkSeen(c) PROVE TypeInv'
  <2>1. /\ run[c].pc = "tx" /\ run[c] \in Runs /\ run[c].wallet \in Wallets
        /\ run[c].page \in Seq(Txs) /\ run[c].page # << >>
    BY <1>6, AtWork DEF MarkSeen, AtTx, Runs
  <2>2. Tail(run[c].page) \in Seq(Txs) /\ Head(run[c].page) \in Txs
    BY <2>1
  <2>3. seen' \in [Wallets -> SUBSET Txs]
    BY <1>6, <1>t, <2>1, <2>2 DEF MarkSeen, WithSeen
  <2>4. PICK r \in Runs : /\ run' = [run EXCEPT ![c] = r]
                          /\ r.pc \in {"tx", "classify", "stop"}
                          /\ r.wallet = run[c].wallet /\ r.pages = run[c].pages
                          /\ r.pc \in {"classify", "stop"} => r.page # << >>
    <3>0. 0 \in 0..StopAfterSeen
      OBVIOUS
    <3>1. [run[c] EXCEPT !.pc = "classify", !.old = 0] \in Runs
      BY <2>1, <3>0 DEF Runs, Steps
    <3>2. [run[c] EXCEPT !.pc = "stop"] \in Runs
      BY <2>1 DEF Runs, Steps
    <3>3. [run[c] EXCEPT !.page = Tail(@)] \in Runs
      BY <2>1, <2>2 DEF Runs
    <3>4. ASSUME run[c].old + 1 < StopAfterSeen
          PROVE  [[run[c] EXCEPT !.page = Tail(@)] EXCEPT !.old = @ + 1] \in Runs
      <4>1. run[c].old + 1 \in 0..StopAfterSeen
        BY <2>1, <3>4 DEF Runs
      <4>2. QED
        BY <2>1, <2>2, <4>1 DEF Runs
    <3>5. CASE Head(run[c].page) \notin seen[run[c].wallet]
      BY <1>6, <2>1, <3>1, <3>5 DEF MarkSeen, Runs
    <3>6. CASE Head(run[c].page) \in seen[run[c].wallet] /\ run[c].backfill
      BY <1>6, <2>1, <3>3, <3>6 DEF MarkSeen, Runs
    <3>7. CASE /\ Head(run[c].page) \in seen[run[c].wallet] /\ ~run[c].backfill
               /\ run[c].old + 1 >= StopAfterSeen
      BY <1>6, <2>1, <3>2, <3>7 DEF MarkSeen, Runs
    <3>8. CASE /\ Head(run[c].page) \in seen[run[c].wallet] /\ ~run[c].backfill
               /\ ~(run[c].old + 1 >= StopAfterSeen)
      <4>1. run[c].old + 1 < StopAfterSeen
        BY <2>1, <3>8 DEF Runs
      <4>2. QED
        BY <1>6, <2>1, <3>4, <3>8, <4>1 DEF MarkSeen, Runs
    <3>9. QED
      BY <3>5, <3>6, <3>7, <3>8
  <2>5. r.pages < MaxPagesPerRun
    BY <2>1, <2>4 DEF TypeInv
  <2>6. QED
    BY <1>6, <1>t, <2>1, <2>3, <2>4, <2>5, TypeOfStep DEF MarkSeen, history
<1>7. ASSUME NEW c \in Crawlers, Classify(c) PROVE TypeInv'
  <2>1. /\ run[c].pc = "classify" /\ run[c] \in Runs /\ run[c].wallet \in Wallets
        /\ run[c].page \in Seq(Txs) /\ run[c].page # << >>
    BY <1>7, AtWork DEF Classify, Runs, TypeInv
  <2> DEFINE t == Head(run[c].page)
             edges == IF Kind[t] = "transfer" THEN run[c].edges \cup {t} ELSE run[c].edges
             r == [run[c] EXCEPT !.pc = "tx", !.page = Tail(@), !.edges = edges]
  <2>2. Tail(run[c].page) \in Seq(Txs) /\ t \in Txs
    BY <2>1
  <2>3. edges \in SUBSET Txs
    BY <2>1, <2>2 DEF Runs
  <2>4. run' = [run EXCEPT ![c] = r]
    BY <1>7, <2>1 DEF Classify, TypeInv, TypeOK
  <2> HIDE DEF edges
  <2>5. r \in Runs /\ r.pc = "tx" /\ r.wallet = run[c].wallet /\ r.pages = run[c].pages
    BY <2>1, <2>2, <2>3 DEF Runs, Steps
  <2>6. r.pages < MaxPagesPerRun
    BY <2>1, <2>5 DEF TypeInv
  <2> HIDE DEF r
  <2>7. QED
    BY <1>7, <1>t, <2>1, <2>4, <2>5, <2>6, TypeOfStep DEF Classify, tables, history
<1>8. ASSUME NEW c \in Crawlers, UpsertEdges(c) PROVE TypeInv'
  <2>1. run[c].pc = "tx" /\ run[c] \in Runs /\ run[c].wallet \in Wallets
    BY <1>8, AtWork DEF UpsertEdges
  <2> DEFINE r == [run[c] EXCEPT !.pc = "advance"]
  <2>2. r \in Runs /\ r.pc = "advance" /\ r.wallet = run[c].wallet /\ r.pages = run[c].pages
    BY <2>1 DEF Runs, Steps
  <2>3. run' = [run EXCEPT ![c] = r]
    BY <1>8, <2>1 DEF UpsertEdges, TypeInv, TypeOK
  <2>4. graph' \in [Wallets -> SUBSET Txs]
    BY <1>8, <1>t, <2>1 DEF UpsertEdges, Runs
  <2>5. r.pages < MaxPagesPerRun
    BY <2>1, <2>2 DEF TypeInv
  <2> HIDE DEF r
  <2>6. QED
    BY <1>8, <1>t, <2>1, <2>2, <2>3, <2>4, <2>5, TypeOfStep DEF UpsertEdges, history
<1>9. ASSUME NEW c \in Crawlers, Advance(c) PROVE TypeInv'
  <2>1. /\ run[c].pc = "advance" /\ run[c] \in Runs /\ run[c].wallet \in Wallets
        /\ run[c].next \in 0..MaxTx /\ run[c].pages \in 0..(MaxPagesPerRun - 1)
    BY <1>9, AtWork DEF Advance, Runs, TypeInv
  <2> DEFINE pages == run[c].pages + 1
             pc == IF run[c].next = 0 THEN "finish"
                   ELSE IF pages < MaxPagesPerRun THEN "fetch" ELSE "pause"
             r == [run[c] EXCEPT !.pages = pages, !.edges = {}, !.offset = run[c].next, !.pc = pc]
  <2>2. /\ pages \in 0..MaxPagesPerRun /\ pc \in {"finish", "fetch", "pause"}
        /\ pc = "fetch" => pages < MaxPagesPerRun
    BY <2>1
  <2>3. run' = [run EXCEPT ![c] = r]
    BY <1>9, <2>1 DEF Advance, TypeInv, TypeOK
  <2> HIDE DEF pages, pc
  <2>4. r \in Runs /\ r.pc = pc /\ r.wallet = run[c].wallet /\ r.pages = pages
    BY <2>1, <2>2 DEF Runs, Steps
  <2>5. nextOffset' \in [Wallets -> 0..MaxTx]
    BY <1>9, <1>t, <2>1 DEF Advance, UpdateCrawlState
  <2>6. /\ r.pc # "idle" /\ r.wallet # NoWallet
        /\ r.pc \notin {"tx", "classify", "advance", "stop"}
        /\ r.pc = "fetch" => r.pages < MaxPagesPerRun
    BY <2>1, <2>2, <2>4
  <2> HIDE DEF r
  <2>7. QED
    BY <1>9, <1>t, <2>3, <2>4, <2>5, <2>6, TypeOfStep DEF Advance, history
<1>10. ASSUME NEW c \in Crawlers, StopEarly(c) PROVE TypeInv'
  <2>1. run[c].pc = "stop" /\ run[c] \in Runs /\ run[c].wallet \in Wallets
    BY <1>10, AtWork DEF StopEarly
  <2> DEFINE r == [run[c] EXCEPT !.pc = "pause"]
  <2>2. r \in Runs /\ r.pc = "pause" /\ r.wallet = run[c].wallet
    BY <2>1 DEF Runs, Steps
  <2>3. run' = [run EXCEPT ![c] = r]
    BY <1>10, <2>1 DEF StopEarly, TypeInv, TypeOK
  <2>4. nextOffset' \in [Wallets -> 0..MaxTx]
    BY <1>10, <1>t, <2>1 DEF StopEarly, UpdateCrawlState
  <2> HIDE DEF r
  <2>5. QED
    BY <1>10, <1>t, <2>1, <2>2, <2>3, <2>4, TypeOfStep DEF StopEarly, history
<1>11. ASSUME NEW c \in Crawlers, CompleteWallet(c) PROVE TypeInv'
  <2>1. run[c].pc \in {"pause", "finish"} /\ run[c].wallet \in Wallets
    BY <1>11, AtWork DEF CompleteWallet
  <2>2. /\ complete' \in [Wallets -> BOOLEAN]
        /\ nextOffset' \in [Wallets -> 0..MaxTx]
    BY <1>11, <1>t, <2>1 DEF CompleteWallet
  <2>3. order' \in Seq(Wallets)
    BY <1>11, <1>t, <2>1, MovedToEndLemma DEF CompleteWallet
  <2>4. QED
    BY <1>11, <1>t, <1>n, <2>2, <2>3, TypeOfStep DEF CompleteWallet, history
<1>12. ASSUME NEW c \in Crawlers, Abort(c) PROVE TypeInv'
  <2>1. aborted' \in [Wallets -> BOOLEAN]
    BY <1>12, <1>t DEF Abort
  <2>2. QED
    BY <1>12, <1>t, <1>n, <2>1, TypeOfStep DEF Abort, tables
<1>13. CASE UNCHANGED vars
  BY <1>13 DEF vars, tables, history, TypeInv, TypeOK
<1>14. QED
  BY <1>1, <1>2, <1>3, <1>4, <1>5, <1>6, <1>7, <1>8, <1>9, <1>10, <1>11, <1>12, <1>13 DEF Next, Crawl

-----------------------------------------------------------------------------
(* What each action of a crawler does, field by field.                     *)

\* Only c moves: the runs of the other crawlers stay.
OnlyRun(c) == \A d \in Crawlers \ {c} : run'[d] = run[d]

\* Only the entry of w may change.
OnlyAt(w, f, g) == \A v \in Wallets \ {w} : g[v] = f[v]

LEMMA AfterPick ==
    ASSUME TypeInv, NEW c \in Crawlers, NEW w \in Wallets, PickNextWallet(c, w)
    PROVE  /\ run[c].pc = "idle" /\ OnlyRun(c)
           /\ run'[c].pc = "fetch" /\ run'[c].wallet = w /\ run'[c].backfill = ~complete[w]
           /\ run'[c].offset = nextOffset[w] /\ run'[c].edges = {}
           /\ \A v \in Wallets : overlapped'[v] =
                 (overlapped[v] \/ (v = w /\ \E d \in Crawlers : run[d].wallet = w))
           /\ UNCHANGED <<head, complete, nextOffset, seen, graph, covered, aborted>>
<1> DEFINE r == [NoRun EXCEPT !.pc = "fetch", !.wallet = w, !.backfill = ~complete[w],
                              !.offset = nextOffset[w]]
<1>1. run[c].pc = "idle" /\ run' = [run EXCEPT ![c] = r]
  BY DEF PickNextWallet
<1>2. run'[c] = r /\ OnlyRun(c)
  BY <1>1 DEF TypeInv, TypeOK, OnlyRun
<1>3. /\ r.pc = "fetch" /\ r.wallet = w /\ r.backfill = ~complete[w]
      /\ r.offset = nextOffset[w] /\ r.edges = {}
  BY DEF NoRun
<1>4. \A v \in Wallets : overlapped'[v] =
         (overlapped[v] \/ (v = w /\ \E d \in Crawlers : run[d].wallet = w))
  BY DEF PickNextWallet, TypeInv, TypeOK
<1>5. QED
  BY <1>1, <1>2, <1>3, <1>4 DEF PickNextWallet, tables

LEMMA AfterGet ==
    ASSUME TypeInv, NEW c \in Crawlers, GetTransactions(c)
    PROVE  LET r == run[c]
               w == run[c].wallet
               s == run'[c]
           IN  /\ r.pc = "fetch" /\ OnlyRun(c)
               /\ s.pc = "tx" /\ s.wallet = w /\ s.backfill = r.backfill
               /\ s.page \in Seq(Txs) /\ s.next \in 0..MaxTx /\ s.edges = {}
               /\ Contiguous(s.page, s.next)
               /\ s.next + Len(s.page) = IF r.offset = 0 THEN head[w] ELSE r.offset
               /\ OnlyAt(w, covered, covered')
               /\ covered'[w] = IF r.backfill /\ r.offset = 0 /\ covered[w] = -1
                                THEN head[w] ELSE covered[w]
               /\ UNCHANGED <<head, complete, nextOffset, seen, graph, aborted, overlapped>>
<1> DEFINE w == run[c].wallet
<1>1. run[c].pc = "fetch" /\ run[c] \in Runs /\ w \in Wallets
  BY AtWork DEF GetTransactions, TakePage
<1>2. Top(c) \in 0..MaxTx /\ Top(c) = IF run[c].offset = 0 THEN head[w] ELSE run[c].offset
  BY <1>1 DEF Top, Runs, TypeInv, TypeOK
<1>3. /\ OnlyRun(c)
      /\ run'[c] = [run[c] EXCEPT !.pc = "tx", !.page = PageFrom(Top(c)),
                                  !.next = NextOf(Top(c)), !.edges = {}]
  BY <1>1 DEF GetTransactions, TakePage, TypeInv, TypeOK, OnlyRun
<1>4. /\ run'[c].pc = "tx" /\ run'[c].wallet = w /\ run'[c].backfill = run[c].backfill
      /\ run'[c].page = PageFrom(Top(c)) /\ run'[c].next = NextOf(Top(c)) /\ run'[c].edges = {}
  BY <1>1, <1>3 DEF Runs
<1>5. /\ OnlyAt(w, covered, covered')
      /\ covered'[w] = IF run[c].backfill /\ run[c].offset = 0 /\ covered[w] = -1
                       THEN head[w] ELSE covered[w]
  BY <1>1 DEF GetTransactions, TakePage, TypeInv, TypeOK, OnlyAt
<1>6. QED
  BY <1>1, <1>2, <1>3, <1>4, <1>5, PageLemma DEF GetTransactions, TakePage, tables

LEMMA AfterSkip ==
    ASSUME TypeInv, NEW c \in Crawlers, SkipMalformed(c)
    PROVE  LET r == run[c]
               w == run[c].wallet
               s == run'[c]
               t == Head(run[c].page)
           IN  /\ r.pc = "tx" /\ r.page # << >> /\ Kind[t] = "malformed" /\ OnlyRun(c)
               /\ s.pc = "tx" /\ s.page = Tail(r.page)
               /\ s.wallet = w /\ s.backfill = r.backfill /\ s.next = r.next /\ s.edges = r.edges
               /\ OnlyAt(w, seen, seen')
               /\ seen[w] \subseteq seen'[w] /\ seen'[w] \subseteq seen[w] \cup {t}
               /\ UNCHANGED <<head, complete, nextOffset, graph, covered, aborted, overlapped>>
<1> DEFINE w == run[c].wallet
           t == Head(run[c].page)
<1>1. /\ run[c].pc = "tx" /\ run[c].page # << >> /\ Kind[t] = "malformed"
      /\ run[c] \in Runs /\ w \in Wallets
  BY AtWork DEF SkipMalformed, AtTx
<1>2. OnlyRun(c) /\ run'[c] = [run[c] EXCEPT !.page = Tail(@)]
  BY DEF SkipMalformed, TypeInv, TypeOK, OnlyRun
<1>3. /\ run'[c].pc = "tx" /\ run'[c].page = Tail(run[c].page)
      /\ run'[c].wallet = w /\ run'[c].backfill = run[c].backfill
      /\ run'[c].next = run[c].next /\ run'[c].edges = run[c].edges
  BY <1>1, <1>2 DEF Runs
<1>4. /\ OnlyAt(w, seen, seen')
      /\ seen[w] \subseteq seen'[w] /\ seen'[w] \subseteq seen[w] \cup {t}
  <2>1. CASE seen' = seen
    BY <2>1 DEF OnlyAt
  <2>2. CASE seen' = WithSeen(w, t)
    BY <1>1, <2>2 DEF WithSeen, OnlyAt, TypeInv, TypeOK
  <2>3. QED
    BY <2>1, <2>2 DEF SkipMalformed
<1>5. QED
  BY <1>1, <1>2, <1>3, <1>4 DEF SkipMalformed, history

LEMMA AfterMark ==
    ASSUME TypeInv, NEW c \in Crawlers, MarkSeen(c)
    PROVE  LET r == run[c]
               w == run[c].wallet
               s == run'[c]
               t == Head(run[c].page)
           IN  /\ r.pc = "tx" /\ r.page # << >> /\ Kind[t] # "malformed" /\ OnlyRun(c)
               /\ \/ t \notin seen[w] /\ s.pc = "classify" /\ s.page = r.page
                  \/ t \in seen[w] /\ s.pc = "tx" /\ s.page = Tail(r.page)
                  \/ t \in seen[w] /\ s.pc = "stop" /\ s.page = r.page /\ ~r.backfill
               /\ s.wallet = w /\ s.backfill = r.backfill /\ s.next = r.next /\ s.edges = r.edges
               /\ OnlyAt(w, seen, seen')
               /\ seen'[w] = seen[w] \cup {t}
               /\ UNCHANGED <<head, complete, nextOffset, graph, covered, aborted, overlapped>>
<1> DEFINE w == run[c].wallet
           t == Head(run[c].page)
<1>1. /\ run[c].pc = "tx" /\ run[c].page # << >> /\ Kind[t] # "malformed"
      /\ run[c] \in Runs /\ w \in Wallets
  BY AtWork DEF MarkSeen, AtTx
<1>2. /\ OnlyRun(c)
      /\ run'[c] = IF t \notin seen[w] THEN [run[c] EXCEPT !.pc = "classify", !.old = 0]
                   ELSE IF run[c].backfill THEN [run[c] EXCEPT !.page = Tail(@)]
                   ELSE IF run[c].old + 1 >= StopAfterSeen THEN [run[c] EXCEPT !.pc = "stop"]
                   ELSE [[run[c] EXCEPT !.page = Tail(@)] EXCEPT !.old = @ + 1]
  BY DEF MarkSeen, TypeInv, TypeOK, OnlyRun
<1>3. /\ \/ t \notin seen[w] /\ run'[c].pc = "classify" /\ run'[c].page = run[c].page
         \/ t \in seen[w] /\ run'[c].pc = "tx" /\ run'[c].page = Tail(run[c].page)
         \/ /\ t \in seen[w] /\ run'[c].pc = "stop" /\ run'[c].page = run[c].page
            /\ ~run[c].backfill
      /\ run'[c].wallet = w /\ run'[c].backfill = run[c].backfill
      /\ run'[c].next = run[c].next /\ run'[c].edges = run[c].edges
  <2>1. CASE t \notin seen[w]
    BY <1>1, <1>2, <2>1 DEF Runs
  <2>2. CASE t \in seen[w] /\ run[c].backfill
    BY <1>1, <1>2, <2>2 DEF Runs
  <2>3. CASE t \in seen[w] /\ ~run[c].backfill /\ run[c].old + 1 >= StopAfterSeen
    BY <1>1, <1>2, <2>3 DEF Runs
  <2>4. CASE t \in seen[w] /\ ~run[c].backfill /\ ~(run[c].old + 1 >= StopAfterSeen)
    BY <1>1, <1>2, <2>4 DEF Runs
  <2>5. QED
    BY <2>1, <2>2, <2>3, <2>4
<1>4. OnlyAt(w, seen, seen') /\ seen'[w] = seen[w] \cup {t}
  BY <1>1 DEF MarkSeen, WithSeen, OnlyAt, TypeInv, TypeOK
<1>5. QED
  BY <1>1, <1>2, <1>3, <1>4 DEF MarkSeen, history

LEMMA AfterClassify ==
    ASSUME TypeInv, NEW c \in Crawlers, Classify(c)
    PROVE  LET r == run[c]
               s == run'[c]
               t == Head(run[c].page)
           IN  /\ r.pc = "classify" /\ r.page # << >> /\ OnlyRun(c)
               /\ s.pc = "tx" /\ s.page = Tail(r.page)
               /\ s.wallet = r.wallet /\ s.backfill = r.backfill /\ s.next = r.next
               /\ s.edges = IF Kind[t] = "transfer" THEN r.edges \cup {t} ELSE r.edges
               /\ UNCHANGED <<head, complete, nextOffset, seen, graph, covered, aborted, overlapped>>
<1>1. run[c].pc = "classify" /\ run[c].page # << >> /\ run[c] \in Runs
  BY AtWork DEF Classify, TypeInv
<1> DEFINE t == Head(run[c].page)
           edges == IF Kind[t] = "transfer" THEN run[c].edges \cup {t} ELSE run[c].edges
<1>2. OnlyRun(c) /\ run'[c] = [run[c] EXCEPT !.pc = "tx", !.page = Tail(@), !.edges = edges]
  BY DEF Classify, TypeInv, TypeOK, OnlyRun
<1> HIDE DEF edges
<1>3. /\ run'[c].pc = "tx" /\ run'[c].page = Tail(run[c].page)
      /\ run'[c].wallet = run[c].wallet /\ run'[c].backfill = run[c].backfill
      /\ run'[c].next = run[c].next /\ run'[c].edges = edges
  BY <1>1, <1>2 DEF Runs
<1>4. QED
  BY <1>1, <1>2, <1>3 DEF Classify, tables, history, edges

LEMMA AfterUpsert ==
    ASSUME TypeInv, NEW c \in Crawlers, UpsertEdges(c)
    PROVE  LET r == run[c]
               w == run[c].wallet
               s == run'[c]
           IN  /\ r.pc = "tx" /\ r.page = << >> /\ OnlyRun(c)
               /\ s.pc = "advance" /\ s.page = r.page
               /\ s.wallet = w /\ s.backfill = r.backfill /\ s.next = r.next /\ s.edges = r.edges
               /\ OnlyAt(w, graph, graph')
               /\ graph'[w] = graph[w] \cup r.edges
               /\ UNCHANGED <<head, complete, nextOffset, seen, covered, aborted, overlapped>>
<1>1. run[c].pc = "tx" /\ run[c].page = << >> /\ run[c] \in Runs /\ run[c].wallet \in Wallets
  BY AtWork DEF UpsertEdges
<1>2. OnlyRun(c) /\ run'[c] = [run[c] EXCEPT !.pc = "advance"]
  BY DEF UpsertEdges, TypeInv, TypeOK, OnlyRun
<1>3. /\ run'[c].pc = "advance" /\ run'[c].page = run[c].page
      /\ run'[c].wallet = run[c].wallet /\ run'[c].backfill = run[c].backfill
      /\ run'[c].next = run[c].next /\ run'[c].edges = run[c].edges
  BY <1>1, <1>2 DEF Runs
<1>4. /\ OnlyAt(run[c].wallet, graph, graph')
      /\ graph'[run[c].wallet] = graph[run[c].wallet] \cup run[c].edges
  BY <1>1 DEF UpsertEdges, OnlyAt, TypeInv, TypeOK
<1>5. QED
  BY <1>1, <1>2, <1>3, <1>4 DEF UpsertEdges, history

LEMMA AfterAdvance ==
    ASSUME TypeInv, NEW c \in Crawlers, Advance(c)
    PROVE  LET r == run[c]
               w == run[c].wallet
               s == run'[c]
           IN  /\ r.pc = "advance" /\ OnlyRun(c)
               /\ \/ s.pc = "finish" /\ r.next = 0
                  \/ s.pc \in {"fetch", "pause"} /\ r.next # 0
               /\ s.wallet = w /\ s.backfill = r.backfill /\ s.offset = r.next /\ s.edges = {}
               /\ OnlyAt(w, nextOffset, nextOffset')
               /\ nextOffset'[w] = r.next
               /\ UNCHANGED <<head, complete, seen, graph, covered, aborted, overlapped>>
<1> DEFINE pc == IF run[c].next = 0 THEN "finish"
                 ELSE IF run[c].pages + 1 < MaxPagesPerRun THEN "fetch" ELSE "pause"
<1>1. run[c].pc = "advance" /\ run[c] \in Runs /\ run[c].wallet \in Wallets
  BY AtWork DEF Advance
<1>2. /\ OnlyRun(c)
      /\ run'[c] = [run[c] EXCEPT !.pages = run[c].pages + 1, !.edges = {},
                                  !.offset = run[c].next, !.pc = pc]
  BY DEF Advance, TypeInv, TypeOK, OnlyRun
<1>3. \/ pc = "finish" /\ run[c].next = 0
      \/ pc \in {"fetch", "pause"} /\ run[c].next # 0
  OBVIOUS
<1> HIDE DEF pc
<1>4. /\ run'[c].pc = pc /\ run'[c].wallet = run[c].wallet /\ run'[c].backfill = run[c].backfill
      /\ run'[c].offset = run[c].next /\ run'[c].edges = {}
  BY <1>1, <1>2 DEF Runs
<1>5. /\ OnlyAt(run[c].wallet, nextOffset, nextOffset')
      /\ nextOffset'[run[c].wallet] = run[c].next
  BY <1>1 DEF Advance, UpdateCrawlState, OnlyAt, TypeInv, TypeOK
<1>6. QED
  BY <1>1, <1>2, <1>3, <1>4, <1>5 DEF Advance, history

LEMMA AfterStop ==
    ASSUME TypeInv, NEW c \in Crawlers, StopEarly(c)
    PROVE  LET r == run[c]
               w == run[c].wallet
               s == run'[c]
           IN  /\ r.pc = "stop" /\ OnlyRun(c)
               /\ s.pc = "pause" /\ s.wallet = w /\ s.backfill = r.backfill /\ s.edges = r.edges
               /\ OnlyAt(w, nextOffset, nextOffset')
               /\ nextOffset'[w] = 0
               /\ UNCHANGED <<head, complete, seen, graph, covered, aborted, overlapped>>
<1>1. run[c].pc = "stop" /\ run[c] \in Runs /\ run[c].wallet \in Wallets
  BY AtWork DEF StopEarly
<1>2. OnlyRun(c) /\ run'[c] = [run[c] EXCEPT !.pc = "pause"]
  BY DEF StopEarly, TypeInv, TypeOK, OnlyRun
<1>3. /\ run'[c].pc = "pause" /\ run'[c].wallet = run[c].wallet
      /\ run'[c].backfill = run[c].backfill /\ run'[c].edges = run[c].edges
  BY <1>1, <1>2 DEF Runs
<1>4. OnlyAt(run[c].wallet, nextOffset, nextOffset') /\ nextOffset'[run[c].wallet] = 0
  BY <1>1 DEF StopEarly, UpdateCrawlState, OnlyAt, TypeInv, TypeOK
<1>5. QED
  BY <1>1, <1>2, <1>3, <1>4 DEF StopEarly, history

LEMMA AfterComplete ==
    ASSUME TypeInv, NEW c \in Crawlers, CompleteWallet(c)
    PROVE  LET r == run[c]
               w == run[c].wallet
           IN  /\ r.pc \in {"pause", "finish"} /\ OnlyRun(c) /\ run'[c] = NoRun
               /\ OnlyAt(w, complete, complete') /\ OnlyAt(w, nextOffset, nextOffset')
               /\ \/ /\ r.pc = "pause"
                     /\ complete'[w] = complete[w] /\ nextOffset'[w] = nextOffset[w]
                  \/ r.pc = "finish" /\ complete'[w] = TRUE /\ nextOffset'[w] = 0
               /\ UNCHANGED <<head, seen, graph, covered, aborted, overlapped>>
<1>1. run[c].pc \in {"pause", "finish"} /\ run[c].wallet \in Wallets
  BY AtWork DEF CompleteWallet
<1>2. OnlyRun(c) /\ run'[c] = NoRun
  BY DEF CompleteWallet, TypeInv, TypeOK, OnlyRun
<1>3. /\ OnlyAt(run[c].wallet, complete, complete')
      /\ OnlyAt(run[c].wallet, nextOffset, nextOffset')
  BY <1>1 DEF CompleteWallet, OnlyAt, TypeInv, TypeOK
<1>4. CASE run[c].pc = "pause"
  BY <1>1, <1>2, <1>3, <1>4 DEF CompleteWallet, TypeInv, TypeOK, history
<1>5. CASE run[c].pc = "finish"
  BY <1>1, <1>2, <1>3, <1>5 DEF CompleteWallet, TypeInv, TypeOK, history
<1>6. QED
  BY <1>1, <1>4, <1>5

LEMMA AfterAbort ==
    ASSUME TypeInv, NEW c \in Crawlers, Abort(c)
    PROVE  LET w == run[c].wallet
           IN  /\ run[c].pc # "idle" /\ OnlyRun(c) /\ run'[c] = NoRun
               /\ OnlyAt(w, aborted, aborted')
               /\ aborted'[w] = (aborted[w] \/ run[c].pc # "fetch")
               /\ UNCHANGED <<head, complete, nextOffset, seen, graph, covered, overlapped>>
<1>1. run[c].pc # "idle" /\ run[c].wallet \in Wallets
  BY AtWork DEF Abort
<1>2. OnlyRun(c) /\ run'[c] = NoRun
  BY DEF Abort, TypeInv, TypeOK, OnlyRun
<1>3. /\ OnlyAt(run[c].wallet, aborted, aborted')
      /\ aborted'[run[c].wallet] = (aborted[run[c].wallet] \/ run[c].pc # "fetch")
  BY <1>1 DEF Abort, OnlyAt, TypeInv, TypeOK
<1>4. QED
  BY <1>1, <1>2, <1>3 DEF Abort, tables

-----------------------------------------------------------------------------
(* Where a run is.                                                         *)

\* What c does to the tables leaves the runs of other crawlers where they are.
LEMMA RunInvKept ==
    ASSUME TypeInv, TypeInv', NEW d \in Crawlers, RunInv(d), run'[d] = run[d],
           \A w \in Wallets : /\ head[w] <= head'[w] /\ seen[w] \subseteq seen'[w]
                              /\ complete[w] => complete'[w]
                              /\ covered[w] # -1 => covered'[w] # -1
    PROVE  RunInv(d)'
<1>1. CASE run[d].pc = "idle"
  BY <1>1 DEF RunInv
<1>2. CASE run[d].pc # "idle"
  <2>1. run[d] \in Runs /\ run[d].wallet \in Wallets
    BY <1>2, AtWork
  <2>2. /\ head[run[d].wallet] \in Nat /\ head'[run[d].wallet] \in Nat
        /\ run[d].offset \in Nat /\ run[d].next \in Nat /\ Len(run[d].page) \in Nat
    BY <2>1 DEF TypeInv, TypeOK, Runs
  <2>3. /\ head[run[d].wallet] <= head'[run[d].wallet]
        /\ seen[run[d].wallet] \subseteq seen'[run[d].wallet]
        /\ complete[run[d].wallet] => complete'[run[d].wallet]
        /\ covered[run[d].wallet] # -1 => covered'[run[d].wallet] # -1
    BY <2>1
  <2>4. run[d].pc = "fetch" => run[d].offset <= head'[run[d].wallet]
    BY <2>2, <2>3 DEF RunInv
  <2>5. run[d].pc \in {"tx", "classify", "advance", "stop"} =>
           /\ Contiguous(run[d].page, run[d].next)
           /\ run[d].next + Len(run[d].page) <= head'[run[d].wallet]
    BY <2>2, <2>3 DEF RunInv
  <2>6. run[d].pc \in {"classify", "stop"} => Head(run[d].page) \in seen'[run[d].wallet]
    BY <2>3 DEF RunInv
  <2>7. /\ run[d].pc = "advance" => run[d].page = << >>
        /\ run[d].pc # "idle" => (run[d].backfill => run[d].pc # "stop")
    BY DEF RunInv
  <2>8. /\ ~run[d].backfill => complete'[run[d].wallet]
        /\ (run[d].pc = "fetch" /\ run[d].offset = 0) \/ covered'[run[d].wallet] # -1
    BY <1>2, <2>3 DEF RunInv
  <2>9. QED
    BY <2>4, <2>5, <2>6, <2>7, <2>8 DEF RunInv, Contiguous
<1>3. QED
  BY <1>1, <1>2

\* An action that touches only one run, and of the tables none but those of w.
LEMMA WalkOfStep ==
    ASSUME TypeInv, TypeInv', WalkInv, NEW c \in Crawlers, OnlyRun(c), RunInv(c)',
           head' = head, NEW w \in Wallets, WalletInv(w)',
           \A v \in Wallets \ {w} : /\ covered'[v] = covered[v] /\ seen'[v] = seen[v]
                                    /\ nextOffset'[v] = nextOffset[v]
                                    /\ complete'[v] = complete[v],
           seen[w] \subseteq seen'[w], complete[w] => complete'[w],
           covered[w] # -1 => covered'[w] # -1
    PROVE  WalkInv'
<1>1. ASSUME NEW d \in Crawlers \ {c} PROVE RunInv(d)'
  <2>1. RunInv(d) /\ run'[d] = run[d]
    BY <1>1 DEF WalkInv, OnlyRun
  <2>2. \A v \in Wallets : /\ head[v] <= head'[v] /\ seen[v] \subseteq seen'[v]
                           /\ complete[v] => complete'[v]
                           /\ covered[v] # -1 => covered'[v] # -1
    <3>1. \A v \in Wallets : head[v] \in Int
      BY CrawlAssumption DEF TypeInv, TypeOK
    <3>2. QED
      BY <3>1
  <2>3. QED
    BY <2>1, <2>2, RunInvKept
<1>2. ASSUME NEW v \in Wallets \ {w} PROVE WalletInv(v)'
  BY <1>2 DEF WalkInv, WalletInv
<1>3. QED
  BY <1>1, <1>2 DEF WalkInv

LEMMA WalkStep == TypeInv /\ TypeInv' /\ WalkInv /\ [Next]_vars => WalkInv'
<1> SUFFICES ASSUME TypeInv, TypeInv', WalkInv, [Next]_vars PROVE WalkInv'
  OBVIOUS
<1> USE CrawlAssumption
<1>t. /\ \A w \in Wallets : /\ head[w] \in 0..MaxTx /\ nextOffset[w] \in 0..MaxTx
                             /\ covered[w] \in -1..MaxTx /\ WalletInv(w)
                             /\ complete[w] \in BOOLEAN
      /\ \A c \in Crawlers : RunInv(c)
  BY DEF TypeInv, TypeOK, WalkInv
<1>1. ASSUME NEW w \in Wallets, NewTx(w) PROVE WalkInv'
  <2>1. \A v \in Wallets : /\ head'[v] \in Nat /\ head[v] <= head'[v]
                           /\ 1..head[v] \subseteq 1..head'[v]
    <3>1. \A v \in Wallets : head'[v] = IF v = w THEN head[v] + 1 ELSE head[v]
      BY <1>1 DEF NewTx, TypeInv, TypeOK
    <3>2. QED
      BY <1>t, <3>1
  <2>2. run' = run /\ UNCHANGED <<seen, complete, covered, nextOffset>>
    BY <1>1 DEF NewTx, tables, history
  <2>3. ASSUME NEW v \in Wallets PROVE WalletInv(v)'
    BY <1>t, <2>1, <2>2 DEF WalletInv
  <2>4. ASSUME NEW c \in Crawlers PROVE RunInv(c)'
    BY <1>t, <2>1, <2>2, RunInvKept
  <2>5. QED
    BY <2>3, <2>4 DEF WalkInv
<1>2. CASE SyncWalletQueue
  BY <1>2 DEF SyncWalletQueue, history, WalkInv, RunInv, WalletInv
<1>3. ASSUME NEW c \in Crawlers, NEW w \in Wallets, PickNextWallet(c, w) PROVE WalkInv'
  <2> USE <1>3, AfterPick
  <2>1. WalletInv(w)'
    BY <1>t DEF WalletInv
  <2>2. nextOffset[w] <= head[w] /\ (nextOffset[w] = 0 \/ covered[w] # -1)
    BY <1>t DEF WalletInv
  <2>3. RunInv(c)'
    <3>1. CASE complete[w] = TRUE
      BY <1>t, <2>2, <3>1 DEF RunInv, WalletInv
    <3>2. CASE complete[w] = FALSE
      BY <2>2, <3>2 DEF RunInv
    <3>3. QED
      BY <1>t, <3>1, <3>2
  <2>4. QED
    BY <2>1, <2>3, WalkOfStep
<1>4. ASSUME NEW c \in Crawlers, GetTransactions(c) PROVE WalkInv'
  <2> USE <1>4, AfterGet
  <2>w. PICK w \in Wallets : w = run[c].wallet
    BY AtWork
  <2>1. run[c].offset <= head[w] /\ run[c].offset \in Nat
    BY <2>w, <1>t, <2>w, AtWork DEF RunInv, Runs
  <2>2. \/ covered'[w] = covered[w]
        \/ covered[w] = -1 /\ covered'[w] = head[w]
    BY <2>w, <2>1
  <2>3. ~run[c].backfill => complete[w]
    BY <2>w, <1>t DEF RunInv
  <2>4. covered'[w] # -1
    BY <2>w, <1>t, <2>1, <2>2, <2>3 DEF RunInv, WalletInv
  <2>5. WalletInv(w)'
    BY <2>w, <1>t, <2>1, <2>2 DEF WalletInv
  <2>6. RunInv(c)'
    BY <2>w, <1>t, <2>1, <2>3, <2>4 DEF RunInv
  <2>7. QED
    BY <2>w, <2>1, <2>2, <2>4, <2>5, <2>6, WalkOfStep DEF OnlyAt
<1>5. ASSUME NEW c \in Crawlers, SkipMalformed(c) \/ MarkSeen(c) PROVE WalkInv'
  <2>w. PICK w \in Wallets : w = run[c].wallet
    <3>1. run[c].pc = "tx"
      BY <1>5, AfterSkip, AfterMark
    <3>2. QED
      BY <3>1, AtWork
  <2>t. PICK t : t = Head(run[c].page)
    OBVIOUS
  <2>1. /\ run[c].pc = "tx" /\ run[c].page # << >> /\ OnlyRun(c)
        /\ \/ run'[c].pc = "tx" /\ run'[c].page = Tail(run[c].page)
           \/ run'[c].pc = "classify" /\ run'[c].page = run[c].page /\ t \in seen'[w]
           \/ /\ run'[c].pc = "stop" /\ run'[c].page = run[c].page /\ t \in seen'[w]
              /\ ~run[c].backfill
        /\ run'[c].wallet = w /\ run'[c].backfill = run[c].backfill /\ run'[c].next = run[c].next
        /\ OnlyAt(w, seen, seen')
        /\ seen[w] \subseteq seen'[w] /\ seen'[w] \subseteq seen[w] \cup {t}
        /\ UNCHANGED <<head, complete, nextOffset, covered>>
    <3>1. CASE SkipMalformed(c)
      BY <2>w, <2>t, <3>1, AfterSkip
    <3>2. CASE MarkSeen(c)
      BY <2>w, <2>t, <3>2, AfterMark
    <3>3. QED
      BY <1>5, <3>1, <3>2
  <2>2. run[c].page \in Seq(Txs) /\ run[c].next \in 0..MaxTx
    BY <2>1, AtWork DEF Runs
  <2>3. /\ Contiguous(run[c].page, run[c].next) /\ run[c].next + Len(run[c].page) <= head[w]
        /\ ~run[c].backfill => complete[w]
        /\ covered[w] # -1
    BY <2>w, <1>t, <2>w, <2>1 DEF RunInv
  <2>4. /\ t = run[c].next + Len(run[c].page) /\ t \in 1..head[w]
        /\ Contiguous(Tail(run[c].page), run[c].next)
        /\ run[c].next + Len(Tail(run[c].page)) <= head[w]
    <3>1. /\ Len(Tail(run[c].page)) = Len(run[c].page) - 1 /\ Len(run[c].page) \in Nat \ {0}
          /\ Contiguous(Tail(run[c].page), run[c].next)
          /\ t = run[c].next + Len(run[c].page)
      BY <2>t, <2>1, <2>2, <2>3, TailLemma
    <3>2. QED
      BY <1>t, <2>2, <2>3, <3>1
  <2>5. WalletInv(w)'
    BY <2>w, <1>t, <2>1, <2>2, <2>3, <2>4 DEF WalletInv
  <2>6. RunInv(c)'
    <3>1. CASE run'[c].pc = "tx" /\ run'[c].page = Tail(run[c].page)
      BY <2>1, <2>3, <2>4, <3>1 DEF RunInv
    <3>2. CASE run'[c].pc = "classify" /\ run'[c].page = run[c].page /\ t \in seen'[w]
      BY <2>t, <2>1, <2>3, <3>2 DEF RunInv
    <3>3. CASE /\ run'[c].pc = "stop" /\ run'[c].page = run[c].page /\ t \in seen'[w]
               /\ ~run[c].backfill
      BY <2>t, <2>1, <2>3, <3>3 DEF RunInv
    <3>4. QED
      BY <2>1, <3>1, <3>2, <3>3
  <2>7. QED
    BY <2>w, <2>1, <2>2, <2>5, <2>6, WalkOfStep DEF OnlyAt
<1>6. ASSUME NEW c \in Crawlers, Classify(c) PROVE WalkInv'
  <2>w. PICK w \in Wallets : w = run[c].wallet
    BY <1>6, AfterClassify, AtWork
  <2>1. /\ run[c].pc = "classify" /\ run[c].page # << >> /\ OnlyRun(c)
        /\ run'[c].pc = "tx" /\ run'[c].page = Tail(run[c].page) /\ run'[c].wallet = w
        /\ run'[c].backfill = run[c].backfill /\ run'[c].next = run[c].next
        /\ UNCHANGED <<head, complete, nextOffset, seen, covered>>
    BY <1>6, <2>w, AfterClassify
  <2>2. run[c].page \in Seq(Txs) /\ run[c].next \in 0..MaxTx
    BY <2>1, AtWork DEF Runs
  <2>3. /\ Contiguous(run[c].page, run[c].next) /\ run[c].next + Len(run[c].page) <= head[w]
        /\ ~run[c].backfill => complete[w]
        /\ covered[w] # -1
    BY <1>t, <2>w, <2>1 DEF RunInv
  <2>4. /\ Contiguous(Tail(run[c].page), run[c].next)
        /\ run[c].next + Len(Tail(run[c].page)) <= head[w]
    <3>1. /\ Len(Tail(run[c].page)) = Len(run[c].page) - 1 /\ Len(run[c].page) \in Nat \ {0}
          /\ Contiguous(Tail(run[c].page), run[c].next)
      BY <2>1, <2>2, <2>3, TailLemma
    <3>2. QED
      BY <1>t, <2>2, <2>3, <3>1
  <2>5. RunInv(c)'
    BY <2>1, <2>3, <2>4 DEF RunInv
  <2>6. WalletInv(w)'
    BY <1>t, <2>1 DEF WalletInv
  <2>7. QED
    BY <2>1, <2>5, <2>6, WalkOfStep
<1>7. ASSUME NEW c \in Crawlers, UpsertEdges(c) PROVE WalkInv'
  <2> USE <1>7, AfterUpsert
  <2>1. PICK w \in Wallets : w = run[c].wallet
    BY AtWork
  <2>2. RunInv(c)'
    BY <2>1, <1>t DEF RunInv
  <2>3. WalletInv(w)'
    BY <2>1, <1>t DEF WalletInv
  <2>4. QED
    BY <2>1, <2>2, <2>3, WalkOfStep
<1>8. ASSUME NEW c \in Crawlers, Advance(c) PROVE WalkInv'
  <2> USE <1>8, AfterAdvance
  <2>w. PICK w \in Wallets : w = run[c].wallet
    BY AtWork
  <2>1. run[c].next \in 0..MaxTx
    BY AtWork DEF Runs
  <2>2. /\ run[c].next <= head[w] /\ covered[w] # -1
        /\ ~run[c].backfill => complete[w]
    BY <2>w, <1>t, <2>1 DEF RunInv
  <2>3. RunInv(c)'
    BY <2>w, <2>2 DEF RunInv
  <2>4. WalletInv(w)'
    BY <2>w, <1>t, <2>1, <2>2 DEF WalletInv
  <2>5. QED
    BY <2>w, <2>1, <2>3, <2>4, WalkOfStep DEF OnlyAt
<1>9. ASSUME NEW c \in Crawlers, StopEarly(c) PROVE WalkInv'
  <2> USE <1>9, AfterStop
  <2>1. PICK w \in Wallets : w = run[c].wallet
    BY AtWork
  <2>2. RunInv(c)'
    BY <2>1, <1>t DEF RunInv
  <2>3. WalletInv(w)'
    BY <2>1, <1>t DEF WalletInv
  <2>4. QED
    BY <2>1, <2>2, <2>3, WalkOfStep DEF OnlyAt
<1>10. ASSUME NEW c \in Crawlers, CompleteWallet(c) PROVE WalkInv'
  <2>1. PICK w \in Wallets : w = run[c].wallet
    BY <1>10, AfterComplete, AtWork
  <2>2. /\ run[c].pc \in {"pause", "finish"} /\ OnlyRun(c) /\ run'[c] = NoRun
        /\ OnlyAt(w, complete, complete') /\ OnlyAt(w, nextOffset, nextOffset')
        /\ complete[w] => complete'[w]
        /\ nextOffset'[w] \in {nextOffset[w], 0}
        /\ UNCHANGED <<head, seen, covered>>
    BY <1>10, <2>1, AfterComplete
  <2>3. RunInv(c)'
    BY <2>2 DEF RunInv, NoRun
  <2>4. covered[w] # -1
    BY <1>t, <2>1, <2>2 DEF RunInv
  <2>5. WalletInv(w)'
    BY <1>t, <2>2, <2>4 DEF WalletInv
  <2>6. QED
    BY <2>2, <2>3, <2>5, WalkOfStep DEF OnlyAt
<1>11. ASSUME NEW c \in Crawlers, Abort(c) PROVE WalkInv'
  <2>1. PICK w \in Wallets : w = run[c].wallet
    BY <1>11, AfterAbort, AtWork
  <2>2. /\ OnlyRun(c) /\ run'[c] = NoRun
        /\ UNCHANGED <<head, complete, nextOffset, seen, covered>>
    BY <1>11, AfterAbort
  <2>3. RunInv(c)'
    BY <2>2 DEF RunInv, NoRun
  <2>4. WalletInv(w)'
    BY <1>t, <2>2 DEF WalletInv
  <2>5. QED
    BY <2>2, <2>3, <2>4, WalkOfStep
<1>12. CASE UNCHANGED vars
  BY <1>12 DEF vars, tables, history, WalkInv, RunInv, WalletInv
<1>13. QED
  BY <1>1, <1>2, <1>3, <1>4, <1>5, <1>6, <1>7, <1>8, <1>9, <1>10, <1>11, <1>12 DEF Next, Crawl

-----------------------------------------------------------------------------
(* What a backfill has visited.                                            *)

\* What is visited stays so as long as the backfill is the same.
LEMMA VisitedKept ==
    ASSUME NEW w \in Wallets, NEW left, covered'[w] = covered[w], seen[w] \subseteq seen'[w],
           Visited(w, left)
    PROVE  Visited(w, left)'
BY DEF Visited

\* A run goes down by one transaction when that is seen or cannot be read.
LEMMA VisitedDown ==
    ASSUME NEW w \in Wallets, NEW left \in Nat \ {0}, covered'[w] = covered[w],
           seen[w] \subseteq seen'[w], Visited(w, left),
           left \in seen'[w] \/ Kind[left] = "malformed"
    PROVE  Visited(w, left - 1)'
<1>1. 1..left = 1..(left - 1) \cup {left}
  OBVIOUS
<1>2. Readable(covered[w]) \ (1..(left - 1)) \subseteq
         (Readable(covered[w]) \ (1..left)) \cup ({left} \cap Readable(covered[w]))
  BY <1>1
<1>3. {left} \cap Readable(covered[w]) \subseteq seen'[w]
  BY DEF Readable
<1>4. QED
  BY <1>2, <1>3 DEF Visited

\* An action that touches only one run, and of the tables none but those of w.
LEMMA CoverOfStep ==
    ASSUME TypeInv, WalkInv, CoverInv, NEW c \in Crawlers, OnlyRun(c), RunCover(c)',
           NEW w \in Wallets, WalletCover(w)',
           \A v \in Wallets \ {w} : /\ covered'[v] = covered[v] /\ seen'[v] = seen[v]
                                    /\ nextOffset'[v] = nextOffset[v]
                                    /\ complete'[v] = complete[v],
           seen[w] \subseteq seen'[w],
           covered[w] # -1 => covered'[w] = covered[w]
    PROVE  CoverInv'
<1>1. ASSUME NEW d \in Crawlers \ {c} PROVE RunCover(d)'
  <2>1. run'[d] = run[d] /\ RunCover(d) /\ RunInv(d)
    BY <1>1 DEF CoverInv, WalkInv, OnlyRun
  <2>2. Bottom(d)' = Bottom(d)
    BY <2>1 DEF Bottom
  <2>3. SUFFICES ASSUME /\ run[d].pc # "idle" /\ run[d].backfill
                        /\ run[d].pc \in {"tx", "classify", "advance", "finish"} \/ Bottom(d) # 0
                 PROVE  Visited(run[d].wallet, Bottom(d))'
    BY <2>1, <2>2 DEF RunCover
  <2>4. PICK v, left : v \in Wallets /\ v = run[d].wallet /\ left = Bottom(d)
    BY <1>1, <2>3, AtWork
  <2>5. Visited(v, left)
    BY <2>1, <2>3, <2>4 DEF RunCover
  <2>6. covered[v] # -1
    BY <2>1, <2>3, <2>4 DEF RunInv, Bottom
  <2>7. Visited(v, left)'
    BY <2>4, <2>5, <2>6, VisitedKept
  <2>8. QED
    BY <2>1, <2>2, <2>4, <2>7
<1>2. ASSUME NEW v \in Wallets \ {w} PROVE WalletCover(v)'
  BY <1>2 DEF CoverInv, WalletCover, Visited
<1>3. QED
  BY <1>1, <1>2 DEF CoverInv

LEMMA CoverStep ==
    TypeInv /\ TypeInv' /\ WalkInv /\ CoverInv /\ [Next]_vars => CoverInv'
<1> SUFFICES ASSUME TypeInv, TypeInv', WalkInv, CoverInv, [Next]_vars PROVE CoverInv'
  OBVIOUS
<1> USE CrawlAssumption
<1>t. /\ \A w \in Wallets : /\ head[w] \in 0..MaxTx /\ nextOffset[w] \in 0..MaxTx
                             /\ covered[w] \in -1..MaxTx /\ complete[w] \in BOOLEAN
                             /\ WalletInv(w) /\ WalletCover(w)
      /\ \A c \in Crawlers : RunInv(c) /\ RunCover(c)
  BY DEF TypeInv, TypeOK, WalkInv, CoverInv
<1>1. ASSUME UNCHANGED <<run, seen, complete, nextOffset, covered>> PROVE CoverInv'
  BY <1>1 DEF CoverInv, WalletCover, RunCover, Bottom, Visited
<1>2. ASSUME NEW c \in Crawlers, NEW w \in Wallets, PickNextWallet(c, w) PROVE CoverInv'
  <2>1. /\ OnlyRun(c) /\ run'[c].pc = "fetch" /\ run'[c].wallet = w
        /\ run'[c].backfill = ~complete[w] /\ run'[c].offset = nextOffset[w]
        /\ UNCHANGED <<complete, nextOffset, seen, covered>>
    BY <1>2, AfterPick
  <2>2. WalletCover(w)'
    BY <1>t, <2>1 DEF WalletCover, Visited
  <2>3. RunCover(c)'
    <3>1. CASE complete[w] = TRUE
      BY <2>1, <3>1 DEF RunCover
    <3>2. CASE complete[w] = FALSE
      BY <1>t, <2>1, <3>2 DEF RunCover, WalletCover, Bottom, Visited
    <3>3. QED
      BY <1>t, <3>1, <3>2
  <2>4. QED
    BY <2>1, <2>2, <2>3, CoverOfStep
<1>3. ASSUME NEW c \in Crawlers, GetTransactions(c) PROVE CoverInv'
  <2>1. PICK w \in Wallets : w = run[c].wallet
    BY <1>3, AfterGet, AtWork
  <2>2. /\ run[c].pc = "fetch" /\ OnlyRun(c)
        /\ run'[c].pc = "tx" /\ run'[c].wallet = w /\ run'[c].backfill = run[c].backfill
        /\ run'[c].next + Len(run'[c].page) = IF run[c].offset = 0 THEN head[w] ELSE run[c].offset
        /\ OnlyAt(w, covered, covered')
        /\ covered'[w] = IF run[c].backfill /\ run[c].offset = 0 /\ covered[w] = -1
                         THEN head[w] ELSE covered[w]
        /\ UNCHANGED <<complete, nextOffset, seen>>
    BY <1>3, <2>1, AfterGet
  <2>3. WalletCover(w)'
    <3>1. covered[w] = -1 => ~complete[w] /\ nextOffset[w] = 0
      BY <1>t DEF WalletInv
    <3>2. QED
      BY <1>t, <2>2, <3>1 DEF WalletCover, Visited
  <2>4. RunCover(c)'
    <3>1. Bottom(c)' = run'[c].next + Len(run'[c].page)
      BY <2>2 DEF Bottom
    <3>2. CASE run[c].offset = 0
      <4>1. covered'[w] \in Int /\ covered'[w] <= head[w] /\ head[w] \in Nat
        BY <1>t, <2>2 DEF WalletInv
      <4>2. Visited(w, head[w])'
        <5>1. PICK top \in Nat : top = head[w]
          BY <4>1
        <5>2. Readable(covered'[w]) \ (1..top) = {}
          BY <4>1, <5>1 DEF Readable
        <5>3. head' = head
          BY <1>3, AfterGet
        <5>4. QED
          BY <5>1, <5>2, <5>3 DEF Visited
      <4>3. head' = head
        BY <1>3, AfterGet
      <4>4. QED
        BY <2>2, <3>1, <3>2, <4>2, <4>3 DEF RunCover
    <3>3. CASE run[c].offset # 0
      BY <1>t, <2>1, <2>2, <3>1, <3>3 DEF RunCover, Bottom, Visited
    <3>4. QED
      BY <3>2, <3>3
  <2>5. QED
    BY <2>2, <2>3, <2>4, CoverOfStep DEF OnlyAt
<1>4. ASSUME NEW c \in Crawlers, SkipMalformed(c) \/ MarkSeen(c) PROVE CoverInv'
  <2>1. run[c].pc = "tx" /\ run[c].page # << >>
    BY <1>4, AfterSkip, AfterMark
  <2>2. PICK w \in Wallets : w = run[c].wallet
    BY <2>1, AtWork
  <2>3. PICK t : t = Head(run[c].page)
    OBVIOUS
  <2>4. /\ OnlyRun(c)
        /\ \/ run'[c].pc = "tx" /\ run'[c].page = Tail(run[c].page)
           \/ run'[c].pc = "classify" /\ run'[c].page = run[c].page
           \/ run'[c].pc = "stop" /\ ~run[c].backfill
        /\ run'[c].wallet = w /\ run'[c].backfill = run[c].backfill /\ run'[c].next = run[c].next
        /\ OnlyAt(w, seen, seen')
        /\ seen[w] \subseteq seen'[w] /\ (t \in seen'[w] \/ Kind[t] = "malformed")
        /\ UNCHANGED <<complete, nextOffset, covered>>
    <3>1. CASE SkipMalformed(c)
      BY <2>2, <2>3, <3>1, AfterSkip
    <3>2. CASE MarkSeen(c)
      BY <2>2, <2>3, <3>2, AfterMark
    <3>3. QED
      BY <1>4, <3>1, <3>2
  <2>5. WalletCover(w)'
    BY <1>t, <2>4 DEF WalletCover, Visited
  <2>6. RunCover(c)'
    <3>1. /\ run[c].page \in Seq(Txs) /\ run[c].next \in 0..MaxTx
          /\ Contiguous(run[c].page, run[c].next)
      BY <1>t, <2>1, AtWork DEF Runs, RunInv
    <3>2. /\ Len(Tail(run[c].page)) = Len(run[c].page) - 1 /\ Len(run[c].page) \in Nat \ {0}
          /\ t = run[c].next + Len(run[c].page) /\ t \in Nat \ {0}
      BY <2>1, <2>3, <3>1, TailLemma
    <3>3. Bottom(c) = t
      BY <2>1, <3>2 DEF Bottom
    <3>4. run[c].backfill => Visited(w, t)
      BY <1>t, <2>1, <2>2, <3>3 DEF RunCover
    <3>5. run[c].backfill => Visited(w, t - 1)'
      BY <2>4, <3>2, <3>4, VisitedDown
    <3>6. run'[c].pc # "stop" => Bottom(c)' = t - 1
      <4>1. CASE run'[c].pc = "tx" /\ run'[c].page = Tail(run[c].page)
        <5>1. Bottom(c)' = run'[c].next + Len(run'[c].page)
          BY <4>1 DEF Bottom
        <5>2. Len(run'[c].page) = Len(run[c].page) - 1 /\ run'[c].next = run[c].next
          BY <2>4, <3>2, <4>1
        <5>3. run[c].next \in Nat
          BY <3>1
        <5>4. QED
          BY <3>2, <5>1, <5>2, <5>3
      <4>2. CASE run'[c].pc = "classify" /\ run'[c].page = run[c].page
        <5>1. Bottom(c)' = run'[c].next + Len(run'[c].page) - 1
          BY <4>2 DEF Bottom
        <5>2. QED
          BY <2>4, <3>1, <3>2, <4>2, <5>1
      <4>3. QED
        BY <2>4, <4>1, <4>2
    <3>7. QED
      BY <2>4, <3>5, <3>6 DEF RunCover
  <2>7. QED
    BY <2>4, <2>5, <2>6, CoverOfStep DEF OnlyAt
<1>5. ASSUME NEW c \in Crawlers, Classify(c) PROVE CoverInv'
  <2>1. PICK w \in Wallets : w = run[c].wallet
    BY <1>5, AfterClassify, AtWork
  <2>2. /\ run[c].pc = "classify" /\ run[c].page # << >> /\ OnlyRun(c)
        /\ run'[c].pc = "tx" /\ run'[c].page = Tail(run[c].page) /\ run'[c].wallet = w
        /\ run'[c].backfill = run[c].backfill /\ run'[c].next = run[c].next
        /\ UNCHANGED <<complete, nextOffset, seen, covered>>
    BY <1>5, <2>1, AfterClassify
  <2>3. Bottom(c)' = Bottom(c)
    <3>1. run[c].page \in Seq(Txs) /\ run[c].next \in 0..MaxTx
      BY <2>2, AtWork DEF Runs
    <3>2. Len(Tail(run[c].page)) = Len(run[c].page) - 1 /\ Len(run[c].page) \in Nat \ {0}
      BY <2>2, <3>1, TailLemma
    <3>3. QED
      BY <2>2, <3>1, <3>2 DEF Bottom
  <2>4. RunCover(c)'
    BY <1>t, <2>1, <2>2, <2>3 DEF RunCover, Visited
  <2>5. WalletCover(w)'
    BY <1>t, <2>2 DEF WalletCover, Visited
  <2>6. QED
    BY <2>2, <2>4, <2>5, CoverOfStep
<1>6. ASSUME NEW c \in Crawlers, UpsertEdges(c) PROVE CoverInv'
  <2>1. PICK w \in Wallets : w = run[c].wallet
    BY <1>6, AfterUpsert, AtWork
  <2>2. /\ run[c].pc = "tx" /\ run[c].page = << >> /\ OnlyRun(c)
        /\ run'[c].pc = "advance" /\ run'[c].wallet = w
        /\ run'[c].backfill = run[c].backfill /\ run'[c].next = run[c].next
        /\ UNCHANGED <<complete, nextOffset, seen, covered>>
    BY <1>6, <2>1, AfterUpsert
  <2>3. Bottom(c)' = Bottom(c)
    <3>1. run[c].next \in 0..MaxTx
      BY <2>2, AtWork DEF Runs
    <3>2. QED
      BY <2>2, <3>1 DEF Bottom
  <2>4. RunCover(c)'
    BY <1>t, <2>1, <2>2, <2>3 DEF RunCover, Visited
  <2>5. WalletCover(w)'
    BY <1>t, <2>2 DEF WalletCover, Visited
  <2>6. QED
    BY <2>2, <2>4, <2>5, CoverOfStep
<1>7. ASSUME NEW c \in Crawlers, Advance(c) PROVE CoverInv'
  <2>1. PICK w \in Wallets : w = run[c].wallet
    BY <1>7, AfterAdvance, AtWork
  <2>2. /\ run[c].pc = "advance" /\ OnlyRun(c)
        /\ \/ run'[c].pc = "finish" /\ run[c].next = 0
           \/ run'[c].pc \in {"fetch", "pause"} /\ run[c].next # 0
        /\ run'[c].wallet = w /\ run'[c].backfill = run[c].backfill
        /\ run'[c].offset = run[c].next
        /\ OnlyAt(w, nextOffset, nextOffset') /\ nextOffset'[w] = run[c].next
        /\ UNCHANGED <<complete, seen, covered>>
    BY <1>7, <2>1, AfterAdvance
  <2>3. PICK left : left = run[c].next
    OBVIOUS
  <2>4. run[c].backfill => Visited(w, left)
    BY <1>t, <2>1, <2>2, <2>3 DEF RunCover, Bottom
  <2>5. ~run[c].backfill => complete[w]
    BY <1>t, <2>1, <2>2 DEF RunInv
  <2>6. WalletCover(w)'
    BY <1>t, <2>2, <2>3, <2>4, <2>5 DEF WalletCover, Visited
  <2>7. RunCover(c)'
    <3>1. Bottom(c)' = IF run'[c].pc = "fetch" THEN left ELSE 0
      BY <2>2, <2>3 DEF Bottom
    <3>2. QED
      BY <2>2, <2>3, <2>4, <3>1 DEF RunCover, Visited
  <2>8. QED
    BY <2>2, <2>6, <2>7, CoverOfStep DEF OnlyAt
<1>8. ASSUME NEW c \in Crawlers, StopEarly(c) PROVE CoverInv'
  <2>1. PICK w \in Wallets : w = run[c].wallet
    BY <1>8, AfterStop, AtWork
  <2>2. /\ run[c].pc = "stop" /\ OnlyRun(c)
        /\ run'[c].wallet = w /\ run'[c].backfill = run[c].backfill
        /\ OnlyAt(w, nextOffset, nextOffset') /\ nextOffset'[w] = 0
        /\ UNCHANGED <<complete, seen, covered>>
    BY <1>8, <2>1, AfterStop
  <2>3. ~run[c].backfill
    BY <1>t, <2>2 DEF RunInv
  <2>4. RunCover(c)'
    BY <2>2, <2>3 DEF RunCover
  <2>5. WalletCover(w)'
    BY <1>t, <2>2 DEF WalletCover, Visited
  <2>6. QED
    BY <2>2, <2>4, <2>5, CoverOfStep DEF OnlyAt
<1>9. ASSUME NEW c \in Crawlers, CompleteWallet(c) PROVE CoverInv'
  <2>1. PICK w \in Wallets : w = run[c].wallet
    BY <1>9, AfterComplete, AtWork
  <2>2. /\ OnlyRun(c) /\ run'[c] = NoRun
        /\ OnlyAt(w, complete, complete') /\ OnlyAt(w, nextOffset, nextOffset')
        /\ \/ /\ run[c].pc = "pause"
              /\ complete'[w] = complete[w] /\ nextOffset'[w] = nextOffset[w]
           \/ run[c].pc = "finish" /\ complete'[w] = TRUE /\ nextOffset'[w] = 0
        /\ UNCHANGED <<seen, covered>>
    BY <1>9, <2>1, AfterComplete
  <2>3. RunCover(c)'
    BY <2>2 DEF RunCover, NoRun
  <2>4. WalletCover(w)'
    <3>1. CASE run[c].pc = "pause"
      BY <1>t, <2>2, <3>1 DEF WalletCover, Visited
    <3>2. CASE run[c].pc = "finish"
      <4>1. Bottom(c) = 0
        BY <3>2 DEF Bottom
      <4>2. Visited(w, 0)
        BY <1>t, <2>1, <3>2, <4>1 DEF RunCover, RunInv, WalletCover
      <4>3. QED
        BY <2>2, <3>2, <4>2 DEF WalletCover, Visited
    <3>3. QED
      BY <2>2, <3>1, <3>2
  <2>5. QED
    BY <2>2, <2>3, <2>4, CoverOfStep DEF OnlyAt
<1>10. ASSUME NEW c \in Crawlers, Abort(c) PROVE CoverInv'
  <2>1. PICK w \in Wallets : w = run[c].wallet
    BY <1>10, AfterAbort, AtWork
  <2>2. OnlyRun(c) /\ run'[c] = NoRun /\ UNCHANGED <<complete, nextOffset, seen, covered>>
    BY <1>10, AfterAbort
  <2>3. RunCover(c)'
    BY <2>2 DEF RunCover, NoRun
  <2>4. WalletCover(w)'
    BY <1>t, <2>2 DEF WalletCover, Visited
  <2>5. QED
    BY <2>2, <2>3, <2>4, CoverOfStep
<1>11. ASSUME NEW w \in Wallets, NewTx(w) PROVE CoverInv'
  BY <1>1, <1>11 DEF NewTx, tables, history
<1>12. CASE SyncWalletQueue
  BY <1>1, <1>12 DEF SyncWalletQueue, history
<1>13. CASE UNCHANGED vars
  BY <1>1, <1>13 DEF vars, tables, history
<1>14. QED
  BY <1>2, <1>3, <1>4, <1>5, <1>6, <1>7, <1>8, <1>9, <1>10, <1>11, <1>12, <1>13 DEF Next, Crawl

-----------------------------------------------------------------------------
(* Where the edges of a visited transaction are.                           *)

\* An action that touches only one run, and of the tables none but those of w.
LEMMA EdgeOfStep ==
    ASSUME TypeInv, WalkInv, EdgeInv, NEW c \in Crawlers, OnlyRun(c), RunEdge(c)',
           NEW w \in Wallets,
           run[c].wallet \in {w, NoWallet}, run'[c].wallet \in {w, NoWallet},
           \A v \in Wallets \ {w} : /\ covered'[v] = covered[v] /\ seen'[v] = seen[v]
                                    /\ graph'[v] = graph[v] /\ aborted'[v] = aborted[v],
           graph[w] \subseteq graph'[w],
           covered[w] # -1 => covered'[w] = covered[w],
           covered[w] = -1 => seen'[w] = {},
           ~aborted'[w] =>
              /\ ~aborted[w]
              /\ \A t \in seen'[w] :
                    /\ t <= covered[w] /\ Kind[t] = "transfer"
                    /\ t \notin seen[w] \/ Holds(c, w, t)
                    => t \in graph'[w] \/ Holds(c, w, t)'
    PROVE  EdgeInv'
<1>1. ASSUME NEW d \in Crawlers \ {c} PROVE RunEdge(d)'
  <2>1. run'[d] = run[d] /\ RunEdge(d) /\ RunInv(d)
    BY <1>1 DEF EdgeInv, WalkInv, OnlyRun
  <2>2. CASE run[d].pc = "idle"
    BY <2>1, <2>2 DEF RunEdge
  <2>3. CASE run[d].pc # "idle"
    <3>1. PICK v \in Wallets : v = run[d].wallet
      BY <1>1, <2>3, AtWork
    <3>2. graph[v] \subseteq graph'[v]
      OBVIOUS
    <3>3. CASE covered[v] # -1
      <4>1. covered'[v] = covered[v]
        BY <3>3
      <4>2. QED
        BY <2>1, <3>1, <3>2, <4>1 DEF RunEdge
    <3>4. CASE covered[v] = -1
      <4>1. ~complete[v]
        BY <3>4 DEF WalkInv, WalletInv
      <4>2. run[d].pc = "fetch" /\ run[d].backfill
        BY <2>1, <2>3, <3>1, <3>4, <4>1 DEF RunInv
      <4>3. QED
        BY <2>1, <4>2 DEF RunEdge
    <3>5. QED
      BY <3>3, <3>4
  <2>4. QED
    BY <2>2, <2>3
<1>2. ASSUME NEW d \in Crawlers \ {c}, NEW v \in Wallets, NEW t, Holds(d, v, t)
      PROVE  Holds(d, v, t)'
  BY <1>2 DEF Holds, OnlyRun
<1>3. ASSUME NEW v \in Wallets \ {w} PROVE WalletEdge(v)'
  <2>1. \A t : ~Holds(c, v, t)
    BY <1>3, CrawlAssumption DEF Holds
  <2>2. WalletEdge(v)
    BY <1>3 DEF EdgeInv
  <2>3. \A t : (\E d \in Crawlers : Holds(d, v, t)) => (\E d \in Crawlers : Holds(d, v, t)')
    BY <1>2, <1>3, <2>1
  <2>4. QED
    BY <1>3, <2>2, <2>3 DEF WalletEdge
<1>4. WalletEdge(w)'
  <2>1. CASE covered[w] = -1
    BY <2>1 DEF WalletEdge
  <2>2. SUFFICES ASSUME covered[w] # -1, ~aborted'[w], NEW t \in seen'[w],
                        t <= covered[w], Kind[t] = "transfer"
                 PROVE  t \in graph'[w] \/ \E d \in Crawlers : Holds(d, w, t)'
    BY <2>1 DEF WalletEdge
  <2>3. CASE t \notin seen[w] \/ Holds(c, w, t)
    BY <2>2, <2>3
  <2>4. CASE t \in seen[w] /\ ~Holds(c, w, t)
    <3>1. t \in graph[w] \/ \E d \in Crawlers : Holds(d, w, t)
      BY <2>2, <2>4 DEF EdgeInv, WalletEdge
    <3>2. QED
      BY <1>2, <2>4, <3>1
  <2>5. QED
    BY <2>3, <2>4
<1>5. QED
  BY <1>1, <1>3, <1>4 DEF EdgeInv

\* A backfill that is over leaves nothing to classify below its head.
LEMMA NewIsAbove ==
    ASSUME TypeInv, CoverInv, WalkInv, NEW w \in Wallets, complete[w],
           NEW t \in Txs, t \notin seen[w], Kind[t] # "malformed"
    PROVE  t > covered[w]
<1>1. Readable(covered[w]) \subseteq seen[w]
  BY DEF CoverInv, WalletCover, Visited
<1>2. covered[w] \in Int
  BY CrawlAssumption DEF TypeInv, TypeOK
<1>3. t <= covered[w] => t \in Readable(covered[w])
  BY <1>2, CrawlAssumption DEF Readable, Txs
<1>4. QED
  BY <1>1, <1>2, <1>3, CrawlAssumption DEF Txs

LEMMA EdgeStep ==
    TypeInv /\ WalkInv /\ CoverInv /\ EdgeInv /\ [Next]_vars => EdgeInv'
<1> SUFFICES ASSUME TypeInv, WalkInv, CoverInv, EdgeInv, [Next]_vars PROVE EdgeInv'
  OBVIOUS
<1> USE CrawlAssumption
<1>t. /\ \A w \in Wallets : WalletInv(w) /\ WalletEdge(w)
      /\ \A c \in Crawlers : RunInv(c) /\ RunEdge(c)
      /\ \A w \in Wallets : aborted[w] \in BOOLEAN
      /\ \A c \in Crawlers : run[c].pc = "idle" => run[c].wallet = NoWallet
  BY DEF TypeInv, TypeOK, WalkInv, EdgeInv
<1>1. ASSUME UNCHANGED <<run, seen, graph, covered, aborted>> PROVE EdgeInv'
  BY <1>1 DEF EdgeInv, WalletEdge, RunEdge, Holds
<1>2. ASSUME NEW c \in Crawlers, NEW w \in Wallets, PickNextWallet(c, w) PROVE EdgeInv'
  <2>1. /\ run[c].pc = "idle" /\ OnlyRun(c) /\ run'[c].pc = "fetch" /\ run'[c].wallet = w
        /\ run'[c].edges = {} /\ UNCHANGED <<seen, graph, covered, aborted>>
    BY <1>2, AfterPick
  <2>2. run[c].wallet = NoWallet /\ run'[c].wallet = w
    BY <1>t, <2>1
  <2>3. RunEdge(c)'
    BY <2>1 DEF RunEdge
  <2>4. \A t : ~Holds(c, w, t)
    BY <2>2 DEF Holds
  <2>5. covered[w] = -1 => seen[w] = {}
    BY <1>t DEF WalletInv
  <2>6. QED
    BY <2>1, <2>2, <2>3, <2>4, <2>5, EdgeOfStep
<1>3. ASSUME NEW c \in Crawlers, GetTransactions(c) PROVE EdgeInv'
  <2>1. PICK w \in Wallets : w = run[c].wallet
    BY <1>3, AfterGet, AtWork
  <2>2. /\ run[c].pc = "fetch" /\ OnlyRun(c)
        /\ run'[c].pc = "tx" /\ run'[c].wallet = w /\ run'[c].edges = {}
        /\ OnlyAt(w, covered, covered')
        /\ covered'[w] = IF run[c].backfill /\ run[c].offset = 0 /\ covered[w] = -1
                         THEN head[w] ELSE covered[w]
        /\ UNCHANGED <<seen, graph, aborted>>
    BY <1>3, <2>1, AfterGet
  <2>3. RunEdge(c)'
    BY <2>2 DEF RunEdge
  <2>4. \A t : ~Holds(c, w, t)
    BY <1>t, <2>2 DEF Holds, RunEdge
  <2>5. covered[w] = -1 => seen[w] = {}
    BY <1>t DEF WalletInv
  <2>6. QED
    BY <2>1, <2>2, <2>3, <2>4, <2>5, EdgeOfStep DEF OnlyAt
<1>4. ASSUME NEW c \in Crawlers, SkipMalformed(c) PROVE EdgeInv'
  <2>1. PICK w \in Wallets : w = run[c].wallet
    BY <1>4, AfterSkip, AtWork
  <2>2. PICK t : t = Head(run[c].page)
    OBVIOUS
  <2>3. /\ run[c].pc = "tx" /\ Kind[t] = "malformed" /\ OnlyRun(c)
        /\ run'[c].pc = "tx" /\ run'[c].wallet = w /\ run'[c].backfill = run[c].backfill
        /\ run'[c].edges = run[c].edges
        /\ OnlyAt(w, seen, seen') /\ seen'[w] \subseteq seen[w] \cup {t}
        /\ UNCHANGED <<graph, covered, aborted>>
    BY <1>4, <2>1, <2>2, AfterSkip
  <2>4. RunEdge(c)'
    BY <1>t, <2>1, <2>3 DEF RunEdge
  <2>5. \A u : Holds(c, w, u) => Holds(c, w, u)'
    BY <2>1, <2>3 DEF Holds
  <2>6. covered[w] # -1
    BY <1>t, <2>1, <2>3 DEF RunInv
  <2>7. QED
    BY <2>1, <2>3, <2>4, <2>5, <2>6, EdgeOfStep DEF OnlyAt
<1>5. ASSUME NEW c \in Crawlers, MarkSeen(c) PROVE EdgeInv'
  <2>1. PICK w \in Wallets : w = run[c].wallet
    BY <1>5, AfterMark, AtWork
  <2>2. PICK t : t = Head(run[c].page)
    OBVIOUS
  <2>3. /\ run[c].pc = "tx" /\ run[c].page # << >> /\ Kind[t] # "malformed" /\ OnlyRun(c)
        /\ \/ t \notin seen[w] /\ run'[c].pc = "classify" /\ run'[c].page = run[c].page
           \/ t \in seen[w] /\ run'[c].pc = "tx"
           \/ t \in seen[w] /\ run'[c].pc = "stop"
        /\ run'[c].wallet = w /\ run'[c].backfill = run[c].backfill
        /\ run'[c].edges = run[c].edges
        /\ OnlyAt(w, seen, seen') /\ seen'[w] = seen[w] \cup {t}
        /\ UNCHANGED <<graph, covered, aborted>>
    BY <1>5, <2>1, <2>2, AfterMark
  <2>4. t \in Txs
    BY <2>2, <2>3, AtWork DEF Runs
  <2>5. ~run[c].backfill /\ t \notin seen[w] => t > covered[w]
    BY <1>t, <2>1, <2>3, <2>4, NewIsAbove DEF RunInv
  <2>6. RunEdge(c)'
    BY <1>t, <2>1, <2>2, <2>3, <2>5 DEF RunEdge
  <2>7. \A u : Holds(c, w, u) => Holds(c, w, u)'
    BY <2>1, <2>3 DEF Holds
  <2>8. t \notin seen[w] => Holds(c, w, t)'
    BY <2>2, <2>3 DEF Holds
  <2>9. covered[w] # -1
    BY <1>t, <2>1, <2>3 DEF RunInv
  <2>10. QED
    BY <2>1, <2>3, <2>6, <2>7, <2>8, <2>9, EdgeOfStep DEF OnlyAt
<1>6. ASSUME NEW c \in Crawlers, Classify(c) PROVE EdgeInv'
  <2>1. PICK w \in Wallets : w = run[c].wallet
    BY <1>6, AfterClassify, AtWork
  <2>2. PICK t : t = Head(run[c].page)
    OBVIOUS
  <2>3. /\ run[c].pc = "classify" /\ OnlyRun(c)
        /\ run'[c].pc = "tx" /\ run'[c].wallet = w /\ run'[c].backfill = run[c].backfill
        /\ run'[c].edges = IF Kind[t] = "transfer" THEN run[c].edges \cup {t} ELSE run[c].edges
        /\ UNCHANGED <<seen, graph, covered, aborted>>
    BY <1>6, <2>1, <2>2, AfterClassify
  <2>4. RunEdge(c)'
    BY <1>t, <2>1, <2>2, <2>3 DEF RunEdge
  <2>5. \A u : Holds(c, w, u) /\ Kind[u] = "transfer" => Holds(c, w, u)'
    BY <2>1, <2>2, <2>3 DEF Holds
  <2>6. covered[w] # -1
    BY <1>t, <2>1, <2>3 DEF RunInv
  <2>7. QED
    BY <2>1, <2>3, <2>4, <2>5, <2>6, EdgeOfStep
<1>7. ASSUME NEW c \in Crawlers, UpsertEdges(c) PROVE EdgeInv'
  <2>1. PICK w \in Wallets : w = run[c].wallet
    BY <1>7, AfterUpsert, AtWork
  <2>2. /\ run[c].pc = "tx" /\ OnlyRun(c)
        /\ run'[c].pc = "advance" /\ run'[c].wallet = w /\ run'[c].backfill = run[c].backfill
        /\ run'[c].edges = run[c].edges
        /\ OnlyAt(w, graph, graph') /\ graph'[w] = graph[w] \cup run[c].edges
        /\ UNCHANGED <<seen, covered, aborted>>
    BY <1>7, <2>1, AfterUpsert
  <2>3. RunEdge(c)'
    BY <1>t, <2>1, <2>2 DEF RunEdge
  <2>4. \A u : Holds(c, w, u) => u \in graph'[w]
    BY <2>1, <2>2 DEF Holds
  <2>5. covered[w] # -1
    BY <1>t, <2>1, <2>2 DEF RunInv
  <2>6. QED
    BY <2>1, <2>2, <2>3, <2>4, <2>5, EdgeOfStep DEF OnlyAt
<1>8. ASSUME NEW c \in Crawlers, Advance(c) PROVE EdgeInv'
  <2>1. PICK w \in Wallets : w = run[c].wallet
    BY <1>8, AfterAdvance, AtWork
  <2>2. /\ run[c].pc = "advance" /\ OnlyRun(c)
        /\ run'[c].pc \in {"finish", "fetch", "pause"} /\ run'[c].wallet = w
        /\ run'[c].edges = {} /\ UNCHANGED <<seen, graph, covered, aborted>>
    BY <1>8, <2>1, AfterAdvance
  <2>3. RunEdge(c)'
    BY <2>2 DEF RunEdge
  <2>4. \A u : Holds(c, w, u) => u \in graph'[w]
    BY <1>t, <2>1, <2>2 DEF Holds, RunEdge
  <2>5. covered[w] # -1
    BY <1>t, <2>1, <2>2 DEF RunInv
  <2>6. QED
    BY <2>1, <2>2, <2>3, <2>4, <2>5, EdgeOfStep
<1>9. ASSUME NEW c \in Crawlers, StopEarly(c) PROVE EdgeInv'
  <2>1. PICK w \in Wallets : w = run[c].wallet
    BY <1>9, AfterStop, AtWork
  <2>2. /\ run[c].pc = "stop" /\ OnlyRun(c)
        /\ run'[c].pc = "pause" /\ run'[c].wallet = w /\ run'[c].backfill = run[c].backfill
        /\ run'[c].edges = run[c].edges /\ UNCHANGED <<seen, graph, covered, aborted>>
    BY <1>9, <2>1, AfterStop
  <2>3. ~run[c].backfill
    BY <1>t, <2>2 DEF RunInv
  <2>4. RunEdge(c)'
    BY <1>t, <2>1, <2>2, <2>3 DEF RunEdge
  <2>5. \A u : Holds(c, w, u) => Holds(c, w, u)'
    BY <2>1, <2>2 DEF Holds
  <2>6. covered[w] # -1
    BY <1>t, <2>1, <2>2 DEF RunInv
  <2>7. QED
    BY <2>1, <2>2, <2>4, <2>5, <2>6, EdgeOfStep
<1>10. ASSUME NEW c \in Crawlers, CompleteWallet(c) PROVE EdgeInv'
  <2>1. PICK w \in Wallets : w = run[c].wallet
    BY <1>10, AfterComplete, AtWork
  <2>2. /\ run[c].pc \in {"pause", "finish"} /\ OnlyRun(c) /\ run'[c] = NoRun
        /\ UNCHANGED <<seen, graph, covered, aborted>>
    BY <1>10, AfterComplete
  <2>3. RunEdge(c)' /\ run'[c].wallet = NoWallet
    BY <2>2 DEF RunEdge, NoRun
  <2>4. covered[w] # -1 /\ covered[w] \in Int
    <3>1. covered[w] \in Int
      BY DEF TypeInv, TypeOK
    <3>2. QED
      BY <1>t, <2>1, <2>2, <3>1 DEF RunInv
  <2>5. \A u \in seen[w] : Holds(c, w, u) => ~(u <= covered[w])
    <3>1. seen[w] \subseteq Int
      BY DEF TypeInv, TypeOK, Txs
    <3>2. QED
      BY <1>t, <2>1, <2>2, <2>4, <3>1 DEF Holds, RunEdge
  <2>6. QED
    BY <2>1, <2>2, <2>3, <2>4, <2>5, EdgeOfStep
<1>11. ASSUME NEW c \in Crawlers, Abort(c) PROVE EdgeInv'
  <2>1. PICK w \in Wallets : w = run[c].wallet
    BY <1>11, AfterAbort, AtWork
  <2>2. /\ OnlyRun(c) /\ run'[c] = NoRun
        /\ OnlyAt(w, aborted, aborted')
        /\ aborted'[w] = (aborted[w] \/ run[c].pc # "fetch")
        /\ UNCHANGED <<seen, graph, covered>>
    BY <1>11, <2>1, AfterAbort
  <2>3. RunEdge(c)' /\ run'[c].wallet = NoWallet
    BY <2>2 DEF RunEdge, NoRun
  <2>4. ~aborted'[w] => ~aborted[w] /\ \A u : ~Holds(c, w, u)
    <3>1. ~aborted'[w] => run[c].pc = "fetch"
      BY <2>2
    <3>2. ~aborted'[w] => ~aborted[w]
      BY <2>2
    <3>3. QED
      BY <1>t, <3>1, <3>2 DEF Holds, RunEdge
  <2>5. covered[w] = -1 => seen[w] = {}
    BY <1>t DEF WalletInv
  <2>6. QED
    BY <2>1, <2>2, <2>3, <2>4, <2>5, EdgeOfStep DEF OnlyAt
<1>12. ASSUME NEW w \in Wallets, NewTx(w) PROVE EdgeInv'
  BY <1>1, <1>12 DEF NewTx, tables, history
<1>13. CASE SyncWalletQueue
  BY <1>1, <1>13 DEF SyncWalletQueue, history
<1>14. CASE UNCHANGED vars
  BY <1>1, <1>14 DEF vars, tables, history
<1>15. QED
  BY <1>2, <1>3, <1>4, <1>5, <1>6, <1>7, <1>8, <1>9, <1>10, <1>11, <1>12, <1>13, <1>14
  DEF Next, Crawl

-----------------------------------------------------------------------------
(* Where a walk down has left no gap.                                      *)

LEMMA GaplessKept ==
    ASSUME NEW w \in Wallets, NEW left, Gapless(w, left), seen'[w] = seen[w]
    PROVE  Gapless(w, left)'
BY DEF Gapless

\* A walk goes down by one transaction when that is seen or cannot be read.
LEMMA GaplessDown ==
    ASSUME TypeInv, NEW w \in Wallets, NEW t \in Txs, Gapless(w, t),
           seen[w] \subseteq seen'[w], seen'[w] \subseteq seen[w] \cup {t},
           t \in seen'[w] \/ Kind[t] = "malformed"
    PROVE  Gapless(w, t - 1)'
<1> USE CrawlAssumption
<1>1. seen[w] \subseteq Txs /\ seen'[w] \subseteq Txs /\ Txs \subseteq Nat \ {0}
  BY DEF TypeInv, TypeOK, Txs
<1>2. SUFFICES ASSUME NEW u \in seen'[w],
                      NEW x \in Readable(u) \ (IF u > t - 1 THEN 1..(t - 1) ELSE {})
               PROVE  x \in seen'[w]
  BY DEF Gapless
<1>3. x \in Nat /\ x <= u /\ u \in Nat /\ t \in Nat /\ Kind[x] # "malformed" /\ 1 <= x
  <2>1. u \in Nat /\ t \in Nat
    BY <1>1, <1>2
  <2>2. x \in Readable(u)
    BY <1>2
  <2>3. QED
    BY <2>1, <2>2 DEF Readable
<1>4. CASE x = t
  BY <1>3, <1>4
<1>5. CASE x > t
  <2>1. u \in seen[w] /\ u > t /\ x \in Readable(u) \ (1..t)
    BY <1>2, <1>3, <1>5
  <2>2. QED
    BY <2>1 DEF Gapless
<1>6. CASE x < t
  <2>1. ~(u > t - 1)
    BY <1>2, <1>3, <1>6
  <2>2. u \in seen[w] /\ ~(u > t)
    BY <1>1, <1>3, <2>1
  <2>3. x \in Readable(u)
    BY <1>2
  <2>4. QED
    BY <2>2, <2>3 DEF Gapless
<1>7. QED
  BY <1>3, <1>4, <1>5, <1>6

\* At a transaction that is seen a walk has nothing left to find.
LEMMA GaplessStop ==
    ASSUME TypeInv, NEW w \in Wallets, NEW t \in seen[w], Gapless(w, t), seen'[w] = seen[w],
           NEW left
    PROVE  Gapless(w, left)'
<1> USE CrawlAssumption
<1>1. seen[w] \subseteq Nat
  BY DEF TypeInv, TypeOK, Txs
<1>2. Readable(t) \subseteq seen[w]
  BY <1>1 DEF Gapless
<1>3. ASSUME NEW u \in seen[w] PROVE Readable(u) \subseteq seen[w]
  <2>1. CASE u > t
    <3>1. Readable(u) \ (1..t) \subseteq seen[w]
      BY <2>1 DEF Gapless
    <3>2. Readable(u) \cap (1..t) \subseteq Readable(t)
      BY DEF Readable
    <3>3. QED
      BY <1>2, <3>1, <3>2
  <2>2. CASE ~(u > t)
    BY <2>2 DEF Gapless
  <2>3. QED
    BY <2>1, <2>2
<1>4. QED
  BY <1>3 DEF Gapless

\* An action that touches only one run, and of the tables none but those of w.
LEMMA GapOfStep ==
    ASSUME TypeInv, GapInv, NEW c \in Crawlers, OnlyRun(c), NEW w \in Wallets, WalletGap(w)',
           run[c].wallet \in {w, NoWallet}, run'[c].wallet \in {w, NoWallet},
           \A v \in Wallets \ {w} : /\ seen'[v] = seen[v] /\ nextOffset'[v] = nextOffset[v]
                                    /\ aborted'[v] = aborted[v]
                                    /\ overlapped'[v] = overlapped[v]
    PROVE  GapInv'
<1> USE CrawlAssumption
<1>1. SUFFICES ASSUME NEW v \in Wallets \ {w} PROVE WalletGap(v)'
  BY DEF GapInv
<1>2. WalletGap(v)
  BY <1>1 DEF GapInv
<1>3. run[c].wallet # v /\ run'[c].wallet # v
  BY <1>1
<1>4. \A d \in Crawlers : run'[d].wallet = v => d # c /\ run'[d] = run[d]
  BY <1>3 DEF OnlyRun
<1>5. \A d \in Crawlers : run[d].wallet = v => d # c /\ run'[d] = run[d]
  BY <1>3 DEF OnlyRun
<1>6. ASSUME NEW d \in Crawlers, run'[d].wallet = v PROVE Left(d)' = Left(d)
  BY <1>4, <1>6 DEF Left, Bottom
<1>7. Resting(v)' => Resting(v)
  BY <1>5 DEF Resting
<1>8. \A left : Gapless(v, left) => Gapless(v, left)'
  BY GaplessKept
<1>9. ASSUME ~overlapped'[v]
      PROVE  /\ \A d, e \in Crawlers : run'[d].wallet = v /\ run'[e].wallet = v => d = e
             /\ \A d \in Crawlers : run'[d].wallet = v /\ run'[d].pc = "fetch" =>
                   run'[d].offset = nextOffset'[v]
  BY <1>2, <1>4, <1>9 DEF WalletGap
<1>10. ASSUME ~overlapped'[v], ~aborted'[v]
       PROVE  /\ Resting(v)' => Gapless(v, nextOffset[v])'
              /\ \A d \in Crawlers : run'[d].wallet = v => Gapless(v, Left(d))'
  <2>1. Resting(v)' => Gapless(v, nextOffset[v])'
    <3>1. Resting(v)' => Gapless(v, nextOffset[v])
      BY <1>2, <1>7, <1>10 DEF WalletGap
    <3>2. PICK left : left = nextOffset[v]
      OBVIOUS
    <3>3. nextOffset'[v] = left
      BY <3>2
    <3>4. QED
      BY <1>8, <3>1, <3>2, <3>3
  <2>2. ASSUME NEW d \in Crawlers, run'[d].wallet = v PROVE Gapless(v, Left(d))'
    <3>1. PICK left : left = Left(d)
      OBVIOUS
    <3>2. Gapless(v, left)
      BY <1>2, <1>4, <1>10, <2>2, <3>1 DEF WalletGap
    <3>3. QED
      BY <1>6, <1>8, <2>2, <3>1, <3>2
  <2>3. QED
    BY <2>1, <2>2
<1>11. QED
  BY <1>9, <1>10 DEF WalletGap

\* A run of w goes on.
LEMMA GapOfRun ==
    ASSUME TypeInv, GapInv, NEW c \in Crawlers, OnlyRun(c), NEW w \in Wallets,
           run[c].wallet = w, run'[c].wallet = w,
           run'[c].pc = "fetch" => run'[c].offset = nextOffset'[w],
           overlapped' = overlapped, aborted' = aborted,
           \A v \in Wallets \ {w} : seen'[v] = seen[v] /\ nextOffset'[v] = nextOffset[v],
           Gapless(w, Left(c)) => Gapless(w, Left(c))'
    PROVE  GapInv'
<1>1. WalletGap(w)
  BY DEF GapInv
<1>2. ~Resting(w)'
  BY DEF Resting
<1>3. overlapped'[w] = overlapped[w] /\ aborted'[w] = aborted[w]
  OBVIOUS
<1>4. ASSUME ~overlapped[w] PROVE \A d \in Crawlers : run'[d].wallet = w => d = c
  BY <1>1, <1>4 DEF WalletGap, OnlyRun
<1>5. ASSUME ~overlapped[w], ~aborted[w] PROVE Gapless(w, Left(c))'
  BY <1>1, <1>5 DEF WalletGap
<1>6. ASSUME NEW d \in Crawlers, d = c, Gapless(w, Left(c))' PROVE Gapless(w, Left(d))'
  BY <1>6
<1>7. WalletGap(w)'
  BY <1>2, <1>3, <1>4, <1>5, <1>6 DEF WalletGap
<1>8. QED
  BY <1>7, GapOfStep

\* A run of w is over.
LEMMA GapOfEnd ==
    ASSUME TypeInv, GapInv, NEW c \in Crawlers, OnlyRun(c), NEW w \in Wallets,
           run[c].wallet = w, run'[c].wallet = NoWallet,
           overlapped' = overlapped,
           \A v \in Wallets \ {w} : nextOffset'[v] = nextOffset[v] /\ aborted'[v] = aborted[v],
           seen' = seen,
           ~overlapped[w] /\ ~aborted'[w] => ~aborted[w] /\ nextOffset'[w] = Left(c)
    PROVE  GapInv'
<1> USE CrawlAssumption
<1>1. WalletGap(w)
  BY DEF GapInv
<1>2. ASSUME ~overlapped'[w] PROVE \A d \in Crawlers : run'[d].wallet # w
  BY <1>1, <1>2 DEF WalletGap, OnlyRun
<1>3. ASSUME ~overlapped'[w], ~aborted'[w] PROVE Gapless(w, nextOffset[w])'
  <2>1. PICK left : left = Left(c)
    OBVIOUS
  <2>2. Gapless(w, left)
    BY <1>1, <1>3, <2>1 DEF WalletGap
  <2>3. Gapless(w, left)' /\ nextOffset'[w] = left
    BY <1>3, <2>1, <2>2, GaplessKept
  <2>4. QED
    BY <2>3
<1>4. WalletGap(w)'
  BY <1>2, <1>3 DEF WalletGap
<1>5. QED
  BY <1>4, GapOfStep

LEMMA GapStep == TypeInv /\ WalkInv /\ GapInv /\ [Next]_vars => GapInv'
<1> SUFFICES ASSUME TypeInv, WalkInv, GapInv, [Next]_vars PROVE GapInv'
  OBVIOUS
<1> USE CrawlAssumption
<1>t. /\ \A w \in Wallets : WalletGap(w)
      /\ \A c \in Crawlers : RunInv(c)
  BY DEF WalkInv, GapInv
<1>1. ASSUME UNCHANGED <<run, seen, nextOffset, aborted, overlapped>> PROVE GapInv'
  BY <1>1 DEF GapInv, WalletGap, Gapless, Left, Bottom, Resting
<1>2. ASSUME NEW c \in Crawlers, NEW w \in Wallets, PickNextWallet(c, w) PROVE GapInv'
  <2>1. /\ run[c].pc = "idle" /\ OnlyRun(c) /\ run'[c].pc = "fetch" /\ run'[c].wallet = w
        /\ run'[c].offset = nextOffset[w]
        /\ \A v \in Wallets : overlapped'[v] =
              (overlapped[v] \/ (v = w /\ \E d \in Crawlers : run[d].wallet = w))
        /\ UNCHANGED <<nextOffset, seen, aborted>>
    BY <1>2, AfterPick
  <2>2. run[c].wallet = NoWallet
    BY <2>1 DEF TypeInv
  <2>3. ASSUME ~overlapped'[w]
        PROVE  Resting(w) /\ \A d \in Crawlers : run'[d].wallet = w => d = c
    <3>1. Resting(w)
      BY <2>1, <2>3 DEF Resting
    <3>2. QED
      BY <2>1, <3>1 DEF Resting, OnlyRun
  <2>4. ASSUME ~overlapped'[w], ~aborted'[w]
        PROVE  Gapless(w, Left(c))'
    <3>1. ~overlapped[w] /\ ~aborted[w]
      BY <2>1, <2>4
    <3>2. PICK left : left = nextOffset[w]
      OBVIOUS
    <3>3. Gapless(w, left)
      BY <1>t, <2>3, <2>4, <3>1, <3>2 DEF WalletGap
    <3>4. Gapless(w, left)'
      BY <2>1, <3>3, GaplessKept
    <3>5. Left(c)' = left
      BY <2>1, <3>2 DEF Left, Bottom
    <3>6. QED
      BY <3>4, <3>5
  <2>5. ~Resting(w)'
    BY <2>1 DEF Resting
  <2>6. ASSUME NEW d \in Crawlers, d = c, Gapless(w, Left(c))' PROVE Gapless(w, Left(d))'
    BY <2>6
  <2>7. WalletGap(w)'
    BY <2>1, <2>3, <2>4, <2>5, <2>6 DEF WalletGap
  <2>8. \A v \in Wallets \ {w} : overlapped'[v] = overlapped[v]
    BY <1>2 DEF PickNextWallet, TypeInv, TypeOK
  <2>9. QED
    BY <2>1, <2>2, <2>7, <2>8, GapOfStep
<1>3. ASSUME NEW c \in Crawlers, GetTransactions(c) PROVE GapInv'
  <2>1. PICK w \in Wallets : w = run[c].wallet
    BY <1>3, AfterGet, AtWork
  <2>2. /\ run[c].pc = "fetch" /\ OnlyRun(c)
        /\ run'[c].pc = "tx" /\ run'[c].wallet = w
        /\ run'[c].next + Len(run'[c].page) = IF run[c].offset = 0 THEN head[w] ELSE run[c].offset
        /\ UNCHANGED <<nextOffset, seen, aborted, overlapped>>
    BY <1>3, <2>1, AfterGet
  <2>3. Left(c) = run[c].offset /\ Left(c)' = run'[c].next + Len(run'[c].page)
    BY <2>2 DEF Left, Bottom
  <2>4. PICK old, new : old = Left(c) /\ new = Left(c)'
    OBVIOUS
  <2>5. Gapless(w, old) => Gapless(w, new)'
    <3>1. CASE old = 0
      <4>1. Gapless(w, 0) => \A t \in seen[w] : Readable(t) \subseteq seen[w]
        BY DEF Gapless
      <4>2. QED
        BY <2>2, <3>1, <4>1 DEF Gapless
    <3>2. CASE old # 0
      BY <2>2, <2>3, <2>4, <3>2, GaplessKept
    <3>3. QED
      BY <3>1, <3>2
  <2>6. Gapless(w, Left(c)) => Gapless(w, Left(c))'
    BY <2>4, <2>5
  <2>7. QED
    BY <2>1, <2>2, <2>6, GapOfRun
<1>4. ASSUME NEW c \in Crawlers, SkipMalformed(c) \/ MarkSeen(c) PROVE GapInv'
  <2>1. run[c].pc = "tx" /\ run[c].page # << >>
    BY <1>4, AfterSkip, AfterMark
  <2>2. PICK w \in Wallets : w = run[c].wallet
    BY <2>1, AtWork
  <2>3. PICK t : t = Head(run[c].page)
    OBVIOUS
  <2>4. /\ OnlyRun(c)
        /\ \/ run'[c].pc = "tx" /\ run'[c].page = Tail(run[c].page)
           \/ run'[c].pc = "classify" /\ run'[c].page = run[c].page
           \/ run'[c].pc = "stop" /\ t \in seen[w] /\ Kind[t] # "malformed"
        /\ run'[c].wallet = w /\ run'[c].next = run[c].next
        /\ OnlyAt(w, seen, seen')
        /\ seen[w] \subseteq seen'[w] /\ seen'[w] \subseteq seen[w] \cup {t}
        /\ t \in seen'[w] \/ Kind[t] = "malformed"
        /\ UNCHANGED <<nextOffset, aborted, overlapped>>
    <3>1. CASE SkipMalformed(c)
      BY <2>2, <2>3, <3>1, AfterSkip
    <3>2. CASE MarkSeen(c)
      BY <2>2, <2>3, <3>2, AfterMark
    <3>3. QED
      BY <1>4, <3>1, <3>2
  <2>5. /\ run[c].page \in Seq(Txs) /\ run[c].next \in 0..MaxTx
        /\ Contiguous(run[c].page, run[c].next)
    BY <1>t, <2>1, AtWork DEF Runs, RunInv
  <2>6. /\ Len(Tail(run[c].page)) = Len(run[c].page) - 1 /\ Len(run[c].page) \in Nat \ {0}
        /\ t = run[c].next + Len(run[c].page) /\ t \in Txs
    BY <2>1, <2>3, <2>5, TailLemma
  <2>7. Left(c) = t
    BY <2>1, <2>6 DEF Left, Bottom
  <2>8. run'[c].pc # "stop" => Left(c)' = t - 1
    <3>1. CASE run'[c].pc = "tx" /\ run'[c].page = Tail(run[c].page)
      <4>1. Left(c)' = run'[c].next + Len(run'[c].page)
        BY <3>1 DEF Left, Bottom
      <4>2. Len(run'[c].page) = Len(run[c].page) - 1 /\ run'[c].next = run[c].next
        BY <2>4, <2>6, <3>1
      <4>3. QED
        BY <2>5, <2>6, <4>1, <4>2
    <3>2. CASE run'[c].pc = "classify" /\ run'[c].page = run[c].page
      <4>1. Left(c)' = run'[c].next + Len(run'[c].page) - 1
        BY <3>2 DEF Left, Bottom
      <4>2. QED
        BY <2>4, <2>5, <2>6, <3>2, <4>1
    <3>3. QED
      BY <2>4, <3>1, <3>2
  <2>9. Gapless(w, t) => Gapless(w, Left(c))'
    <3>1. CASE run'[c].pc # "stop"
      BY <2>4, <2>6, <2>8, <3>1, GaplessDown
    <3>2. CASE run'[c].pc = "stop"
      <4>1. t \in seen[w] /\ seen'[w] = seen[w]
        BY <2>4, <3>2
      <4>2. PICK left : left = Left(c)'
        OBVIOUS
      <4>3. Gapless(w, t) => Gapless(w, left)'
        BY <4>1, GaplessStop
      <4>4. QED
        BY <4>2, <4>3
    <3>3. QED
      BY <3>1, <3>2
  <2>10. QED
    BY <2>1, <2>2, <2>4, <2>7, <2>9, GapOfRun DEF OnlyAt
<1>5. ASSUME NEW c \in Crawlers, Classify(c) \/ UpsertEdges(c) PROVE GapInv'
  <2>1. PICK w \in Wallets : w = run[c].wallet
    BY <1>5, AfterClassify, AfterUpsert, AtWork
  <2>2. /\ OnlyRun(c) /\ run'[c].pc \in {"tx", "advance"} /\ run'[c].wallet = w
        /\ UNCHANGED <<nextOffset, seen, aborted, overlapped>>
    <3>1. CASE Classify(c)
      BY <2>1, <3>1, AfterClassify
    <3>2. CASE UpsertEdges(c)
      BY <2>1, <3>2, AfterUpsert
    <3>3. QED
      BY <1>5, <3>1, <3>2
  <2>3. Left(c)' = Left(c)
    <3>1. CASE Classify(c)
      <4>1. /\ run[c].pc = "classify" /\ run[c].page # << >>
            /\ run'[c].pc = "tx" /\ run'[c].page = Tail(run[c].page) /\ run'[c].next = run[c].next
        BY <3>1, AfterClassify
      <4>2. run[c].page \in Seq(Txs) /\ run[c].next \in 0..MaxTx
        BY <4>1, AtWork DEF Runs
      <4>3. Len(Tail(run[c].page)) = Len(run[c].page) - 1 /\ Len(run[c].page) \in Nat \ {0}
        BY <4>1, <4>2, TailLemma
      <4>4. QED
        BY <4>1, <4>2, <4>3 DEF Left, Bottom
    <3>2. CASE UpsertEdges(c)
      <4>1. /\ run[c].pc = "tx" /\ run[c].page = << >>
            /\ run'[c].pc = "advance" /\ run'[c].next = run[c].next
        BY <3>2, AfterUpsert
      <4>2. run[c].next \in 0..MaxTx
        BY <4>1, AtWork DEF Runs
      <4>3. QED
        BY <4>1, <4>2 DEF Left, Bottom
    <3>3. QED
      BY <1>5, <3>1, <3>2
  <2>4. Gapless(w, Left(c)) => Gapless(w, Left(c))'
    BY <2>2, <2>3, GaplessKept
  <2>5. QED
    BY <2>1, <2>2, <2>4, GapOfRun
<1>6. ASSUME NEW c \in Crawlers, Advance(c) \/ StopEarly(c) PROVE GapInv'
  <2>1. PICK w \in Wallets : w = run[c].wallet
    BY <1>6, AfterAdvance, AfterStop, AtWork
  <2>2. /\ OnlyRun(c) /\ run'[c].wallet = w /\ OnlyAt(w, nextOffset, nextOffset')
        /\ run'[c].pc = "fetch" => run'[c].offset = nextOffset'[w]
        /\ UNCHANGED <<seen, aborted, overlapped>>
    <3>1. CASE Advance(c)
      BY <2>1, <3>1, AfterAdvance
    <3>2. CASE StopEarly(c)
      BY <2>1, <3>2, AfterStop
    <3>3. QED
      BY <1>6, <3>1, <3>2
  <2>3. Left(c)' = Left(c)
    <3>1. CASE Advance(c)
      <4>1. /\ run[c].pc = "advance"
            /\ \/ run'[c].pc = "finish" /\ run[c].next = 0
               \/ run'[c].pc \in {"fetch", "pause"} /\ run[c].next # 0
            /\ run'[c].offset = run[c].next /\ nextOffset'[w] = run[c].next
        BY <2>1, <3>1, AfterAdvance
      <4>2. QED
        BY <2>2, <4>1 DEF Left, Bottom
    <3>2. CASE StopEarly(c)
      <4>1. run[c].pc = "stop" /\ run'[c].pc = "pause" /\ nextOffset'[w] = 0
        BY <2>1, <3>2, AfterStop
      <4>2. QED
        BY <2>2, <4>1 DEF Left, Bottom
    <3>3. QED
      BY <1>6, <3>1, <3>2
  <2>4. Gapless(w, Left(c)) => Gapless(w, Left(c))'
    BY <2>2, <2>3, GaplessKept
  <2>5. QED
    BY <2>1, <2>2, <2>4, GapOfRun DEF OnlyAt
<1>7. ASSUME NEW c \in Crawlers, CompleteWallet(c) PROVE GapInv'
  <2>1. PICK w \in Wallets : w = run[c].wallet
    BY <1>7, AfterComplete, AtWork
  <2>2. /\ OnlyRun(c) /\ run'[c] = NoRun /\ OnlyAt(w, nextOffset, nextOffset')
        /\ \/ run[c].pc = "pause" /\ nextOffset'[w] = nextOffset[w]
           \/ run[c].pc = "finish" /\ nextOffset'[w] = 0
        /\ UNCHANGED <<seen, aborted, overlapped>>
    BY <1>7, <2>1, AfterComplete
  <2>3. run'[c].wallet = NoWallet
    BY <2>2 DEF NoRun
  <2>4. nextOffset'[w] = Left(c)
    BY <2>1, <2>2 DEF Left, Bottom
  <2>5. QED
    BY <2>1, <2>2, <2>3, <2>4, GapOfEnd DEF OnlyAt
<1>8. ASSUME NEW c \in Crawlers, Abort(c) PROVE GapInv'
  <2>1. PICK w \in Wallets : w = run[c].wallet
    BY <1>8, AfterAbort, AtWork
  <2>2. /\ OnlyRun(c) /\ run'[c] = NoRun
        /\ OnlyAt(w, aborted, aborted')
        /\ aborted'[w] = (aborted[w] \/ run[c].pc # "fetch")
        /\ UNCHANGED <<nextOffset, seen, overlapped>>
    BY <1>8, <2>1, AfterAbort
  <2>3. run'[c].wallet = NoWallet
    BY <2>2 DEF NoRun
  <2>4. ASSUME ~overlapped[w], ~aborted'[w] PROVE ~aborted[w] /\ nextOffset'[w] = Left(c)
    <3>1. run[c].pc = "fetch" /\ ~aborted[w]
      BY <2>2, <2>4
    <3>2. run[c].offset = nextOffset[w]
      BY <1>t, <2>1, <2>4, <3>1 DEF WalletGap
    <3>3. QED
      BY <2>2, <3>1, <3>2 DEF Left, Bottom
  <2>5. QED
    BY <2>1, <2>2, <2>3, <2>4, GapOfEnd DEF OnlyAt
<1>9. ASSUME NEW w \in Wallets, NewTx(w) PROVE GapInv'
  BY <1>1, <1>9 DEF NewTx, tables, history
<1>10. CASE SyncWalletQueue
  BY <1>1, <1>10 DEF SyncWalletQueue, history
<1>11. CASE UNCHANGED vars
  BY <1>1, <1>11 DEF vars, tables, history
<1>12. QED
  BY <1>2, <1>3, <1>4, <1>5, <1>6, <1>7, <1>8, <1>9, <1>10, <1>11 DEF Next, Crawl

-----------------------------------------------------------------------------
(* The theorems.                                                           *)

Inv ==
    /\ TypeInv
    /\ WalkInv
    /\ CoverInv
    /\ EdgeInv
    /\ GapInv

LEMMA InvHolds == Spec => []Inv
<1>1. Init => Inv
  <2> SUFFICES ASSUME Init PROVE Inv
    OBVIOUS
  <2> USE CrawlAssumption
  <2>1. NoRun.pc = "idle" /\ NoRun.wallet = NoWallet /\ NoRun.edges = {} /\ NoRun \in Runs
    BY DEF NoRun, Runs, Steps
  <2>2. TypeOK
    BY <2>1 DEF Init, TypeOK, Runs
  <2>3. \A c \in Crawlers : run[c] = NoRun
    BY DEF Init
  <2>4. TypeInv
    BY <2>1, <2>2, <2>3 DEF TypeInv
  <2>5. \A c \in Crawlers : RunInv(c) /\ RunCover(c) /\ RunEdge(c)
    BY <2>1, <2>3 DEF RunInv, RunCover, RunEdge
  <2>6. \A w \in Wallets : /\ covered[w] = -1 /\ nextOffset[w] = 0 /\ seen[w] = {}
                           /\ complete[w] = FALSE /\ head[w] \in 0..MaxTx
    BY DEF Init
  <2>7. \A w \in Wallets : WalletInv(w) /\ WalletCover(w) /\ WalletEdge(w)
    BY <2>6 DEF WalletInv, WalletCover, WalletEdge
  <2>8. \A w \in Wallets : WalletGap(w)
    BY <2>1, <2>3, <2>6 DEF WalletGap, Gapless
  <2>9. QED
    BY <2>4, <2>5, <2>7, <2>8 DEF Inv, WalkInv, CoverInv, EdgeInv, GapInv
<1>2. Inv /\ [Next]_vars => Inv'
  BY TypeStep, WalkStep, CoverStep, EdgeStep, GapStep DEF Inv
<1>3. QED
  BY <1>1, <1>2, PTL DEF Spec

\* Every column, the memory of every run and the history have their types in
\* every state.
THEOREM TypeCorrect == Spec => []TypeOK
<1>1. Inv => TypeOK
  BY DEF Inv, TypeInv
<1>2. QED
  BY <1>1, InvHolds, PTL

\* The backfill flag of a wallet is set only when every readable transaction
\* there was when its backfill began has been visited, whatever runs were cut
\* short and however many crawlers shared the wallet.
THEOREM BackfillCoversCorrect == Spec => []BackfillCovers
<1>1. CoverInv => BackfillCovers
  <2>1. \A w \in Wallets : Visited(w, 0) => Readable(covered[w]) \subseteq seen[w]
    BY DEF Visited
  <2>2. QED
    BY <2>1 DEF CoverInv, WalletCover, BackfillCovers
<1>2. QED
  BY <1>1, InvHolds, PTL DEF Inv

\* The transfers of a finished backfill are in the graph, unless a run of the
\* wallet was cut short within a page or is under way.
THEOREM BackfillStoresEdgesCorrect == Spec => []BackfillStoresEdges
<1>1. Inv => BackfillStoresEdges
  <2> SUFFICES ASSUME Inv, NEW w \in Wallets, complete[w], ~aborted[w], Resting(w),
                      NEW t \in 1..covered[w], Kind[t] = "transfer"
               PROVE  t \in graph[w]
    BY DEF BackfillStoresEdges
  <2>1. covered[w] \in Int
    BY CrawlAssumption DEF Inv, TypeInv, TypeOK
  <2>2. t \in Readable(covered[w])
    BY <2>1 DEF Readable
  <2>3. t \in seen[w]
    BY <2>2 DEF Inv, CoverInv, WalletCover, Visited
  <2>4. \A c \in Crawlers : ~Holds(c, w, t)
    BY DEF Resting, Holds
  <2>5. QED
    BY <2>1, <2>3, <2>4 DEF Inv, EdgeInv, WalletEdge
<1>2. QED
  BY <1>1, InvHolds, PTL

\* The early stop of an incremental run skips nothing, for a wallet that no run
\* was cut short on and no two crawlers shared: between runs, with no offset to
\* resume from, no readable transaction below a seen one is unseen.
THEOREM NoGapsCorrect == Spec => []NoGaps
<1>1. Inv => NoGaps
  <2> SUFFICES ASSUME Inv, NEW w \in Wallets, nextOffset[w] = 0, Resting(w),
                      ~aborted[w], ~overlapped[w], NEW t \in seen[w]
               PROVE  Readable(t) \subseteq seen[w]
    BY DEF NoGaps
  <2>1. Gapless(w, 0)
    BY DEF Inv, GapInv, WalletGap
  <2>2. Readable(t) \ (IF t > 0 THEN 1..0 ELSE {}) \subseteq seen[w]
    BY <2>1 DEF Gapless
  <2>3. (IF t > 0 THEN 1..0 ELSE {}) = {}
    OBVIOUS
  <2>4. QED
    BY <2>2, <2>3
<1>2. QED
  BY <1>1, InvHolds, PTL

-----------------------------------------------------------------------------
(* The Dune client under the crawler, for every number of retries: what is *)
(* proved of a crawl holds of a crawl over requests that may fail.         *)

\* Of the two bodies only the page of the wallet is accepted.
LEMMA AnsweredIsPage ==
    ASSUME NEW c \in Crawlers, NEW body \in {PageBody(c), OtherBody}, Answered(c, body)
    PROVE  GetTransactions(c)
<1>1. body = PageBody(c)
  BY DEF Answered, Accepted, OtherBody
<1>2. /\ body.transactions = PageFrom(Top(c)) /\ body.next = NextOf(Top(c))
      /\ body.transactions # Missing
  BY <1>1 DEF PageBody, Answered, Accepted
<1>3. TakePage(c, body.transactions, body.next)
  BY <1>2 DEF Answered
<1>4. QED
  BY <1>2, <1>3 DEF GetTransactions

\* A request that fails is tried again, which the crawl does not notice, or cuts
\* the run short; one that succeeds gives the next page of the wallet.  No other
\* body ends the retries, so a backfill is never completed by a body without a
\* page.
THEOREM FetchImplementsCrawl == FetchSpec => ImplementsWalletCrawl
<1>1. FetchInit => Init
  BY DEF FetchInit
<1>2. [FetchNext]_fetchVars => [Next]_vars
  <2> SUFFICES ASSUME [FetchNext]_fetchVars PROVE [Next]_vars
    OBVIOUS
  <2>1. CASE SyncWalletQueue \/ \E w \in Wallets : NewTx(w)
    BY <2>1 DEF Next
  <2>2. ASSUME NEW c \in Crawlers, Fetch(c) PROVE [Next]_vars
    <3>1. CASE Retry(c)
      BY <3>1 DEF Retry
    <3>2. CASE Fail(c)
      BY <3>2 DEF Fail, Next
    <3>3. CASE \E body \in {PageBody(c), OtherBody} : Answered(c, body)
      BY <3>3, AnsweredIsPage DEF Next, Crawl
    <3>4. QED
      BY <2>2, <3>1, <3>2, <3>3 DEF Fetch
  <2>3. ASSUME NEW c \in Crawlers, Rest(c) PROVE [Next]_vars
    BY <2>3 DEF Rest, Next
  <2>4. ASSUME NEW c \in Crawlers, Abort(c) PROVE [Next]_vars
    BY <2>4 DEF Next
  <2>5. CASE UNCHANGED fetchVars
    BY <2>5 DEF fetchVars
  <2>6. QED
    BY <2>1, <2>2, <2>3, <2>4, <2>5 DEF FetchNext
<1>3. QED
  BY <1>1, <1>2, PTL DEF FetchSpec, Spec, ImplementsWalletCrawl

\* A backfill whose requests fail, are tried again and are answered with bodies
\* that are no page is still completed only when it has visited everything.
THEOREM FetchCovers == FetchSpec => [](BackfillCovers /\ BackfillStoresEdges /\ NoGaps)
BY FetchImplementsCrawl, BackfillCoversCorrect, BackfillStoresEdgesCorrect, NoGapsCorrect, PTL
DEF ImplementsWalletCrawl
===============================================================================
