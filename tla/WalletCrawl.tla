----------------------------- MODULE WalletCrawl -----------------------------
(***************************************************************************)
(* The wallet crawler: internal/crawler (PickNextWallet, CrawlOnce and the *)
(* statements of state.go) in the loop of cmd/pumpy-crawl/main.go.         *)
(*                                                                         *)
(* The transactions of a wallet are 1..head[w], 1 the oldest.  Dune serves *)
(* them newest first in pages of PageLimit; an offset names the            *)
(* transaction the next page starts with, and 0 stands for a missing one   *)
(* (SQL NULL, nil, the empty string).  Every SQL statement and the Neo4j   *)
(* transaction are one step each, so a run can end between any two of      *)
(* them: by an error, by the cancelled context or by the death of the      *)
(* process.  What it had in memory is then gone.                           *)
(*                                                                         *)
(* transaction_min and api_request_log are written for diagnosis only, no  *)
(* step depends on them, and they are left out; so are the statistics of   *)
(* wallet_crawl_state (pages_fetched, error_count, ...).                   *)
(***************************************************************************)
EXTENDS Integers, Sequences, FiniteSets, SequencesExt

CONSTANTS
    Wallets,          \* wallets that may trade
    Crawlers,         \* pumpy-crawl processes on one database
    NoWallet,
    MaxTx,            \* BOUND: transactions of a wallet
    Kind,             \* Kind[t]: "transfer", "plain" or "malformed"
    PageLimit,        \* config CRAWL_PAGE_LIMIT
    MaxPagesPerRun,   \* config CRAWL_MAX_PAGES_PER_RUN
    StopAfterSeen     \* config CRAWL_STOP_AFTER_SEEN

Txs == 1..MaxTx

ASSUME CrawlAssumption ==
    /\ NoWallet \notin Wallets
    /\ MaxTx \in Nat
    \* "transfer": yields edges; "plain": failed, excluded as a pump trade or
    \* without a transfer of this wallet; "malformed": Normalize returns an error
    /\ Kind \in [Txs -> {"transfer", "plain", "malformed"}]
    /\ PageLimit \in Nat \ {0}
    /\ MaxPagesPerRun \in Nat \ {0}
    /\ StopAfterSeen \in Nat \ {0}

VARIABLES
    head,       \* head[w]: transactions of w on the chain so far
    queued,     \* wallets with a row in wallet_crawl_state
    complete,   \* wallet_crawl_state.backfill_complete
    nextOffset, \* wallet_crawl_state.next_offset
    order,      \* wallets with a last_completed_at, earliest first
    seen,       \* wallet_tx_seen
    graph,      \* graph[w]: transactions whose edges are in Neo4j
    run,        \* run[c]: what crawler c is doing
    covered,    \* history: head[w] when w's backfill began, -1 before
    aborted,    \* history: a run of w was cut short within a page
    overlapped  \* history: two crawlers worked on w at once

tables == <<queued, complete, nextOffset, order, seen, graph>>
history == <<covered, aborted, overlapped>>
vars == <<head, tables, run, history>>

NoRun == [pc |-> "idle", wallet |-> NoWallet, backfill |-> FALSE, offset |-> 0,
          old |-> 0, pages |-> 0, page |-> << >>, next |-> 0, edges |-> {}]

Steps == {"idle", "fetch", "tx", "classify", "advance", "stop", "pause", "finish"}

TypeOK ==
    /\ head \in [Wallets -> 0..MaxTx]
    /\ queued \subseteq Wallets
    /\ complete \in [Wallets -> BOOLEAN]
    /\ nextOffset \in [Wallets -> 0..MaxTx]
    /\ order \in Seq(Wallets)
    /\ seen \in [Wallets -> SUBSET Txs]
    /\ graph \in [Wallets -> SUBSET Txs]
    /\ run \in [Crawlers -> [pc : Steps, wallet : Wallets \cup {NoWallet},
                             backfill : BOOLEAN, offset : 0..MaxTx, old : 0..StopAfterSeen,
                             pages : 0..MaxPagesPerRun, page : Seq(Txs), next : 0..MaxTx,
                             edges : SUBSET Txs]]
    /\ covered \in [Wallets -> -1..MaxTx]
    /\ aborted \in [Wallets -> BOOLEAN]
    /\ overlapped \in [Wallets -> BOOLEAN]

Init ==
    /\ head \in [Wallets -> 0..MaxTx]
    /\ queued = {}
    /\ complete = [w \in Wallets |-> FALSE]
    /\ nextOffset = [w \in Wallets |-> 0]
    /\ order = << >>
    /\ seen = [w \in Wallets |-> {}]
    /\ graph = [w \in Wallets |-> {}]
    /\ run = [c \in Crawlers |-> NoRun]
    /\ covered = [w \in Wallets |-> -1]
    /\ aborted = [w \in Wallets |-> FALSE]
    /\ overlapped = [w \in Wallets |-> FALSE]

\* The wallet makes a transaction.
NewTx(w) ==
    /\ head[w] < MaxTx
    /\ head' = [head EXCEPT ![w] = @ + 1]
    /\ UNCHANGED <<tables, run, history>>

-----------------------------------------------------------------------------
(* The queue.                                                              *)

\* The traders of the table trades are queued every five minutes.  A row that is
\* there already is not touched.  traders is external: any wallet may trade.
SyncWalletQueue ==
    /\ \E traders \in SUBSET Wallets : queued' = queued \cup traders
    /\ UNCHANGED <<head, complete, nextOffset, order, seen, graph, run, history>>

Completed == {order[i] : i \in 1..Len(order)}

\* last_completed_at = now() for w.
MovedToEnd(w) ==
    Append(IF w \in Completed THEN RemoveAt(order, CHOOSE i \in 1..Len(order) : order[i] = w)
           ELSE order, w)

\* w comes first by last_completed_at NULLS FIRST among the wallets in ws.
FirstOf(w, ws) ==
    /\ w \in ws
    /\ IF ws \subseteq Completed
       THEN \E i \in 1..Len(order) : /\ order[i] = w
                                     /\ \A j \in 1..(i - 1) : order[j] \notin ws
       ELSE w \notin Completed

\* ORDER BY backfill_complete, last_completed_at NULLS FIRST LIMIT 1 among the
\* rows ws.  Whether the age of a completed wallet makes it due is left open.
Picked(w, ws) ==
    LET unfinished == {v \in ws : ~complete[v]}
    IN  IF unfinished # {} THEN FirstOf(w, unfinished) ELSE FirstOf(w, ws)

\* FOR UPDATE SKIP LOCKED passes over a row that an idle crawler is picking at
\* this moment.  The row lock is gone with the commit, before the crawl begins:
\* another crawler may pick the wallet again.
PickNextWallet(c, w) ==
    /\ run[c].pc = "idle"
    /\ \E locked \in SUBSET (queued \ {w}) :
          /\ Cardinality(locked) <= Cardinality({d \in Crawlers \ {c} : run[d].pc = "idle"})
          /\ Picked(w, queued \ locked)
    /\ run' = [run EXCEPT ![c] = [NoRun EXCEPT !.pc = "fetch", !.wallet = w,
                 !.backfill = ~complete[w], !.offset = nextOffset[w]]]
    /\ overlapped' = [overlapped EXCEPT ![w] = @ \/ \E d \in Crawlers : run[d].wallet = w]
    /\ UNCHANGED <<head, tables, covered, aborted>>

-----------------------------------------------------------------------------
(* CrawlOnce.                                                              *)

\* The page that starts at transaction top.
PageFrom(top) ==
    [i \in 1..(IF top < PageLimit THEN top ELSE PageLimit) |-> top - i + 1]

\* The transaction the next page of c starts with.
Top(c) == IF run[c].offset = 0 THEN head[run[c].wallet] ELSE run[c].offset

NextOf(top) == IF top > PageLimit THEN top - PageLimit ELSE 0

\* GetTransactions gives c a page and the offset of the next one.
TakePage(c, page, next) ==
    /\ run[c].pc = "fetch"
    /\ run' = [run EXCEPT ![c].pc = "tx", ![c].page = page, ![c].next = next,
                          ![c].edges = {}]
    /\ covered' = [covered EXCEPT ![run[c].wallet] =
                     IF run[c].backfill /\ run[c].offset = 0 /\ @ = -1
                     THEN head[run[c].wallet] ELSE @]
    /\ UNCHANGED <<head, tables, aborted, overlapped>>

\* Its retries and errors are in CrawlFetch.
GetTransactions(c) == TakePage(c, PageFrom(Top(c)), NextOf(Top(c)))

\* INSERT ... ON CONFLICT DO NOTHING: a row is there once, whoever inserts it.
WithSeen(w, t) == [seen EXCEPT ![w] = @ \cup {t}]

\* The statement that moves the offset of w; it touches no other column of use.
UpdateCrawlState(w, offset) == nextOffset' = [nextOffset EXCEPT ![w] = offset]

\* Crawler c is at a transaction of its page whose kind is in kinds.
AtTx(c, kinds) ==
    /\ run[c].pc = "tx"
    /\ run[c].page # << >>
    /\ Kind[Head(run[c].page)] \in kinds

\* Normalize fails: the transaction is passed over for good.  An error of this
\* MarkSeen is ignored.
SkipMalformed(c) ==
    LET w == run[c].wallet
    IN  /\ AtTx(c, {"malformed"})
        /\ seen' \in {seen, WithSeen(w, Head(run[c].page))}
        /\ run' = [run EXCEPT ![c].page = Tail(@)]
        /\ UNCHANGED <<head, queued, complete, nextOffset, order, graph, history>>

\* MarkSeen of the next transaction of the page.  One that was not seen before
\* goes on to be classified; one that was counts, in incremental mode only,
\* towards the early stop.
MarkSeen(c) ==
    LET r == run[c]
        t == Head(r.page)
        skip == [r EXCEPT !.page = Tail(@)]
    IN  /\ AtTx(c, {"transfer", "plain"})
        /\ seen' = WithSeen(r.wallet, t)
        /\ run' = [run EXCEPT ![c] =
             IF t \notin seen[r.wallet] THEN [r EXCEPT !.pc = "classify", !.old = 0]
             ELSE IF r.backfill THEN skip
             ELSE IF r.old + 1 >= StopAfterSeen THEN [r EXCEPT !.pc = "stop"]
             ELSE [skip EXCEPT !.old = @ + 1]]
        /\ UNCHANGED <<head, queued, complete, nextOffset, order, graph, history>>

\* Classify, StoreTransactionMin and extractSOLEdges: the edges stay in memory.
Classify(c) ==
    LET r == run[c]
        t == Head(r.page)
    IN  /\ r.pc = "classify"
        /\ run' = [run EXCEPT ![c] = [r EXCEPT !.pc = "tx", !.page = Tail(@),
             !.edges = IF Kind[t] = "transfer" THEN @ \cup {t} ELSE @]]
        /\ UNCHANGED <<head, tables, history>>

\* Fault: a failed write to Neo4j is logged and the run goes on.
UpsertEdgesIgnoresError(c) ==
    LET r == run[c]
    IN  /\ r.pc = "tx"
        /\ r.page = << >>
        /\ graph' \in {graph, [graph EXCEPT ![r.wallet] = @ \cup r.edges]}
        /\ run' = [run EXCEPT ![c].pc = "advance"]
        /\ UNCHANGED <<head, queued, complete, nextOffset, order, seen, history>>

\* At the end of the page the edges are written in one Neo4j transaction.
UpsertEdges(c) ==
    LET r == run[c]
    IN  /\ r.pc = "tx"
        /\ r.page = << >>
        /\ graph' = [graph EXCEPT ![r.wallet] = @ \cup r.edges]
        /\ run' = [run EXCEPT ![c].pc = "advance"]
        /\ UNCHANGED <<head, queued, complete, nextOffset, order, seen, history>>

\* Fault: a run fetches a page more than it may.
AdvanceOneMore(c) ==
    LET r == run[c]
        pages == r.pages + 1
    IN  /\ r.pc = "advance"
        /\ UpdateCrawlState(r.wallet, r.next)
        /\ run' = [run EXCEPT ![c] = [r EXCEPT !.pages = pages, !.edges = {},
             !.offset = r.next,
             !.pc = IF r.next = 0 THEN "finish"
                    ELSE IF pages <= MaxPagesPerRun THEN "fetch" ELSE "pause"]]
        /\ UNCHANGED <<head, queued, complete, order, seen, graph, history>>

\* UpdateCrawlState with the offset of the next page.
Advance(c) ==
    LET r == run[c]
        pages == r.pages + 1
    IN  /\ r.pc = "advance"
        /\ UpdateCrawlState(r.wallet, r.next)
        /\ run' = [run EXCEPT ![c] = [r EXCEPT !.pages = pages, !.edges = {},
             !.offset = r.next,
             !.pc = IF r.next = 0 THEN "finish"
                    ELSE IF pages < MaxPagesPerRun THEN "fetch" ELSE "pause"]]
        /\ UNCHANGED <<head, queued, complete, order, seen, graph, history>>

\* StopAfterSeen seen transactions in a row: UpdateCrawlState with no offset.
\* The edges of this page are not written.
StopEarly(c) ==
    /\ run[c].pc = "stop"
    /\ UpdateCrawlState(run[c].wallet, 0)
    /\ run' = [run EXCEPT ![c].pc = "pause"]
    /\ UNCHANGED <<head, queued, complete, order, seen, graph, history>>

\* Fault: the backfill counts as done when the run is over.
CompleteWalletAlways(c) ==
    LET w == run[c].wallet
        done == run[c].pc \in {"pause", "finish"}
    IN  /\ run[c].pc \in {"pause", "finish"}
        /\ complete' = [complete EXCEPT ![w] = @ \/ done]
        /\ nextOffset' = [nextOffset EXCEPT ![w] = IF done THEN 0 ELSE @]
        /\ order' = MovedToEnd(w)
        /\ run' = [run EXCEPT ![c] = NoRun]
        /\ UNCHANGED <<head, queued, seen, graph, history>>

\* Fault: the offset is cleared at the end of every run.
CompleteWalletForgetsOffset(c) ==
    LET w == run[c].wallet
        done == run[c].pc = "finish"
    IN  /\ run[c].pc \in {"pause", "finish"}
        /\ complete' = [complete EXCEPT ![w] = @ \/ done]
        /\ nextOffset' = [nextOffset EXCEPT ![w] = 0]
        /\ order' = MovedToEnd(w)
        /\ run' = [run EXCEPT ![c] = NoRun]
        /\ UNCHANGED <<head, queued, seen, graph, history>>

\* CompleteWallet, with backfillDone only when the last page was reached.
CompleteWallet(c) ==
    LET w == run[c].wallet
        done == run[c].pc = "finish"
    IN  /\ run[c].pc \in {"pause", "finish"}
        /\ complete' = [complete EXCEPT ![w] = @ \/ done]
        /\ nextOffset' = [nextOffset EXCEPT ![w] = IF done THEN 0 ELSE @]
        /\ order' = MovedToEnd(w)
        /\ run' = [run EXCEPT ![c] = NoRun]
        /\ UNCHANGED <<head, queued, seen, graph, history>>

\* A statement fails, the context is cancelled or the process dies.
Abort(c) ==
    /\ run[c].pc # "idle"
    /\ run' = [run EXCEPT ![c] = NoRun]
    /\ aborted' = [aborted EXCEPT ![run[c].wallet] = @ \/ run[c].pc # "fetch"]
    /\ UNCHANGED <<head, tables, covered, overlapped>>

-----------------------------------------------------------------------------
Crawl(c) ==
    \/ \E w \in Wallets : PickNextWallet(c, w)
    \/ GetTransactions(c) \/ SkipMalformed(c) \/ MarkSeen(c) \/ Classify(c) \/ UpsertEdges(c)
    \/ Advance(c) \/ StopEarly(c) \/ CompleteWallet(c)

Next ==
    \/ \E w \in Wallets : NewTx(w)
    \/ SyncWalletQueue
    \/ \E c \in Crawlers : Crawl(c) \/ Abort(c)

Spec == Init /\ [][Next]_vars

-----------------------------------------------------------------------------
(* Properties.                                                             *)

Resting(w) == \A c \in Crawlers : run[c].wallet # w

\* The transactions up to t that can be read.
Readable(t) == {u \in 1..t : Kind[u] # "malformed"}

\* The backfill flag is never set too early (runner.go:107-108): the readable
\* transactions there were when the backfill began have all been visited,
\* through any number of runs, aborts and crawlers sharing the wallet.
BackfillCovers ==
    \A w \in Wallets : complete[w] => Readable(covered[w]) \subseteq seen[w]

\* And without aborted runs they are all in the graph (runner.go:97-104: the
\* edges of a page are written before the offset moves past it).
BackfillStoresEdges ==
    \A w \in Wallets :
       complete[w] /\ ~aborted[w] /\ Resting(w) =>
          {t \in 1..covered[w] : Kind[t] = "transfer"} \subseteq graph[w]

\* The early stop of incremental runs (runner.go:60-69) skips nothing: between
\* runs, with no offset to resume from, no readable transaction below a seen
\* one is unseen.  It takes runs that are neither aborted nor overlapping.
NoGaps ==
    \A w \in Wallets :
       /\ complete[w] /\ nextOffset[w] = 0 /\ Resting(w)
       /\ ~aborted[w] /\ ~overlapped[w]
       => \A t \in seen[w] : Readable(t) \subseteq seen[w]

\* wallet_tx_seen is "which signatures we've already processed for which
\* wallet" (schema.go:78): a transfer in it has its edges in the graph, at
\* least while nothing was ever aborted and no crawler is at work on it.
SeenMeansProcessed ==
    \A w \in Wallets :
       ~aborted[w] /\ Resting(w) =>
          {t \in seen[w] : Kind[t] = "transfer"} \subseteq graph[w]
=============================================================================
