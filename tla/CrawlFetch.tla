------------------------------ MODULE CrawlFetch ------------------------------
(***************************************************************************)
(* The Dune client (internal/dune/client.go) under the crawler: the        *)
(* requests that one GetTransactions makes, and what becomes of a crawl    *)
(* when they fail.  The backoff, the rate limiter and the request itself   *)
(* are one step; a context cancelled meanwhile is an Abort.                *)
(***************************************************************************)
EXTENDS WalletCrawl

CONSTANTS
    MaxRetries,    \* config CRAWL_MAX_RETRIES
    Missing        \* no transactions[] in the body

ASSUME FetchAssumption == MaxRetries \in Nat

VARIABLE attempt   \* attempt[c]: the loop counter of c's GetTransactions

fetchVars == <<vars, attempt>>

FetchInit == Init /\ attempt = [c \in Crawlers |-> 0]

\* The body that Dune has for c, and some other JSON.
PageBody(c) == [transactions |-> PageFrom(Top(c)), next |-> NextOf(Top(c))]

OtherBody == [transactions |-> Missing, next |-> 0]

\* Fault: a body is a page.
AcceptedAny(body) == TRUE

Accepted(body) == body.transactions # Missing

\* GetTransactions returns: the next one starts from attempt 0.
Returns(c) == attempt' = [attempt EXCEPT ![c] = 0]

\* A network error, or status 429 or 5xx: one more attempt.
Retry(c) ==
    /\ attempt[c] < MaxRetries
    /\ attempt' = [attempt EXCEPT ![c] = @ + 1]
    /\ UNCHANGED vars

\* The body of any other status than 400, 401, 403 and 404 is decoded.
Answered(c, body) ==
    /\ Accepted(body)
    /\ TakePage(c, IF body.transactions = Missing THEN << >> ELSE body.transactions, body.next)
    /\ Returns(c)

\* The error ends CrawlOnce: the last attempt failed, the request was refused,
\* or the body does not decode or is no page.
Fail(c) ==
    /\ Abort(c)
    /\ Returns(c)

Fetch(c) ==
    /\ run[c].pc = "fetch"
    /\ Retry(c) \/ Fail(c) \/ \E body \in {PageBody(c), OtherBody} : Answered(c, body)

\* The rest of the crawl.
Rest(c) == run[c].pc # "fetch" /\ Crawl(c) /\ UNCHANGED attempt

FetchNext ==
    \/ (SyncWalletQueue \/ \E w \in Wallets : NewTx(w)) /\ UNCHANGED attempt
    \/ \E c \in Crawlers : \/ Fetch(c) \/ Rest(c)
                           \/ Abort(c) /\ Returns(c)

FetchSpec == FetchInit /\ [][FetchNext]_fetchVars

\* The loop of every crawler goes on.  External: whoever asks again and again for
\* the transactions of a wallet is answered again and again.
FetchFairSpec ==
    /\ FetchSpec
    /\ \A c \in Crawlers : WF_fetchVars(Fetch(c) \/ Rest(c))
    /\ \A w \in Wallets :
          SF_fetchVars(\E c \in Crawlers : run[c].wallet = w /\ Answered(c, PageBody(c)))

-----------------------------------------------------------------------------
(* Properties.                                                             *)

\* With its retries and errors GetTransactions still gives a page of the wallet,
\* or cuts the run short (client.go:48-104): a body without transactions[] is
\* never taken for the last page, which would complete a backfill.
ImplementsWalletCrawl == Spec

\* Every queued wallet's backfill gets to its end, though any request may fail
\* in every way, as long as runs are no longer cut short anywhere else: each
\* page is a lasting step (runner.go:103-113), and a wallet whose run failed, for
\* which last_completed_at does not move, is picked again (state.go:111).
BackfillSurvivesFailures ==
    (<>[][\A c \in Crawlers : run[c].pc # "fetch" => ~Abort(c)]_vars) =>
       \A w \in Wallets : w \in queued ~> complete[w]
=============================================================================
