----------------------------- MODULE CoinSearch -----------------------------
(***************************************************************************)
(* What a symbol resolves to: the live list of verified coins              *)
(* (utils/coin-registry.ts), the pool search (utils/ticker-search.ts) and  *)
(* the scan of on-chain metadata (discovery.ts), each with a cache and one *)
(* refresh in flight that several calls may share.                         *)
(*                                                                         *)
(* All calls ask for one symbol, which the checked-in list does not have,  *)
(* on mainnet.                                                             *)
(***************************************************************************)
EXTENDS Integers, FiniteSets

CONSTANTS
  Asker,          \* calls of resolveSymbolDetailed
  Lister,         \* calls of searchTokens
  Coin,           \* coins that a source may name for the symbol
  Markets,        \* what is true of them
  Pages,          \* how many pages of metadata there may be
  MaxScanPages,   \* MAX_SCAN_PAGES
  MaxCandidates,  \* MAX_CANDIDATES
  MaxRelists,     \* bound: how often the live list changes
  MaxExpiries     \* bound: how often a cache outlives its TTL

ASSUME CoinSearchAssumption ==
  /\ Asker \cap Lister = {}
  /\ IsFiniteSet(Coin)
  /\ Pages \subseteq Nat \ {0} /\ MaxScanPages \in Nat \ {0}
  /\ MaxCandidates \in Nat \ {0} /\ MaxRelists \in Nat /\ MaxExpiries \in Nat

VARIABLES
  market,      \* per coin: its symbol on chain, the page of its metadata, who has its pools
  pages,       \* how many pages there are
  listed,      \* what the live list serves
  relists,     \* how often it changed
  expiries,    \* how often a cache expired
  liveOnly,    \* liveOnly
  liveDue,     \* liveFetchedAt is older than LIVE_TTL_MS
  liveFlight,  \* liveInFlight: nothing, "list", or the new coins of the list it read
  lastList,    \* history: what the last fetch that succeeded was served
  emptied,     \* history: that was nothing beyond the checked-in list
  hunt,        \* inFlight of searchLiveTickers
  tickers,     \* cache of searchLiveTickers
  walk,        \* fetchInProgress
  tokens,      \* tokenCache
  symbolKnown, \* symbolCache has the symbol
  asks         \* each call

truth == <<market, pages>>
list == <<listed, relists, expiries>>
live == <<liveOnly, liveDue, liveFlight, lastList, emptied>>
search == <<hunt, tickers>>
scans == <<walk, tokens, symbolKnown>>
coinVars == <<truth, list, live, search, scans, asks>>

User == Asker \cup Lister

Nothing == [at |-> "nothing"]

\* A LiveTickerSearch: candidates confirmed on chain, whether GeckoTerminal was
\* read, and what the search knows it missed.
NoResult == [coins |-> {}, gecko |-> FALSE, partial |-> FALSE, down |-> FALSE,
             unconfirmed |-> FALSE]

\* A ScanReport, with the tokens of a TokenScan.
NoScan == [coins |-> {}, truncated |-> FALSE, failed |-> FALSE]

NewAsk == [at |-> "idle", page |-> 1, found |-> NoResult, scan |-> NoScan,
           verdict |-> "none"]

NewHunt == [at |-> "dex", term |-> 1, indexed |-> {}, cut |-> FALSE, todo |-> {},
            found |-> NoResult]

NewWalk == [at |-> "walk", page |-> 1, coins |-> {}]

Exact(c) == market[c].symbol = "exact"
Alike(c) == market[c].symbol \in {"exact", "alike"}
OnPage(n) == { c \in Coin : market[c].page = n }

CoinInit ==
  /\ market \in Markets /\ pages \in Pages
  /\ listed \in SUBSET Coin /\ relists = 0 /\ expiries = 0
  /\ liveOnly = {} /\ liveDue = TRUE /\ liveFlight = Nothing
  /\ lastList = {} /\ emptied = FALSE
  /\ hunt = Nothing /\ tickers = Nothing
  /\ walk = Nothing /\ tokens = Nothing /\ symbolKnown = FALSE
  /\ asks = [u \in User |-> NewAsk]

-----------------------------------------------------------------------------
(* refreshLiveCoins and fetchLive. *)

\* The endpoint serves another list.
Relist ==
  /\ relists < MaxRelists
  /\ relists' = relists + 1
  /\ listed' \in SUBSET Coin
  /\ UNCHANGED <<expiries, truth, live, search, scans, asks>>

\* What a caller of refreshLiveCoins does next: it goes on, or awaits the flight.
AfterRefresh == IF liveDue THEN "refresh" ELSE "vouch"
FlightAsked ==
  IF liveDue /\ liveFlight = Nothing THEN [at |-> "list"] ELSE liveFlight

\* The flight is over: it is not due again, and whoever awaited it goes on.
Landed ==
  /\ liveFlight' = Nothing
  /\ liveDue' = FALSE
  /\ asks' = [u \in User |->
                IF asks[u].at = "refresh" THEN [asks[u] EXCEPT !.at = "vouch"] ELSE asks[u]]
  /\ hunt' = IF hunt.at = "refresh" THEN [hunt EXCEPT !.at = "vouch"] ELSE hunt

\* Beside what an earlier list vouched for.
Joining(fresh) == liveOnly \cup fresh

\* clear(), and the fresh coins.
Replacing(fresh) == fresh

FetchLive ==
  /\ \/ /\ liveFlight = [at |-> "list"] /\ listed # {}
        /\ liveFlight' = [at |-> "metadata", fresh |-> listed]
        /\ UNCHANGED <<liveOnly, liveDue, lastList, emptied, asks, hunt>>
     \/ /\ liveFlight = [at |-> "list"] /\ listed = {}
        /\ lastList' = {} /\ emptied' = TRUE
        /\ Landed
        /\ UNCHANGED liveOnly
     \/ /\ liveFlight.at = "metadata"
        /\ liveOnly' = Replacing(liveFlight.fresh)
        /\ lastList' = liveFlight.fresh /\ emptied' = FALSE
        /\ Landed
  /\ UNCHANGED <<truth, list, tickers, scans>>

\* Either request errs: what was there stays, until the list is due again.
FetchLiveFails ==
  /\ liveFlight # Nothing
  /\ Landed
  /\ UNCHANGED <<truth, list, liveOnly, lastList, emptied, tickers, scans>>

-----------------------------------------------------------------------------
(* searchLiveTickers. *)

Dex == { c \in Coin : market[c].dex }
Gecko == { c \in Coin : market[c].gecko }

\* A page of pools: all the provider has, or what its cap leaves of it.
ReadPools ==
  /\ \/ /\ hunt.at = "dex"
        /\ \E cut \in BOOLEAN : \E page \in (IF cut THEN SUBSET Dex ELSE {Dex}) :
             LET indexed == hunt.indexed \cup page
                 dexCut == hunt.cut \/ cut
             IN hunt' = [hunt EXCEPT
                           !.indexed = indexed, !.cut = dexCut, !.term = 2,
                           !.at = CASE hunt.term = 1 -> "dex"
                                    [] indexed # {} /\ ~dexCut -> "pooled"
                                    [] OTHER -> "gecko"]
     \/ /\ hunt.at = "gecko"
        /\ \E cut \in BOOLEAN : \E page \in (IF cut THEN SUBSET Gecko ELSE {Gecko}) :
             hunt' = [hunt EXCEPT !.indexed = @ \cup page, !.cut = (@ \/ cut),
                                  !.found.gecko = TRUE, !.at = "pooled"]
  /\ UNCHANGED <<truth, list, live, tickers, scans, asks>>

\* A provider that fails is not asked its second term.
PoolsFail ==
  /\ hunt.at \in {"dex", "gecko"}
  /\ hunt' = [hunt EXCEPT !.at = IF hunt.at = "dex" THEN "gecko" ELSE "pooled",
                          !.found.down = TRUE]
  /\ UNCHANGED <<truth, list, live, tickers, scans, asks>>

HuntRefresh ==
  /\ hunt.at = "pooled"
  /\ hunt' = [hunt EXCEPT !.at = AfterRefresh]
  /\ liveFlight' = FlightAsked
  /\ UNCHANGED <<truth, list, liveOnly, liveDue, lastList, emptied, tickers, scans, asks>>

\* The candidates that are looked up: those vouched for come first.
TopOf(indexed) ==
  { top \in SUBSET indexed :
      /\ \/ top = indexed /\ Cardinality(top) <= MaxCandidates
         \/ Cardinality(top) = MaxCandidates
      /\ \A c \in top, d \in indexed \ top : d \in liveOnly => c \in liveOnly }

\* The candidates beyond the limit go without a word.
PickTopUnsaid ==
  /\ hunt.at = "vouch"
  /\ \E top \in TopOf(hunt.indexed) :
       hunt' = [hunt EXCEPT !.at = "confirm", !.todo = top,
                            !.found.partial = (hunt.cut \/ hunt.found.down)]
  /\ UNCHANGED <<truth, list, live, tickers, scans, asks>>

PickTop ==
  /\ hunt.at = "vouch"
  /\ \E top \in TopOf(hunt.indexed) :
       hunt' = [hunt EXCEPT
                  !.at = "confirm", !.todo = top,
                  !.found.partial = (hunt.cut \/ hunt.found.down
                                     \/ Cardinality(hunt.indexed) > MaxCandidates)]
  /\ UNCHANGED <<truth, list, live, tickers, scans, asks>>

\* getCoinInfo of one candidate: complete metadata, or an error or none of it.
Confirm(c) ==
  /\ hunt.at = "confirm" /\ c \in hunt.todo
  /\ \E read \in BOOLEAN :
       hunt' = [hunt EXCEPT !.todo = @ \ {c},
                            !.found.coins = IF read /\ Alike(c) THEN @ \cup {c} ELSE @,
                            !.found.unconfirmed = (@ \/ ~read)]
  /\ UNCHANGED <<truth, list, live, tickers, scans, asks>>

\* The search is over: cached if nothing failed, and told to whoever awaits it.
EndHunt ==
  /\ hunt.at = "confirm" /\ hunt.todo = {}
  /\ hunt' = Nothing
  /\ tickers' = IF hunt.found.down \/ hunt.found.unconfirmed
                THEN tickers
                ELSE [at |-> "cached", found |-> hunt.found]
  /\ asks' = [u \in User |->
                IF asks[u].at = "hunting"
                THEN [asks[u] EXCEPT !.at = "found", !.found = hunt.found]
                ELSE asks[u]]
  /\ UNCHANGED <<truth, list, live, scans>>

-----------------------------------------------------------------------------
(* resolveSymbolDetailed and searchTokens, up to the scan. *)

\* A call that answered, and what its answer rests on where that matters.
Told(verdict) == [NewAsk EXCEPT !.at = "done", !.verdict = verdict]

Set(u, more) == asks' = [asks EXCEPT ![u] = more]
Done(u, verdict) == Set(u, Told(verdict))

Begin(u) ==
  /\ asks[u].at = "idle"
  /\ IF u \in Asker
     THEN /\ Set(u, [NewAsk EXCEPT !.at = AfterRefresh])
          /\ liveFlight' = FlightAsked
     ELSE /\ Set(u, [NewAsk EXCEPT !.at = "tickers"])
          /\ UNCHANGED liveFlight
  /\ UNCHANGED <<truth, list, liveOnly, liveDue, lastList, emptied, search, scans>>

\* resolveSymbolWithLive.
Vouch(u) ==
  /\ asks[u].at = "vouch"
  /\ CASE Cardinality(liveOnly) = 1 -> Done(u, "resolved")
       [] Cardinality(liveOnly) > 1 -> Done(u, "ambiguous")
       [] OTHER -> Set(u, [asks[u] EXCEPT !.at = "tickers"])
  /\ UNCHANGED <<truth, list, live, search, scans>>

\* The cache, the search in flight, or a new one.
SearchTickers(u) ==
  /\ asks[u].at = "tickers"
  /\ IF tickers # Nothing
     THEN /\ Set(u, [asks[u] EXCEPT !.at = "found", !.found = tickers.found])
          /\ UNCHANGED hunt
     ELSE /\ Set(u, [asks[u] EXCEPT !.at = "hunting"])
          /\ hunt' = IF hunt = Nothing THEN NewHunt ELSE hunt
  /\ UNCHANGED <<truth, list, live, tickers, scans>>

\* The status when no coin was found; a cached scan tells of no failure.
Unfound(found, scan) ==
  IF found.unconfirmed \/ found.down \/ scan.failed THEN "could_not_confirm" ELSE "not_found"

\* A scan without the symbol ends the call.
EndUnfound(u, scan, told) ==
  Set(u, [asks[u] EXCEPT !.at = "done", !.scan = scan,
                         !.verdict = Unfound(asks[u].found, [scan EXCEPT !.failed = told])])

\* What the candidates settle, and, where they settle nothing, what the caches
\* of scanForSymbol and fetchDiscoveryTokens do.
Settle(u) ==
  /\ asks[u].at = "found"
  /\ IF u \in Asker
     THEN LET exact == { c \in asks[u].found.coins : Exact(c) }
          IN /\ CASE Cardinality(exact) = 1 ->
                       Set(u, [Told("one") EXCEPT !.found = asks[u].found])
                  [] Cardinality(exact) > 1 -> Done(u, "several")
                  [] exact = {} /\ symbolKnown -> Done(u, "scanned")
                  [] exact = {} /\ ~symbolKnown /\ tokens # Nothing ->
                       IF \E c \in tokens.scan.coins : Exact(c)
                       THEN Done(u, "scanned")
                       ELSE EndUnfound(u, tokens.scan, FALSE)
                  [] OTHER -> Set(u, [asks[u] EXCEPT !.at = "scan"])
             /\ symbolKnown' =
                  (symbolKnown \/ /\ exact = {} /\ tokens # Nothing
                                  /\ \E c \in tokens.scan.coins : Exact(c))
             /\ UNCHANGED walk
     ELSE /\ IF asks[u].found.coins # {} \/ tokens # Nothing
             THEN Done(u, "tokens") /\ UNCHANGED walk
             ELSE /\ Set(u, [asks[u] EXCEPT !.at = "walking"])
                  /\ walk' = IF walk = Nothing THEN NewWalk ELSE walk
          /\ UNCHANGED symbolKnown
  /\ UNCHANGED <<truth, list, live, search, tokens>>

-----------------------------------------------------------------------------
(* pageCoinMetadata, for one symbol and for every token. *)

\* Where a walk stops after page n, and whether more was left.
LastPage(n) == n = pages \/ n = MaxScanPages
Report(n, coins) == [coins |-> coins, truncated |-> n < pages, failed |-> FALSE]
Broken(coins) == [coins |-> coins, truncated |-> TRUE, failed |-> TRUE]

\* The walk of scanForSymbol, which ends where it meets the symbol.
ScanPage(u) ==
  /\ asks[u].at = "scan"
  /\ LET n == asks[u].page
     IN IF \E c \in OnPage(n) : Exact(c)
        THEN Done(u, "scanned") /\ symbolKnown' = TRUE
        ELSE /\ IF LastPage(n)
                THEN EndUnfound(u, Report(n, {}), FALSE)
                ELSE Set(u, [asks[u] EXCEPT !.page = n + 1])
             /\ UNCHANGED symbolKnown
  /\ UNCHANGED <<truth, list, live, search, walk, tokens>>

\* A page that fails, or whose cursor does not advance.
ScanFails(u) ==
  /\ asks[u].at = "scan"
  /\ EndUnfound(u, Broken({}), TRUE)
  /\ UNCHANGED <<truth, list, live, search, scans>>

\* A scan is kept whatever ended it.
KeptAnyway(scan) == scan.coins # {}

\* Which scans are cached.
Kept(scan) == scan.coins # {} /\ ~scan.failed

EndWalk(scan) ==
  /\ walk' = Nothing
  /\ tokens' = IF Kept(scan) THEN [at |-> "cached", scan |-> scan] ELSE tokens
  /\ asks' = [u \in User |->
                IF asks[u].at = "walking"
                THEN Told("tokens")
                ELSE asks[u]]

\* The walk of fetchDiscoveryTokens, which collects them all, or a page of it
\* that fails.
WalkPage ==
  /\ walk # Nothing
  /\ LET coins == walk.coins \cup OnPage(walk.page)
     IN \/ /\ LastPage(walk.page)
           /\ EndWalk(Report(walk.page, coins))
        \/ /\ ~LastPage(walk.page)
           /\ walk' = [walk EXCEPT !.page = @ + 1, !.coins = coins]
           /\ UNCHANGED <<tokens, asks>>
        \/ EndWalk(Broken(walk.coins))
  /\ UNCHANGED <<truth, list, live, search, symbolKnown>>

-----------------------------------------------------------------------------
\* A cache outlives its TTL.
Expire ==
  /\ expiries < MaxExpiries
  /\ expiries' = expiries + 1
  /\ \/ ~liveDue /\ liveDue' = TRUE /\ UNCHANGED <<tickers, tokens, symbolKnown>>
     \/ tickers # Nothing /\ tickers' = Nothing /\ UNCHANGED <<liveDue, tokens, symbolKnown>>
     \/ tokens # Nothing /\ tokens' = Nothing /\ UNCHANGED <<liveDue, tickers, symbolKnown>>
     \/ symbolKnown /\ symbolKnown' = FALSE /\ UNCHANGED <<liveDue, tickers, tokens>>
  /\ UNCHANGED <<truth, listed, relists, liveOnly, liveFlight, lastList, emptied, hunt, walk, asks>>

CoinNext ==
  \/ Relist \/ FetchLive \/ FetchLiveFails
  \/ ReadPools \/ PoolsFail \/ HuntRefresh \/ PickTop \/ EndHunt
  \/ \E c \in Coin : Confirm(c)
  \/ \E u \in User : Begin(u) \/ Vouch(u) \/ SearchTickers(u) \/ Settle(u)
  \/ \E u \in Asker : ScanPage(u) \/ ScanFails(u)
  \/ WalkPage
  \/ Expire

CoinSpec == CoinInit /\ [][CoinNext]_coinVars

-----------------------------------------------------------------------------
(* Properties. *)

\* "not_found" is said only if nothing behind the answer failed, be it this
\* call's read, another call's that it joined or one that left a cache, and,
\* where the scan reached the end, only if no metadata has the symbol
\* (resolveSymbolDetailed; discovery.ts, "a failed read is not a miss").
NotFoundMeansRead ==
  \A u \in Asker : asks[u].verdict = "not_found" =>
    /\ ~asks[u].found.down /\ ~asks[u].found.unconfirmed /\ ~asks[u].scan.failed
    /\ ~asks[u].scan.truncated => \A c \in Coin : Exact(c) => market[c].page \notin 1..pages

\* A single candidate is presented as such, with nothing partial and nothing
\* unconfirmed, only if the providers that were read have no other coin of the
\* symbol.
OneMeansOne ==
  \A u \in Asker :
    LET found == asks[u].found
    IN asks[u].verdict = "one" /\ ~found.partial /\ ~found.unconfirmed =>
         Cardinality({ c \in Dex \cup (IF found.gecko THEN Gecko ELSE {}) : Exact(c) }) = 1

\* The live list vouches for what the endpoint last served and nothing else
\* (fetchLive, clear() before the fresh coins), an empty list aside.
LiveIsListed == ~emptied => liveOnly = lastList
=============================================================================
