------------------------------- MODULE Watch -------------------------------
(***************************************************************************)
(* The address watch: watch_addresses and poll_watch over the local store. *)
(*                                                                         *)
(* A watch row remembers, per address, the highest checkpoint already      *)
(* reported.  A poll snapshots the rows, asks the chain for what is newer  *)
(* than each cursor (one page of at most max_per_address transactions),    *)
(* then moves the cursors and answers.  Every `await` of a handler is a    *)
(* place where another tool call may run, so a call is a record in `call`  *)
(* that holds what the handler captured before it yielded.                 *)
(*                                                                         *)
(* Checkpoints are numbers and a transaction is its position in the        *)
(* address's history.  Amounts, coin types and object types are abstracted *)
(* to one bit: `small` is a transaction whose every reason is value_in or  *)
(* value_out and whose largest net amount is below any stored floor.       *)
(***************************************************************************)
EXTENDS Integers, FiniteSets, FiniteSetsExt, Sequences

CONSTANTS
  Address,     \* canonical addresses that can be watched
  Key,         \* spellings of addresses a store row can be keyed by
  Canon,       \* Canon[a]: the canonical spelling of a, the only one saveWatch is given now
  Norm,        \* normalizeWatchAddress: the address a spelling denotes, or Malformed
  Malformed,   \* what normalizeWatchAddress answers for a string that is no address
  Call,        \* tool calls that can be in flight at once
  Caps,        \* the values of max_per_address the client uses
  Sizes,       \* the values of `small` the chain's transactions take
  BatchSize,   \* WATCH_BATCH_SIZE
  Burst,       \* most transactions of one address in one checkpoint
  MaxHead,     \* bound: checkpoints executed
  Overlap,     \* may the client remove a watch while an add is in flight?
  Crashes      \* may the process die with calls in flight?

ASSUME WatchAssumption ==
  /\ Malformed \notin Address
  /\ Canon \in [Address -> Key]
  /\ Norm \in [Key -> Address \cup {Malformed}]
  /\ \A a \in Address : Norm[Canon[a]] = a
  /\ Caps \subseteq Nat \ {0}
  /\ Sizes \subseteq BOOLEAN
  /\ BatchSize \in Nat \ {0}
  /\ Burst \in Nat /\ MaxHead \in Nat
  /\ Overlap \in BOOLEAN /\ Crashes \in BOOLEAN

VARIABLES
  chain,    \* chain[a]: the transactions that touched a, in execution order
  head,     \* the newest checkpoint the indexer serves
  watched,  \* the keys that have a row in the watches table
  cursor,   \* last_checkpoint of a row
  floor,    \* whether the row holds a usable min_amount above zero
  call,     \* what each tool call in flight has captured
  start,    \* history: the cursor a row was created with
  told,     \* history: what the client has been told of, per address
  muted,    \* history: what a poll suppressed under a floor, per address
  lost      \* history: answers that were computed when the process died

store == <<watched, cursor, floor, start>>
history == <<told, muted, lost>>
vars == <<chain, head, store, call, history>>

-----------------------------------------------------------------------------
(* The chain, as the transactions query serves it. *)

\* What `afterCheckpoint: c` selects: exclusive, by checkpoint.
Pending(a, c) ==
  { i \in DOMAIN chain[a] : c < chain[a][i].cp /\ chain[a][i].cp <= head }

\* The first m of them, oldest first.
Page(a, c, m) ==
  { i \in Pending(a, c) : Cardinality({ j \in Pending(a, c) : j < i }) < m }

\* Only max_per_address nodes were asked for: a cut page is not noticed.
IsFullUnasked(a, c, m) == FALSE

\* One more node than will be reported came back.
IsFull(a, c, m) == Page(a, c, m) # Pending(a, c)

Checkpoints(a, P) == { chain[a][i].cp : i \in P }

-----------------------------------------------------------------------------
(* safeAdvance and evaluate. *)

Stalled(cps, saturated) == cps # {} /\ saturated /\ Min(cps) = Max(cps)

\* Every hit's cursor moved on, the boundary checkpoint of a cut page included.
SafeAdvancePastBoundary(cps, saturated, current) ==
  IF cps = {} THEN current ELSE Max(cps)

\* A cut page leaves the cursor where it was.
SafeAdvanceNever(cps, saturated, current) ==
  IF cps = {} \/ saturated THEN current ELSE Max(cps)

\* safeAdvance: a page that was cut may end in the middle of a checkpoint.
SafeAdvance(cps, saturated, current) ==
  CASE cps = {}                  -> current
    [] cps # {} /\ ~saturated    -> Max(cps)
    [] Stalled(cps, saturated)   -> current
    [] OTHER                     -> Max({Max(cps) - 1, current})

\* The cursor a finished poll means to write for row k.
Target(p, k) ==
  LET a == Norm[k] IN
  SafeAdvance(Checkpoints(a, p.page[a]), a \in p.full, p.cursor[k])

\* Rows of the snapshot whose cursor that would move.
Movers(p) == { k \in p.rows : p.page[Norm[k]] # {} /\ Target(p, k) > p.cursor[k] }

\* The UPDATE without its comparison.
AdvancesAnyway(p, k) == k \in watched

\* advanceWatch's UPDATE ... WHERE last_checkpoint < ?
Advances(p, k) == k \in watched /\ cursor[k] < Target(p, k)

RowsOf(p, a) == { k \in p.rows : Norm[k] = a }

\* Suppressed: every row of the address has a floor the transaction is below.
Suppressed(p, a) ==
  { i \in p.page[a] : chain[a][i].small /\ \A k \in RowsOf(p, a) : p.floor[k] }

-----------------------------------------------------------------------------
(* Calls in flight. *)

Idle == [op |-> "idle"]
None == [a \in Address |-> {}]

InFlight(op) == { c \in Call : call[c].op = op }

AddCall(A, f, from) == [op |-> "add", addrs |-> A, floor |-> f, from |-> from]

PollCall(m) ==
  LET rows == { k \in watched : Norm[k] # Malformed } IN
  [op |-> "poll", cap |-> m, rows |-> rows,
   cursor |-> cursor, floor |-> floor,
   todo |-> rows, page |-> None, full |-> {}]

Reply(p, lagging) ==
  [op      |-> "reply",
   cap     |-> p.cap,
   hits    |-> [a \in Address |-> p.page[a] \ Suppressed(p, a)],
   stalled |-> { Norm[k] : k \in { r \in p.rows :
                  Stalled(Checkpoints(Norm[r], p.page[Norm[r]]), Norm[r] \in p.full) } },
   lagging |-> { Norm[k] : k \in lagging }]

Tx == [cp: Nat, small: BOOLEAN]

AddressSets == [Address -> SUBSET Nat]

AddType == [op: {"add"}, addrs: SUBSET Address, floor: {"set", "clear", "keep"}, from: Nat]

PollType ==
  [op: {"poll"}, cap: Caps, rows: SUBSET Key, cursor: [Key -> Nat], floor: [Key -> BOOLEAN],
   todo: SUBSET Key, page: AddressSets, full: SUBSET Address]

ReplyType ==
  [op: {"reply"}, cap: Caps, hits: AddressSets, stalled: SUBSET Address,
   lagging: SUBSET Address]

CallType == {Idle} \cup AddType \cup PollType \cup ReplyType

-----------------------------------------------------------------------------
(* Initial states: a store an earlier session left, no call in flight. *)

Init ==
  /\ chain = [a \in Address |-> <<>>]
  /\ head = 0
  /\ watched \in SUBSET Key
  /\ cursor = [k \in Key |-> 0]
  /\ floor \in { f \in [Key -> BOOLEAN] : \A k \in Key \ watched : ~f[k] }
  /\ start = cursor
  /\ call = [c \in Call |-> Idle]
  /\ told = None
  /\ muted = None
  /\ lost = None

-----------------------------------------------------------------------------
(* The chain.  A checkpoint becomes visible whole: transactions join the   *)
(* one being built, and `head` moves when it is certified and indexed.     *)

Execute(a, isSmall) ==
  /\ head < MaxHead
  /\ Cardinality({ i \in DOMAIN chain[a] : chain[a][i].cp = head + 1 }) < Burst
  /\ chain' = [chain EXCEPT ![a] = Append(@, [cp |-> head + 1, small |-> isSmall])]
  /\ UNCHANGED <<head, store, call, history>>

Certify ==
  /\ head < MaxHead
  /\ head' = head + 1
  /\ UNCHANGED <<chain, store, call, history>>

-----------------------------------------------------------------------------
(* watch_addresses. *)

\* `await currentCheckpoint()`: the handler holds the checkpoint it read.
BeginAdd(c, A, f) ==
  /\ call[c] = Idle
  /\ A # {}
  /\ call' = [call EXCEPT ![c] = AddCall(A, f, head)]
  /\ UNCHANGED <<chain, head, store, history>>

\* min_amount = COALESCE(excluded.min_amount, watches.min_amount)
NewFloor(f, old) == IF f = "keep" THEN old ELSE f = "set"

\* A new row starts one checkpoint early, to include the current one.
SaveWatchesEarly(K, f, from) ==
  /\ watched' = watched \cup K
  /\ cursor'  = [k \in Key |-> IF k \in K \ watched THEN from - 1 ELSE cursor[k]]
  /\ start'   = [k \in Key |-> IF k \in K \ watched THEN from - 1 ELSE start[k]]
  /\ floor'   = [k \in Key |-> IF k \in K THEN NewFloor(f, floor[k]) ELSE floor[k]]

\* A re-add moves an existing row to the current checkpoint.
SaveWatchesReseeding(K, f, from) ==
  /\ watched' = watched \cup K
  /\ cursor'  = [k \in Key |-> IF k \in K THEN from ELSE cursor[k]]
  /\ start'   = [k \in Key |-> IF k \in K \ watched THEN from ELSE start[k]]
  /\ floor'   = [k \in Key |-> IF k \in K THEN NewFloor(f, floor[k]) ELSE floor[k]]

\* The INSERT ... ON CONFLICT of each address: a row that is there keeps its
\* cursor.  The writes that throw are swallowed by tryWrite and change nothing.
SaveWatches(K, f, from) ==
  /\ watched' = watched \cup K
  /\ cursor'  = [k \in Key |-> IF k \in K \ watched THEN from ELSE cursor[k]]
  /\ start'   = [k \in Key |-> IF k \in K \ watched THEN from ELSE start[k]]
  /\ floor'   = [k \in Key |-> IF k \in K THEN NewFloor(f, floor[k]) ELSE floor[k]]

FinishAdd(c) ==
  /\ call[c].op = "add"
  /\ \E K \in SUBSET { Canon[a] : a \in call[c].addrs } :
       SaveWatches(K, call[c].floor, call[c].from)
  /\ call' = [call EXCEPT ![c] = Idle]
  /\ UNCHANGED <<chain, head, history>>

\* Synchronous: the canonical row goes if there is one, else the row as typed.
RemovedBy(raw) ==
  LET canonical == IF Norm[raw] = Malformed THEN {} ELSE {Canon[Norm[raw]]} IN
  IF canonical \cap watched # {} THEN canonical ELSE {raw} \cap watched

Remove(raw) ==
  LET gone == RemovedBy(raw) IN
  /\ Overlap \/ InFlight("add") = {}
  /\ gone # {}
  /\ watched' = watched \ gone
  /\ cursor' = [k \in Key |-> IF k \in gone THEN 0 ELSE cursor[k]]
  /\ start'  = [k \in Key |-> IF k \in gone THEN 0 ELSE start[k]]
  /\ floor'  = [k \in Key |-> k \notin gone /\ floor[k]]
  /\ UNCHANGED <<chain, head, call, history>>

-----------------------------------------------------------------------------
(* poll_watch. *)

\* listWatches, then the first await.  A malformed row is named, not polled.
BeginPoll(c, m) ==
  /\ call[c] = Idle
  /\ \E k \in watched : Norm[k] # Malformed
  /\ call' = [call EXCEPT ![c] = PollCall(m)]
  /\ UNCHANGED <<chain, head, store, history>>

\* Rows come in the order they were added, and only an earlier build wrote a
\* row under another spelling, so the canonical row of an address is its last.
InOrder(B, todo) ==
  \A k \in B : k = Canon[Norm[k]] => { r \in todo : Norm[r] = Norm[k] } \subseteq B

\* deltas.set(e.address, ...): of two rows with one address the later wins.
Winner(B, a) == IF Canon[a] \in B THEN Canon[a] ELSE CHOOSE k \in B : Norm[k] = a

Fetched(p, B) ==
  [p EXCEPT
    !.todo = @ \ B,
    !.page = [a \in Address |-> IF \E k \in B : Norm[k] = a
                                THEN Page(a, p.cursor[Winner(B, a)], p.cap)
                                ELSE @[a]],
    !.full = @ \cup { Norm[k] : k \in { r \in B : IsFull(Norm[r], p.cursor[r], p.cap) } }]

\* One aliased query: the next BatchSize rows, each after its own cursor.
FetchBatch(c) ==
  /\ call[c].op = "poll"
  /\ \E B \in SUBSET call[c].todo :
       /\ B # {}
       /\ Cardinality(B) <= BatchSize
       /\ Cardinality(B) < BatchSize => B = call[c].todo
       /\ InOrder(B, call[c].todo)
       /\ call' = [call EXCEPT ![c] = Fetched(@, B)]
  /\ UNCHANGED <<chain, head, store, history>>

\* fetchDeltaDetail answered (or nothing moved): one synchronous block to the
\* return.  `written` are the UPDATEs that did not throw; a row that was
\* removed, or is already past the target, matches none and counts as lagging.
FinishPoll(c) ==
  /\ call[c].op = "poll" /\ call[c].todo = {}
  /\ \E written \in SUBSET Movers(call[c]) :
       LET p == call[c]
           moved == { k \in written : Advances(p, k) }
       IN /\ cursor' = [k \in Key |-> IF k \in moved THEN Target(p, k) ELSE cursor[k]]
          /\ muted' = [a \in Address |-> muted[a] \cup Suppressed(p, a)]
          /\ call' = [call EXCEPT ![c] = Reply(p, Movers(p) \ moved)]
  /\ UNCHANGED <<chain, head, watched, floor, start, told, lost>>

\* A query failed: the error is the answer and nothing was moved.
CallFails(c) ==
  /\ \/ call[c].op = "add"
     \/ call[c].op = "poll" /\ (call[c].todo # {} \/ call[c].page # None)
  /\ call' = [call EXCEPT ![c] = Idle]
  /\ UNCHANGED <<chain, head, store, history>>

\* The response reaches the client.
Deliver(c) ==
  /\ call[c].op = "reply"
  /\ told' = [a \in Address |-> told[a] \cup call[c].hits[a]]
  /\ call' = [call EXCEPT ![c] = Idle]
  /\ UNCHANGED <<chain, head, store, muted, lost>>

\* The UPDATEs a finishing poll may have made when the process dies.
Interrupted(p) ==
  IF p.op = "poll" /\ p.todo = {} THEN { k \in Movers(p) : Advances(p, k) } ELSE {}

\* Hits on their way to the client.
Outbox(a) == UNION { call[c].hits[a] : c \in InFlight("reply") }

\* The process dies and is started again on the same database file, perhaps
\* between two of the UPDATEs of a poll that was finishing.
Crash ==
  /\ Crashes
  /\ \E c \in Call : \E moved \in SUBSET Interrupted(call[c]) :
       LET unsent == [a \in Address |->
                        UNION { call[c].page[Norm[k]] : k \in { r \in moved : Norm[r] = a } }]
       IN /\ cursor' = [k \in Key |-> IF k \in moved THEN Target(call[c], k) ELSE cursor[k]]
          /\ lost' = [a \in Address |-> lost[a] \cup unsent[a] \cup Outbox(a)]
  /\ call' = [c \in Call |-> Idle]
  /\ UNCHANGED <<chain, head, watched, floor, start, told, muted>>

-----------------------------------------------------------------------------
Next ==
  \/ \E a \in Address, s \in Sizes : Execute(a, s)
  \/ Certify
  \/ \E c \in Call, A \in SUBSET Address, f \in {"set", "clear", "keep"} : BeginAdd(c, A, f)
  \/ \E c \in Call : FinishAdd(c)
  \/ \E raw \in Key : Remove(raw)
  \/ \E c \in Call, m \in Caps : BeginPoll(c, m)
  \/ \E c \in Call : FetchBatch(c)
  \/ \E c \in Call : FinishPoll(c)
  \/ \E c \in Call : CallFails(c)
  \/ \E c \in Call : Deliver(c)
  \/ Crash

Spec == Init /\ [][Next]_vars

\* A finishing poll whose writes all succeed.
FinishCleanly(c) ==
  FinishPoll(c) /\ call'[c] = Reply(call[c], { k \in Movers(call[c]) : ~Advances(call[c], k) })

\* The environment keeps going: the client keeps polling, the service and the
\* store do not fail forever, and a response that was sent arrives.
Fairness ==
  \A c \in Call :
    /\ SF_vars(\E m \in Caps : BeginPoll(c, m))
    /\ \A n \in 0..Cardinality(Key) :
         SF_vars(FetchBatch(c) /\ Cardinality(call'[c].todo) = n)
    /\ SF_vars(FinishCleanly(c))
    /\ WF_vars(FinishAdd(c))
    /\ WF_vars(Deliver(c))

FairSpec == Spec /\ Fairness

-----------------------------------------------------------------------------
(* Properties. *)

TypeOK ==
  /\ chain \in [Address -> Seq(Tx)]
  /\ head \in Nat
  /\ watched \subseteq Key
  /\ cursor \in [Key -> Nat]
  /\ start \in [Key -> Nat]
  /\ floor \in [Key -> BOOLEAN]
  /\ call \in [Call -> CallType]
  /\ told \in AddressSets
  /\ muted \in AddressSets
  /\ lost \in AddressSets

\* What the client was told, what a floor suppressed, and what is on its way.
Accounted(a) == told[a] \cup muted[a] \cup Outbox(a)

\* Transactions of row k from where it was created up to checkpoint n.
Span(k, n) ==
  { i \in DOMAIN chain[Norm[k]] :
      start[k] < chain[Norm[k]][i].cp /\ chain[Norm[k]][i].cp <= n }

\* A cursor never passes a transaction that no poll has answered for; only an
\* answer a dying process took with it is missing (watch.ts, "no gaps").
NoGap ==
  \A k \in watched : Norm[k] # Malformed =>
    Span(k, cursor[k]) \subseteq Accounted(Norm[k]) \cup lost[Norm[k]]

\* A row's cursor never moves back while the row stands, however the polls that
\* move it overlap (advanceWatch's WHERE clause).
CursorNeverRegresses ==
  [][\A k \in watched \cap watched' : cursor[k] <= cursor'[k]]_<<watched, cursor>>

\* A transaction on a watched address is eventually reported, suppressed under
\* a floor, or its row is removed (summarizePoll, "Poll again to continue").
EventuallyAnswered ==
  \A k \in { r \in Key : Norm[r] # Malformed }, i \in 1..(MaxHead * Burst) :
    (k \in watched /\ i \in Span(k, head))
    ~> (k \notin watched \/ i \notin Span(k, head) \/ i \in told[Norm[k]] \cup muted[Norm[k]])

-----------------------------------------------------------------------------
(* The promise, and the invariant that carries it. *)

Answered(a) == Accounted(a) \cup lost[a]

Feed == INSTANCE WatchFeed WITH
  open <- watched, since <- start, mark <- cursor,
  given <- [a \in Address |-> Answered(a)]

\* The watch implements the at-least-once feed of WatchFeed: whatever the calls
\* in flight do, a cursor only passes what an answer covered.
ImplementsFeed == Feed!Spec

\* Every row is keyed by the canonical spelling of its address: the store was
\* never written by a build that kept addresses as they were typed.
OneSpelling == \A k \in Key : Norm[k] # Malformed => k = Canon[Norm[k]]

Sorted ==
  \A a \in Address : \A i, j \in DOMAIN chain[a] :
    /\ chain[a][i].cp <= head + 1
    /\ i <= j => chain[a][i].cp <= chain[a][j].cp

Bounded ==
  /\ \A k \in Key : start[k] <= cursor[k] /\ cursor[k] <= head
  /\ \A c \in InFlight("add") : call[c].from <= head
  /\ \A c \in InFlight("poll") : \A k \in call[c].rows : call[c].cursor[k] <= head

\* A poll holds pages of transactions the indexer serves, for rows it can poll.
PagesVisible ==
  \A c \in InFlight("poll") :
    /\ call[c].todo \subseteq call[c].rows
    /\ \A k \in call[c].rows : Norm[k] # Malformed
    /\ \A a \in Address : \A i \in call[c].page[a] :
         i \in DOMAIN chain[a] /\ chain[a][i].cp <= head

\* A page is everything after the cursor up to its last checkpoint, short of
\* that checkpoint's remainder when the page was cut.
PageComplete(p, k) ==
  LET a == Norm[k] IN
  \A j \in DOMAIN chain[a] : \A i \in p.page[a] :
    /\ p.cursor[k] < chain[a][j].cp
    /\ \/ chain[a][j].cp < chain[a][i].cp
       \/ a \notin p.full /\ chain[a][j].cp = chain[a][i].cp
    => j \in p.page[a]

PagesComplete ==
  \A c \in InFlight("poll") : \A k \in call[c].rows :
    IF k \in call[c].todo THEN call[c].page[Norm[k]] = {} ELSE PageComplete(call[c], k)

\* What a poll in flight took for granted when it read a row's cursor still
\* holds of the row, even if it was removed and added again meanwhile.
SnapshotsSound ==
  \A c \in InFlight("poll") : \A k \in call[c].rows :
    IF k \in watched
    THEN Span(k, call[c].cursor[k]) \subseteq Answered(Norm[k])
    ELSE \A d \in InFlight("add") : call[c].cursor[k] <= call[d].from

TypeInv == TypeOK /\ Bounded /\ PagesVisible

IndInv == TypeInv /\ Sorted /\ PagesComplete /\ SnapshotsSound /\ NoGap
=============================================================================
