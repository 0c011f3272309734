-------------------------------- MODULE Flow --------------------------------
(***************************************************************************)
(* FlowEngine of flow-engine.ts: value followed forward, from a            *)
(* transaction, through the spends of every address it reaches.            *)
(*                                                                         *)
(* One coin is followed, so a node of the graph is an address and a job's  *)
(* share is its traced amount in units of the start's Total.  The engine   *)
(* runs alone, and a step here is one iteration of its loops: a branch of  *)
(* the start (StartBranch), the gate and the search of a queued node       *)
(* (expandNext), a leg of the search (TakeLeg), the end of an expansion.   *)
(* What the chain holds and which reads fail is chosen freely.             *)
(***************************************************************************)
EXTENDS Integers, Sequences, FiniteSets, FiniteSetsExt, Functions

CONSTANTS
  Addr,               \* addresses
  Tx,                 \* transactions, numbered in the order they executed
  Chains,             \* the histories the search may read
  Starts,             \* the branches the starting transaction may split into
  Label,              \* what ends the walk at an address: "none", "sink" or "protocol"
  MaxDepth,           \* opts.maxDepth
  MaxNodes,           \* opts.maxNodes
  MaxTxReads,         \* opts.maxTxReads
  MinShare,           \* opts.minShare, in units
  Total,              \* the units the start moved
  ScanCap,            \* transactions one search reads
  MovesPerNode,       \* MOVES_PER_NODE
  MovesPerTrunk,      \* MOVES_PER_START_ADDRESS
  ExpansionsPerNode,  \* EXPANSIONS_PER_NODE
  Origin              \* the node of the starting transaction

\* How a transaction disposes of what its sender spent: to one address, into no
\* address, or signed by another than the sender.
Ending == {"pays", "consumed", "signer_not_sender"}

Spend ==
  [from : Addr, to : Addr, amount : Nat \ {0}, cp : Nat, ending : Ending]

\* The amounts of jobs, or of the branches of a start.
Carried(f) == [x \in DOMAIN f |-> f[x].amount]

ASSUME FlowAssumption ==
  /\ Tx \subseteq Nat
  /\ IsFiniteSet(Tx)
  /\ IsFiniteSet(Addr)
  /\ Origin \notin Addr
  /\ Chains \subseteq [Tx -> Spend]
  /\ Starts \subseteq Seq([to : Addr, amount : Nat \ {0}])
  /\ \A s \in Starts : SumFunction(Carried(s)) = Total
  /\ Label \in [Addr -> {"none", "sink", "protocol"}]
  /\ {MaxDepth, MaxNodes, MaxTxReads, MinShare, Total} \subseteq Nat
  /\ {ScanCap, MovesPerNode, MovesPerTrunk, ExpansionsPerNode} \subseteq Nat \ {0}

VARIABLES
  chain,       \* the history of the coin
  starts,      \* branches of the start not yet queued
  frontier,    \* FlowEngine.frontier: the job queued for an address
  now,         \* the expansion under way
  share,       \* GraphNode.share
  parentOf,    \* FlowEngine.parentOf: the node that first reached an address
               \* (Origin while none has)
  expanded,    \* addresses with GraphNode.expanded
  expansions,  \* FlowEngine.expansions
  stop,        \* GraphNode.stop
  measured,    \* addresses the hub check let through (FlowEngine.hubChecked)
  readTxs,     \* FlowEngine.txCache: transactions read, or tried
  lost,        \* those of them that could not be read
  avail,       \* RemainingEntry.avail: what a transaction has left to attribute
  ledger,      \* TerminalLedger: units ended, by reason and address
  unspent,     \* GraphNode.unspent: the amount a node reports as held
  truncated,   \* FlowEngine.truncated
  drawn,       \* history: the units attributed to a transaction
  passed,      \* history: the units an address passed on
  arrivals,    \* history: the checkpoints value arrived at, by address
  held         \* history: the arrivals whose rest the ledger ends as unspent

graph == <<share, parentOf, arrivals>>
reads == <<readTxs, lost>>
tally == <<drawn, passed, held>>
counts == <<expanded, expansions>>
gates == <<stop, measured>>
vars == <<chain, starts, frontier, now, graph, counts, gates, reads, avail,
          ledger, unspent, truncated, tally>>

\* The reasons of StopCode a forward walk from a transaction can end for.  A
\* labelled bridge counts as a sink, a bridge exit or a kept value as consumed.
Code ==
  {"sink", "protocol", "hub", "read_failed", "budget", "unspent", "cycle",
   "below_threshold", "signer_not_sender", "consumed"}

Job == [amount : Nat, cp : Nat, depth : Nat, via : Addr \cup {Origin}]
NoJob == [amount |-> 0, cp |-> 0, depth |-> 0, via |-> Origin]

\* An expansion: the node, its arrival, and what its search found.
Idle == [node |-> Origin, cp |-> 0, depth |-> 0, left |-> 0, legs |-> {},
         satisfied |-> FALSE, exhausted |-> FALSE]

Queued(a) == frontier[a].amount > 0

Init ==
  /\ chain \in Chains
  /\ starts \in Starts
  /\ frontier = [a \in Addr |-> NoJob]
  /\ now = Idle
  /\ share = [a \in Addr |-> 0]
  /\ parentOf = [a \in Addr |-> Origin]
  /\ expanded = {}
  /\ expansions = [a \in Addr |-> 0]
  /\ stop = [a \in Addr |-> "none"]
  /\ measured = {}
  /\ readTxs = {}
  /\ lost = {}
  /\ avail = [t \in Tx |-> chain[t].amount]
  /\ ledger = [c \in Code |-> [a \in Addr |-> 0]]
  /\ unspent = [a \in Addr |-> 0]
  /\ truncated = FALSE
  /\ drawn = [t \in Tx |-> 0]
  /\ passed = [a \in Addr |-> 0]
  /\ arrivals = [a \in Addr |-> {}]
  /\ held = [a \in Addr |-> {}]

-----------------------------------------------------------------------------
(* The graph: what connect and the ledger do with an amount.               *)

\* TerminalLedger.add.
Ended(c, a, n) == [ledger EXCEPT ![c][a] = @ + n]

\* Whether value that reaches `a` through `via` came by `a` before, along the
\* nodes that first reached one another.
ReturnsTo(via, a) ==
  LET up[k \in 0 .. Cardinality(Addr)] ==
        CASE k = 0 -> via
          [] k > 0 /\ up[k - 1] = Origin -> Origin
          [] OTHER -> parentOf[up[k - 1]]
  IN  \E k \in 1 .. Cardinality(Addr) : up[k] = a

\* A plausible bug: the later job takes the queued one's place.
JoinedOver(a, j) ==
  IF Queued(a) THEN [j EXCEPT !.cp = Min({frontier[a].cp, @})] ELSE j

\* A job for a queued node joins it: the amounts add, the earliest arrival stays.
Joined(a, j) ==
  IF Queued(a)
    THEN [frontier[a] EXCEPT !.amount = @ + j.amount, !.cp = Min({@, j.cp})]
    ELSE j

\* The value of `j` is pruned, closes a cycle, or is queued at `a`.
Prune(a, j) ==
  /\ j.amount < MinShare
  /\ ledger' = Ended("below_threshold", a, j.amount)
  /\ UNCHANGED <<graph, frontier>>

Reach(a, j) ==
  /\ j.amount >= MinShare
  /\ share' = [share EXCEPT ![a] = @ + j.amount]
  /\ parentOf' = [parentOf EXCEPT ![a] = IF share[a] = 0 THEN j.via ELSE @]
  /\ arrivals' = [arrivals EXCEPT ![a] = @ \cup {j.cp}]

IsCycle(a, j) == a \in expanded /\ ReturnsTo(j.via, a)

\* A plausible bug: the value that returned is dropped without an entry.
CloseCycleUnsaid(a, j) ==
  /\ IsCycle(a, j)
  /\ UNCHANGED <<ledger, frontier>>

CloseCycle(a, j) ==
  /\ IsCycle(a, j)
  /\ ledger' = Ended("cycle", a, j.amount)
  /\ UNCHANGED frontier

Queue(a, j) ==
  /\ ~IsCycle(a, j)
  /\ frontier' = [frontier EXCEPT ![a] = Joined(a, j)]
  /\ UNCHANGED ledger

Connect(a, j) ==
  \/ Prune(a, j)
  \/ /\ Reach(a, j)
     /\ CloseCycle(a, j) \/ Queue(a, j)

\* startFromDigest, one branch of the start.
StartBranch ==
  /\ starts # <<>>
  /\ Connect(Head(starts).to,
             [amount |-> Head(starts).amount, cp |-> 0, depth |-> 0, via |-> Origin])
  /\ starts' = Tail(starts)
  /\ UNCHANGED <<chain, now, counts, gates, reads, avail, unspent, truncated, tally>>

-----------------------------------------------------------------------------
(* The frontier: which job is next, and whether its node is expanded.      *)

Unexpanded == { a \in Addr : Queued(a) /\ a \notin expanded }

\* The node limit left no longer covers every queued node.
Heaviest == Cardinality(Unexpanded) > MaxNodes - Cardinality(expanded)

Better(a, b) ==
  LET x == frontier[a] y == frontier[b] IN
  IF Heaviest
    THEN x.amount > y.amount \/ (x.amount = y.amount /\ x.depth < y.depth)
    ELSE x.depth < y.depth \/ (x.depth = y.depth /\ x.amount > y.amount)

\* A plausible bug: a node is expanded once, and a later arrival stays queued.
PickedFresh(a) ==
  /\ starts = <<>>
  /\ now = Idle
  /\ a \in Unexpanded
  /\ \A b \in Unexpanded : ~Better(b, a)

\* A tie goes to the first queued in the code, to either here.
Picked(a) ==
  /\ starts = <<>>
  /\ now = Idle
  /\ Queued(a)
  /\ \A b \in Addr : Queued(b) => ~Better(b, a)

Dequeued(a) == [frontier EXCEPT ![a] = NoJob]

\* A plausible bug: only a limit makes the graph partial, not a failed read.
EndJobQuietly(a, c) ==
  /\ frontier' = Dequeued(a)
  /\ ledger' = Ended(c, a, frontier[a].amount)
  /\ truncated' = (truncated \/ c = "budget")
  /\ UNCHANGED <<chain, starts, now, graph, reads, avail, drawn, passed>>

\* The job ends at its node: all it carries goes to the ledger.
EndJob(a, c) ==
  /\ frontier' = Dequeued(a)
  /\ ledger' = Ended(c, a, frontier[a].amount)
  /\ truncated' = (truncated \/ c \in {"budget", "read_failed"})
  /\ UNCHANGED <<chain, starts, now, graph, reads, avail, drawn, passed>>

NodeStop(a) == IF stop[a] # "none" THEN stop[a] ELSE Label[a]

\* The starting transaction was read too.
TxReads == Cardinality(readTxs) + 1

LimitHit(a) ==
  \/ frontier[a].depth >= MaxDepth
  \/ a \notin expanded /\ Cardinality(expanded) >= MaxNodes
  \/ expansions[a] >= ExpansionsPerNode
  \/ TxReads >= MaxTxReads

StopAtNode(a) ==
  /\ Picked(a)
  /\ NodeStop(a) # "none"
  /\ stop' = [stop EXCEPT ![a] = NodeStop(a)]
  /\ EndJob(a, NodeStop(a))
  /\ UNCHANGED <<counts, measured, unspent, held>>

StopAtLimit(a) ==
  /\ Picked(a)
  /\ NodeStop(a) = "none"
  /\ LimitHit(a)
  /\ EndJob(a, "budget")
  /\ UNCHANGED <<counts, gates, unspent, held>>

Open(a) == Picked(a) /\ NodeStop(a) = "none" /\ ~LimitHit(a)

\* The hub check finds a hub, or cannot be read.
StopAtHub(a) ==
  /\ Open(a)
  /\ a \notin measured
  /\ \E c \in {"hub", "read_failed"} :
       /\ stop' = [stop EXCEPT ![a] = c]
       /\ EndJob(a, c)
  /\ UNCHANGED <<counts, measured, unspent, held>>

\* The search throws: expandNext's catch.
SearchFails(a) ==
  /\ Open(a)
  /\ measured' = measured \cup {a}
  /\ EndJob(a, "read_failed")
  /\ UNCHANGED <<counts, stop, unspent, held>>

-----------------------------------------------------------------------------
(* The search of a node's spends (scanForwardSpends) and their legs.       *)

\* A plausible bug: the window opens a checkpoint too early.
SentEarly(a) == { t \in Tx : chain[t].from = a /\ chain[t].cp + 1 >= frontier[a].cp }

\* What `a` sent from the checkpoint the value arrived in, and the page of it
\* one search reads.
Sent(a) == { t \in Tx : chain[t].from = a /\ chain[t].cp >= frontier[a].cp }

Page(a) ==
  { t \in Sent(a) : Cardinality({ u \in Sent(a) : u < t }) < ScanCap }

\* allSpends: a spend an earlier arrival drained is not found again.
Hits(a) == { t \in Page(a) : avail[t] > 0 }

\* A node carrying over half of the value is the trunk.
MaxMoves(a) ==
  IF 2 * frontier[a].amount > Total THEN MovesPerTrunk ELSE MovesPerNode

\* Whether `spends` are as many as are read, or cover what arrived.
Enough(a, spends) ==
  \/ Cardinality(spends) >= MaxMoves(a)
  \/ SumFunctionOnSet(avail, spends) >= frontier[a].amount

Spends(a) == { t \in Hits(a) : ~Enough(a, { u \in Hits(a) : u < t }) }

Satisfied(a) == Enough(a, Spends(a))

\* A plausible bug: a search its page limit stopped counts as complete.
ExhaustedPage(a) == Spends(a) = Hits(a)

\* Nothing the address sent is left unread.
Exhausted(a) == Page(a) = Sent(a) /\ Spends(a) = Hits(a)

\* markExpanded
MarkExpanded(a) ==
  /\ expanded' = expanded \cup {a}
  /\ expansions' = [expansions EXCEPT ![a] = @ + 1]
  /\ measured' = measured \cup {a}

\* What the ledger ends as unspent, as a history of arrivals.
Hold(a, code, cp) ==
  held' = IF code = "unspent" THEN [held EXCEPT ![a] = @ \cup {cp}] ELSE held

\* What the node then reports as held.
Keep(a, n) == unspent' = [unspent EXCEPT ![a] = @ + n]

NoSpendCode(a) == IF Exhausted(a) \/ Satisfied(a) THEN "unspent" ELSE "budget"

\* With no spend to follow, the node keeps what arrived whatever the code.
FindNothing(a) ==
  /\ Open(a)
  /\ Spends(a) = {}
  /\ MarkExpanded(a)
  /\ EndJob(a, NoSpendCode(a))
  /\ Hold(a, NoSpendCode(a), frontier[a].cp)
  /\ Keep(a, frontier[a].amount)
  /\ UNCHANGED stop

\* The transactions found are read in full, each once in the graph; any read
\* may fail.
FindSpends(a) ==
  /\ Open(a)
  /\ Spends(a) # {}
  /\ MarkExpanded(a)
  /\ \E failed \in SUBSET (Spends(a) \ readTxs) : lost' = lost \cup failed
  /\ readTxs' = readTxs \cup Spends(a)
  /\ now' = [node |-> a, cp |-> frontier[a].cp, depth |-> frontier[a].depth,
             left |-> frontier[a].amount, legs |-> Spends(a),
             satisfied |-> Satisfied(a), exhausted |-> Exhausted(a)]
  /\ frontier' = Dequeued(a)
  /\ UNCHANGED <<chain, starts, graph, stop, avail, ledger, unspent, truncated, tally>>

\* A plausible bug: a leg takes all it has, whatever is left to allocate.
ShareWhole(t) == avail[t]

\* allocateFifo: a leg takes what it has left, up to what is still unallocated.
Share(t) == Min({avail[t], now.left})

\* A plausible bug: what a later arrival draws overwrites what an earlier drew.
DrawAnew(t, n) ==
  /\ avail' = [avail EXCEPT ![t] = chain[t].amount - n]
  /\ drawn' = [drawn EXCEPT ![t] = @ + n]
  /\ now' = [now EXCEPT !.left = @ - n, !.legs = @ \ {t}]

Draw(t, n) ==
  /\ avail' = [avail EXCEPT ![t] = @ - n]
  /\ drawn' = [drawn EXCEPT ![t] = @ + n]
  /\ now' = [now EXCEPT !.left = @ - n, !.legs = @ \ {t}]

\* The leg's value ends at the node, or goes on to the address it paid.
EndLeg(t) ==
  /\ t \in lost \/ chain[t].ending # "pays"
  /\ LET code == IF t \in lost THEN "read_failed" ELSE chain[t].ending IN
       /\ ledger' = Ended(code, now.node, Share(t))
       /\ truncated' = (truncated \/ code = "read_failed")
  /\ UNCHANGED <<graph, frontier, passed>>

PassOn(t) ==
  /\ t \notin lost
  /\ chain[t].ending = "pays"
  /\ Connect(chain[t].to, [amount |-> Share(t), cp |-> chain[t].cp,
                           depth |-> now.depth + 1, via |-> now.node])
  /\ passed' = [passed EXCEPT ![now.node] = @ + Share(t)]
  /\ UNCHANGED truncated

TakeLeg(t) ==
  /\ t \in now.legs
  /\ \A u \in now.legs : t <= u
  /\ Draw(t, Share(t))
  /\ EndLeg(t) \/ PassOn(t)
  /\ UNCHANGED <<chain, starts, counts, gates, reads, unspent, held>>

\* What the legs did not account for.
RestCode ==
  CASE now.satisfied -> "budget"
    [] ~now.satisfied /\ now.exhausted -> "unspent"
    [] OTHER -> "budget"

FinishExpansion ==
  /\ now # Idle
  /\ now.legs = {}
  /\ now' = Idle
  /\ IF now.left > 0
       THEN /\ ledger' = Ended(RestCode, now.node, now.left)
            /\ truncated' = (truncated \/ RestCode = "budget")
            /\ Hold(now.node, RestCode, now.cp)
            /\ IF RestCode = "unspent" THEN Keep(now.node, now.left)
                                       ELSE UNCHANGED unspent
       ELSE UNCHANGED <<ledger, unspent, truncated, held>>
  /\ UNCHANGED <<chain, starts, frontier, graph, counts, gates, reads, avail,
                 drawn, passed>>

ExpandNext(a) ==
  \/ StopAtNode(a)
  \/ StopAtLimit(a)
  \/ StopAtHub(a)
  \/ SearchFails(a)
  \/ FindNothing(a)
  \/ FindSpends(a)

Next ==
  \/ StartBranch
  \/ \E a \in Addr : ExpandNext(a)
  \/ \E t \in Tx : TakeLeg(t)
  \/ FinishExpansion

Spec == Init /\ [][Next]_vars

\* run() awaits one expansion after the other until none is queued.
FairSpec == Spec /\ WF_vars(Next)

-----------------------------------------------------------------------------
(* Properties.                                                             *)

TypeOK ==
  /\ chain \in [Tx -> Spend]
  /\ starts \in Seq([to : Addr, amount : Nat \ {0}])
  /\ frontier \in [Addr -> Job]
  /\ now \in [node : Addr \cup {Origin}, cp : Nat, depth : Nat, left : Nat,
              legs : SUBSET Tx, satisfied : BOOLEAN, exhausted : BOOLEAN]
  /\ share \in [Addr -> Nat]
  /\ parentOf \in [Addr -> Addr \cup {Origin}]
  /\ arrivals \in [Addr -> SUBSET Nat]
  /\ expanded \subseteq Addr
  /\ expansions \in [Addr -> Nat]
  /\ stop \in [Addr -> {"none", "sink", "protocol", "hub", "read_failed"}]
  /\ measured \subseteq Addr
  /\ readTxs \subseteq Tx
  /\ lost \subseteq readTxs
  /\ avail \in [Tx -> Nat]
  /\ ledger \in [Code -> [Addr -> Nat]]
  /\ unspent \in [Addr -> Nat]
  /\ truncated \in BOOLEAN
  /\ drawn \in [Tx -> Nat]
  /\ passed \in [Addr -> Nat]
  /\ held \in [Addr -> SUBSET Nat]

\* What ended at an address, whatever the reason; a pruned branch ended before
\* it reached the address.
EndedAt(a) ==
  ledger["sink"][a] + ledger["protocol"][a] + ledger["hub"][a]
    + ledger["read_failed"][a] + ledger["budget"][a] + ledger["unspent"][a]
    + ledger["cycle"][a] + ledger["signer_not_sender"][a] + ledger["consumed"][a]

InHand(a) == IF now.node = a THEN now.left ELSE 0

\* Every unit that reached an address is queued there, in its expansion, ended
\* there for one reason, or passed on: merges, refusals, failed searches,
\* cycles and partial spends lose and repeat nothing (expandNext, connect,
\* expandForward, TerminalLedger.add).
NodeBalance ==
  \A a \in Addr :
    share[a] = frontier[a].amount + InHand(a) + EndedAt(a) + passed[a]

\* The terminal shares, the pruned share and what is still queued add up to what
\* the start moved, at every moment of the walk (TerminalLedger.total,
\* coverage.share_accounted).
ShareConserved ==
  SumFunction(Carried(starts)) + SumFunction(Carried(frontier)) + now.left
    + SumFunction([c \in Code |-> SumFunction(ledger[c])]) = Total

\* No transaction is attributed more than it moved, however many arrivals draw
\* on it, and what is left of it is exact (RemainingEntry, GraphEdge.traced).
TracedWithinMoved == \A t \in Tx : drawn[t] + avail[t] = chain[t].amount

\* A transaction carries traced value only if some had reached its sender by
\* then (scanForwardSpends' lower bound, through merges and re-expansions).
NothingLeavesBeforeItArrives ==
  \A t \in Tx :
    drawn[t] > 0 => \E cp \in arrivals[chain[t].from] : cp <= chain[t].cp

\* What the ledger ends as unspent is: nothing the address sent since that value
\* arrived has value left to attribute (STOP_MEANING.unspent).
UnspentIsHeld ==
  \A a \in Addr : \A cp \in held[a] : \A t \in Tx :
    chain[t].from = a /\ chain[t].cp >= cp => avail[t] = 0

\* The graph says it is partial exactly when a limit or a failed read took some
\* of the value (coverage.truncated).
PartialSaid ==
  truncated <=> \E a \in Addr : ledger["budget"][a] + ledger["read_failed"][a] > 0

WalkOver == starts = <<>> /\ now = Idle /\ \A a \in Addr : ~Queued(a)

\* The walk comes to its end, with nothing queued (run).
Finishes == <>WalkOver

\* A node that reports an amount as held when the walk ended has an arrival since
\* which nothing it sent has value left (GraphNode.unspent).
HoldingIsHeld ==
  WalkOver =>
    \A a \in Addr : unspent[a] > 0 =>
      \E cp \in arrivals[a] : \A t \in Tx :
        chain[t].from = a /\ chain[t].cp >= cp => avail[t] = 0
=============================================================================
