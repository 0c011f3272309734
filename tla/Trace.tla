------------------------------- MODULE Trace -------------------------------
(***************************************************************************)
(* trace_funds (tools/trace.ts): one path through the history of a coin,   *)
(* forward to what a recipient did with it or backward to where a payer    *)
(* had it from, over reads that may fail and rows kept from earlier calls. *)
(*                                                                         *)
(* The chain is a sequence of transactions, chosen at the start; assets    *)
(* that a swap turns into one another are one.  Calls run one after the    *)
(* other and share the rows of the transaction cache.  A row is cut in its *)
(* balance changes only: commands and events are taken as read whole.      *)
(***************************************************************************)
EXTENDS Integers, Sequences, FiniteSets, FiniteSetsExt, Functions

CONSTANTS
  Party,       \* addresses
  Objects,     \* those that are objects and cannot send
  Sinks,       \* those labelled as a sink
  Hubs,        \* those that pool other parties' money
  Length,      \* transactions of a history
  Histories,   \* the histories
  MaxHops,     \* the argument hops
  PageSize,    \* CANDIDATE_PAGE
  Pages,       \* pages one search reads: SENT_PAGES and AFFECTED_PAGES
  MaxCalls,    \* bound: calls made
  Nobody       \* no address

ASSUME TraceAssumption ==
  /\ Objects \subseteq Party
  /\ Sinks \subseteq Party
  /\ Hubs \subseteq Party
  /\ Length \in Nat \ {0}
  /\ \A chain \in Histories, t \in 1..Length :
       /\ chain[t].cp \in Nat
       /\ {chain[t].from, chain[t].to} \subseteq Party
       /\ chain[t].deed = "keeps" => chain[t].from = chain[t].to
       \* An object signs nothing, so nothing goes from one object to another.
       /\ ~({chain[t].from, chain[t].to} \subseteq Objects)
       \* Transactions are numbered in the order of the chain.
       /\ \A u \in t..Length : chain[t].cp <= chain[u].cp
  /\ MaxHops \in Nat \ {0}
  /\ {PageSize, Pages} \subseteq Nat \ {0}
  /\ MaxCalls \in Nat
  /\ Nobody \notin Party

VARIABLES
  history,  \* the chain
  stored,   \* the rows of the table transactions
  calls,    \* calls begun
  call      \* the one that is running, or ran last

traceVars == <<history, stored, calls, call>>

Digest == 1..Length
Row == {"none", "whole", "partial"}

\* What a transaction does with the coin: pays it on, or does so signed by
\* another than its sender; turns it into another that its owner keeps; puts it
\* into an object; takes it off the chain; or does not touch it.
Deed == {"pays", "acted", "keeps", "consumed", "exit", "idle"}

Reason ==
  {"none", "error", "incomplete", "custody", "left", "acted", "dead end", "cycle",
   "sink", "limit", "unread", "hub", "unspent", "unfunded", "cut"}

Quiet ==
  [forward |-> TRUE, at |-> "over", current |-> 1, hop |-> 0, holder |-> Nobody,
   expected |-> Nobody, next |-> Nobody, been |-> {}, steps |-> <<>>, row |-> "none",
   reason |-> "none", blind |-> FALSE]

From(t) == history[t].from
To(t) == history[t].to
Amount(t) == history[t].amount
Cp(t) == history[t].cp

\* What an object held is taken out by the one who receives it.
Sender(t) == IF From(t) \in Objects THEN To(t) ELSE From(t)

Spends(t, a) == From(t) = a /\ history[t].deed # "idle"
Gains(t, a) == To(t) = a /\ history[t].deed \in {"pays", "acted", "keeps"}

\* The followed address's row lies beyond the first page of balance changes.
Wide(t) == history[t].wide

\* What a read with its continuations returns: drain keeps what it has when one
\* of them fails, and the row says that it is cut.
Rows(t) == {"whole"} \cup (IF Wide(t) THEN {"partial"} ELSE {})

Visited == Range(call.steps)

TraceInit ==
  /\ history \in Histories
  /\ stored = [t \in Digest |-> "none"]
  /\ calls = 0
  /\ call = Quiet

Begin(t, forward) ==
  /\ call.at = "over"
  /\ calls < MaxCalls
  /\ calls' = calls + 1
  /\ call' = [Quiet EXCEPT !.forward = forward, !.at = "fetch", !.current = t]
  /\ UNCHANGED <<history, stored>>

\* Another tool reads a transaction before the call (bound: one does).
OtherRead(t) ==
  /\ calls = 0
  /\ \A u \in Digest : stored[u] = "none"
  /\ \E row \in Rows(t) : stored' = [stored EXCEPT ![t] = row]
  /\ UNCHANGED <<history, calls, call>>

\* The call ends for `reason`, with `more` changed besides.
End(more, reason) ==
  call' = [more EXCEPT !.at = "over", !.reason = reason]

-----------------------------------------------------------------------------
(* fetchTx. *)

Arrives(row) ==
  call' = [call EXCEPT !.at = "hop", !.row = row, !.blind = (@ \/ row = "partial"),
                       !.steps = Append(@, call.current)]

\* The row of an earlier call.
FetchStored ==
  /\ call.at = "fetch"
  /\ stored[call.current] # "none"
  /\ Arrives(stored[call.current])
  /\ UNCHANGED <<history, stored, calls>>

\* A read of the chain, stored as it came if the store is on and takes it.
FetchRow ==
  /\ call.at = "fetch"
  /\ stored[call.current] = "none"
  /\ \E row \in Rows(call.current), taken \in BOOLEAN :
       /\ stored' = IF taken THEN [stored EXCEPT ![call.current] = row] ELSE stored
       /\ Arrives(row)
  /\ UNCHANGED <<history, calls>>

\* A failure that is rendered as a trace with nothing to follow.
FetchFailsSilently ==
  /\ call.at = "fetch"
  /\ stored[call.current] = "none"
  /\ End(call, "dead end")
  /\ UNCHANGED <<history, stored, calls>>

\* Neither the fullnode nor the archive has it, or neither answers.
FetchFails ==
  /\ call.at = "fetch"
  /\ stored[call.current] = "none"
  /\ End(call, IF call.hop = 0 THEN "error" ELSE "incomplete")
  /\ UNCHANGED <<history, stored, calls>>

-----------------------------------------------------------------------------
(* A hop: what ends the trace at a transaction that was read, and who is     *)
(* followed from it.                                                         *)

\* The address whose funds the hop moves, or whose inflow it explains.
Actor == IF call.holder = Nobody THEN Sender(call.current) ELSE call.holder

CustodyBroken == call.expected # Nobody /\ Sender(call.current) # call.expected

\* chooseNextHop, forward: the recipient, or the owner of what a swap kept.
Recipient(t) ==
  CASE history[t].deed \in {"pays", "acted"} -> To(t)
    [] history[t].deed = "keeps" -> Actor
    [] OTHER -> Nobody

\* chooseNextHop, backward: whose balance went down.
Payer(t) ==
  IF history[t].deed = "idle" \/ (From(t) = call.holder /\ history[t].deed # "keeps")
  THEN Nobody
  ELSE From(t)

Chosen(t) ==
  CASE call.row = "partial" -> Nobody
    [] call.forward -> Recipient(t)
    [] OTHER -> Payer(t)

\* The hop limit noticed a hop late.
VerdictLate(t, next) ==
  CASE call.forward /\ CustodyBroken -> "custody"
    [] next = Nobody -> "dead end"
    [] call.hop = MaxHops -> "limit"
    [] OTHER -> "none"

\* What is known of a hop before anybody's fan-out is measured.
Verdict(t, next) ==
  CASE call.forward /\ CustodyBroken -> "custody"
    [] call.forward /\ history[t].deed = "exit" -> "left"
    [] call.forward /\ history[t].deed = "acted" -> "acted"
    [] next = Nobody -> "dead end"
    [] next # Actor /\ next \in call.been -> "cycle"
    [] next \in Sinks -> "sink"
    [] call.hop = MaxHops - 1 -> "limit"
    [] OTHER -> "none"

HubAsked(next) == ~call.forward \/ next # Actor

Hop ==
  /\ call.at = "hop"
  /\ LET next == Chosen(call.current)
         verdict == Verdict(call.current, next)
     IN IF verdict # "none"
        THEN End(call, verdict)
        ELSE \/ /\ HubAsked(next) => next \notin Hubs
                /\ call' = [call EXCEPT !.at = "search", !.next = next,
                                        !.been = @ \cup {next}]
             \/ /\ HubAsked(next)
                /\ next \in Hubs
                /\ End(call, "hub")
             \/ /\ HubAsked(next)
                /\ End(call, "unread")
  /\ UNCHANGED <<history, stored, calls>>

-----------------------------------------------------------------------------
(* findNextForward and findPriorInflow. *)

\* Candidates one search reads.
ReadCap == PageSize * Pages

\* The first, or the last, so many of a set of transactions.
Earliest(S) == { t \in S : Cardinality({ u \in S : u < t }) < ReadCap }
Latest(S) == { t \in S : Cardinality({ u \in S : u > t }) < ReadCap }

\* The page of a forward, or a backward, search that holds a candidate.
PageUp(t, S) == Cardinality({ u \in S : u < t }) \div PageSize
PageDown(t, S) == Cardinality({ u \in S : u > t }) \div PageSize

\* In the page that holds the current transaction, backward if it is the first,
\* only what lies beyond it counts; of the other pages everything does.
After(S) ==
  { t \in S : call.current \in S /\ PageUp(t, S) = PageUp(call.current, S)
                 => t > call.current }
Before(S) ==
  { t \in S : call.current \in S /\ {PageDown(t, S), PageDown(call.current, S)} = {0}
                 => t < call.current }

\* SENT_AFTER, AFFECTED_AFTER and AFFECTED_BEFORE; the window takes in the
\* checkpoint of the current transaction.
Sent == { t \in Digest : Sender(t) = call.next /\ Cp(t) >= Cp(call.current) }
Touching == { t \in Digest : call.next \in {Sender(t), From(t), To(t)} }
Later == { t \in Touching : Cp(t) >= Cp(call.current) }
Earlier == { t \in Touching : Cp(t) <= Cp(call.current) }

\* The caller's own earlier steps, where they are not left out.
NotSkipped(S) == S

\* hardSkip: the caller's own earlier steps.
Fresh(S) == S \ Visited

\* The first transaction of any kind taken for the next spend.
AnyIn(S, lost) == Fresh(After(Earliest(S))) \ lost

\* allSpends over the pages read; the rows of `lost` stay unread.
SpendsIn(S, lost) == { t \in Fresh(After(Earliest(S))) \ lost : Spends(t, call.next) }

\* What the previous transaction delivered.
Need == Amount(call.current)

\* First in, first out: what a spend draws of what was delivered.
Drawn(t, found) ==
  Max({0, Min({Amount(t), Need - MapThenSumSet(Amount, { u \in found : u < t })})})

\* The spend that drew the most, the first of them.
Largest(t, found) ==
  /\ \A u \in found : Drawn(u, found) <= Drawn(t, found)
  /\ \A u \in found : Drawn(u, found) = Drawn(t, found) => t <= u

\* A full page taken for the last one.
FullPage(S, pages) == pages = S \/ Cardinality(pages) = ReadCap

\* The pages reached the end of the address's history.
Exhausted(S, pages) == pages = S

\* findNextForward: what the address sent, or, when it sent nothing, what took
\* the funds out of it.
SearchForward ==
  /\ call.at = "search" /\ call.forward
  /\ \E lost \in SUBSET { t \in Later : Wide(t) } :
       LET sentOnly == SpendsIn(Sent, lost) # {} \/ Fresh(Earliest(Sent)) \ {call.current} # {}
           read == IF sentOnly THEN Sent ELSE Later
           found == SpendsIn(read, lost)
           blinded == [call EXCEPT !.blind = (@ \/ lost # {})]
       IN IF found # {}
          THEN \E t \in found :
                 /\ Largest(t, found)
                 /\ call' = [blinded EXCEPT
                               !.at = "fetch", !.current = t, !.hop = @ + 1,
                               !.holder = call.next,
                               !.expected = IF sentOnly THEN call.next ELSE Nobody]
          ELSE End(blinded, IF Exhausted(read, Earliest(read)) THEN "unspent" ELSE "cut")
  /\ UNCHANGED <<history, stored, calls>>

\* findPriorInflow: the newest inflow before the hop.
SearchBackward ==
  /\ call.at = "search" /\ ~call.forward
  /\ \E lost \in SUBSET { t \in Earlier : Wide(t) } :
       LET found == { t \in Fresh(Before(Latest(Earlier))) \ lost : Gains(t, call.next) }
           blinded == [call EXCEPT !.blind = (@ \/ lost # {})]
       IN IF found # {}
          THEN \E t \in found :
                 /\ \A u \in found : u <= t
                 /\ call' = [blinded EXCEPT
                               !.at = "fetch", !.current = t, !.hop = @ + 1,
                               !.holder = call.next]
          ELSE End(blinded, IF Exhausted(Earlier, Latest(Earlier)) THEN "unfunded" ELSE "cut")
  /\ UNCHANGED <<history, stored, calls>>

\* A page that cannot be read fails the whole call.
SearchFails ==
  /\ call.at = "search"
  /\ End(call, "error")
  /\ UNCHANGED <<history, stored, calls>>

-----------------------------------------------------------------------------
TraceNext ==
  \/ \E t \in Digest : OtherRead(t)
  \/ \E t \in Digest, forward \in BOOLEAN : Begin(t, forward)
  \/ FetchStored \/ FetchRow \/ FetchFails
  \/ Hop
  \/ SearchForward \/ SearchBackward \/ SearchFails

TraceSpec == TraceInit /\ [][TraceNext]_traceVars

-----------------------------------------------------------------------------
(* Properties. *)

TraceTypeOK ==
  /\ stored \in [Digest -> Row]
  /\ calls \in 0..MaxCalls
  /\ call.forward \in BOOLEAN /\ call.blind \in BOOLEAN
  /\ call.at \in {"fetch", "hop", "search", "over"}
  /\ call.current \in Digest
  /\ call.hop \in 0..MaxHops - 1
  /\ {call.holder, call.expected, call.next} \subseteq Party \cup {Nobody}
  /\ call.been \subseteq Party
  /\ Len(call.steps) <= MaxHops /\ Range(call.steps) \subseteq Digest
  /\ call.row \in Row
  /\ call.reason \in Reason

\* What one hop brought and the next took is the same address's: the trace never
\* passes from one party's funds to a stranger's (the custody check, and the
\* choice of sentAddress over affectedAddress in scanForwardSpends).
HopsLinked ==
  \A i \in 1..Len(call.steps) - 1 :
    LET t == call.steps[i]
        u == call.steps[i + 1]
    IN IF call.forward
       THEN Spends(u, To(t))
       ELSE Gains(u, From(t))

\* A trace goes one way through time and reads no transaction twice, also where
\* several share a checkpoint (hardSkip, "a same-checkpoint window cannot hand
\* one back").
HopsOneWay ==
  \A i, j \in 1..Len(call.steps) : i < j =>
    /\ call.steps[i] # call.steps[j]
    /\ IF call.forward
       THEN Cp(call.steps[i]) <= Cp(call.steps[j])
       ELSE Cp(call.steps[j]) <= Cp(call.steps[i])

\* "It has not spent them yet", and its counterpart backward, are said only when
\* nothing beyond the hop moves the coin, provided every row was read whole.
EndIsTrue ==
  ~call.blind =>
    /\ call.reason = "unspent" =>
         \A t \in Digest \ Visited : t > call.current => ~Spends(t, call.next)
    /\ call.reason = "unfunded" =>
         \A t \in Digest \ Visited : t < call.current => ~Gains(t, call.next)

\* That there is nobody to follow is only said of a transaction that was read and
\* gave the coin to nobody, backward one that took it from nobody else: a read that
\* failed is not an end of the money ("A transport failure is not an empty trace").
\* A row that was cut is the exception, and its hop says that it is.
DeadEndIsRead ==
  call.reason = "dead end" /\ call.row # "partial" =>
    /\ call.current \in Visited
    /\ IF call.forward
       THEN \A p \in Party : ~Gains(call.current, p)
       ELSE \A p \in Party \ {call.holder} : ~Spends(call.current, p)

\* "None of them moved the coin, so it has not spent them yet" is so, cut rows or
\* not (completeTxConnections: "a caller reports an incomplete list instead of
\* presenting it as whole").
UnspentIsTrue ==
  call.reason = "unspent" =>
    \A t \in Digest \ Visited : t > call.current => ~Spends(t, call.next)

\* The next move of an address comes after what it received ("Forward traces a
\* recipient's next move of the tracked coin").
NextMoveIsLater ==
  call.forward =>
    \A i \in 1..Len(call.steps) - 1 : call.steps[i] < call.steps[i + 1]
=============================================================================
