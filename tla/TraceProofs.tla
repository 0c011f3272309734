---------------------------- MODULE TraceProofs ----------------------------
(***************************************************************************)
(* Proofs about Trace: for any history, parties, labels, limits and rows.  *)
(*                                                                         *)
(* Four inductive invariants, each with its step lemma.  Ordered: the      *)
(* transaction at hand is the last step once it was read, and until then   *)
(* is none of them and lies beyond them all.  TraceInv: types, and how far *)
(* a call may be.  LinkInv: whom a search is for.  Honest: what an ended   *)
(* call says.                                                              *)
(***************************************************************************)
EXTENDS Trace, TLAPS

Fields == {"forward", "at", "current", "hop", "holder", "expected", "next", "been", "steps",
           "row", "reason", "blind"}

\* Of t and u in this order, the trace may have gone from t to u.
OneWay(t, u) == IF call.forward THEN Cp(t) <= Cp(u) ELSE Cp(u) <= Cp(t)

Ordered ==
  /\ history \in Histories
  /\ DOMAIN call = Fields
  /\ call.at # "over" => call.current \in Digest
  /\ call.steps \in Seq(Digest)
  /\ call.at \in {"fetch", "hop", "search", "over"}
  /\ call.at = "fetch" =>
       \A i \in 1..Len(call.steps) :
         call.steps[i] # call.current /\ OneWay(call.steps[i], call.current)
  /\ call.at \in {"hop", "search"} =>
       /\ call.steps # <<>>
       /\ call.steps[Len(call.steps)] = call.current
  /\ HopsOneWay

LEMMA CheckpointTyped ==
  ASSUME history \in Histories, NEW t \in Digest
  PROVE  Cp(t) \in Nat
BY TraceAssumption DEF Cp, Digest

\* Every candidate of a search is new to the call and not on the wrong side.
LEMMA SpendsAreBeyond ==
  ASSUME NEW lost, NEW S \in {Sent, Later}, NEW t \in SpendsIn(S, lost)
  PROVE  t \in Digest /\ t \notin Visited /\ Cp(call.current) <= Cp(t)
<1>1. t \in S /\ t \notin Visited
  BY DEF SpendsIn, Fresh, After, Earliest
<1>2. CASE S = Sent
  BY <1>1, <1>2, CheckpointTyped DEF Sent
<1>3. CASE S = Later
  BY <1>1, <1>3, CheckpointTyped DEF Later, Touching
<1> QED
  BY <1>1, <1>2, <1>3

\* A transaction that is new and beyond the last step is beyond them all.
LEMMA BeyondAll ==
  ASSUME Ordered, call.at = "search", NEW t \in Digest, t \notin Visited,
         OneWay(call.current, t)
  PROVE  \A i \in 1..Len(call.steps) : call.steps[i] # t /\ OneWay(call.steps[i], t)
<1> SUFFICES ASSUME NEW i \in 1..Len(call.steps)
             PROVE  call.steps[i] # t /\ OneWay(call.steps[i], t)
  OBVIOUS
<1>1. /\ call.steps \in Seq(Digest) /\ Len(call.steps) \in Nat
      /\ call.steps[Len(call.steps)] = call.current
      /\ call.steps[i] \in Digest /\ call.current \in Digest
  BY DEF Ordered
<1>2. call.steps[i] # t
  BY <1>1 DEF Visited, Range
<1>3. /\ Cp(t) \in Nat /\ Cp(call.steps[i]) \in Nat /\ Cp(call.current) \in Nat
  BY <1>1, CheckpointTyped DEF Ordered
<1>4. CASE i = Len(call.steps)
  BY <1>1, <1>2, <1>4
<1>5. CASE i < Len(call.steps)
  <2>1. OneWay(call.steps[i], call.current)
    BY <1>1, <1>5 DEF Ordered, HopsOneWay, OneWay
  <2> QED
    BY <1>2, <1>3, <2>1 DEF OneWay
<1> QED
  BY <1>1, <1>4, <1>5

\* A read appends the transaction at hand to the steps.
LEMMA ArrivesOrdered ==
  ASSUME Ordered, call.at = "fetch", NEW row, Arrives(row), UNCHANGED history
  PROVE  Ordered'
<1>1. /\ DOMAIN call' = Fields /\ call'.at = "hop" /\ call'.current = call.current
      /\ call'.forward = call.forward /\ call'.steps = Append(call.steps, call.current)
  BY DEF Arrives, Ordered, Fields
<1>2. /\ call.steps \in Seq(Digest) /\ call.current \in Digest /\ Len(call.steps) \in Nat
  BY DEF Ordered
<1>3. /\ call'.steps \in Seq(Digest) /\ Len(call'.steps) = Len(call.steps) + 1
      /\ call'.steps[Len(call.steps) + 1] = call.current
      /\ \A i \in 1..Len(call.steps) : call'.steps[i] = call.steps[i]
  BY <1>1, <1>2
<1>4. ASSUME NEW i \in 1..Len(call'.steps), NEW j \in 1..Len(call'.steps), i < j
      PROVE  /\ call'.steps[i] # call'.steps[j]
             /\ OneWay(call'.steps[i], call'.steps[j])
  <2>1. i \in 1..Len(call.steps)
    BY <1>2, <1>3, <1>4
  <2>2. CASE j \in 1..Len(call.steps)
    BY <1>3, <1>4, <2>1, <2>2 DEF Ordered, HopsOneWay, OneWay
  <2>3. CASE j = Len(call.steps) + 1
    BY <1>3, <2>1, <2>3 DEF Ordered
  <2> QED
    BY <1>2, <1>3, <2>2, <2>3
<1>5. HopsOneWay'
  BY <1>1, <1>4 DEF HopsOneWay, OneWay, Cp
<1>6. call'.steps # <<>> /\ call'.steps[Len(call'.steps)] = call'.current
  <2>1. Len(call'.steps) # 0
    BY <1>2, <1>3
  <2>2. call'.steps # <<>>
    BY <2>1
  <2>3. call'.steps[Len(call'.steps)] = call'.current
    BY <1>1, <1>3
  <2> QED
    BY <2>2, <2>3
<1> QED
  BY <1>1, <1>2, <1>3, <1>5, <1>6 DEF Ordered

\* A call that ends keeps its steps.
LEMMA EndOrdered ==
  ASSUME Ordered, NEW more, NEW reason, End(more, reason), UNCHANGED history,
         DOMAIN more = Fields, more.steps = call.steps, more.current = call.current,
         more.forward = call.forward
  PROVE  Ordered'
<1>1. /\ DOMAIN call' = Fields /\ call'.at = "over" /\ call'.current = call.current
      /\ call'.forward = call.forward /\ call'.steps = call.steps
  BY DEF End, Fields
<1> QED
  BY <1>1 DEF Ordered, HopsOneWay, Cp

\* A search that found `t` goes on to it.
LEMMA FoundOrdered ==
  ASSUME Ordered, call.at = "search", NEW t \in Digest, t \notin Visited,
         OneWay(call.current, t), UNCHANGED history,
         DOMAIN call' = Fields, call'.at = "fetch", call'.current = t,
         call'.steps = call.steps, call'.forward = call.forward
  PROVE  Ordered'
<1>1. \A i \in 1..Len(call.steps) : call.steps[i] # t /\ OneWay(call.steps[i], t)
  BY BeyondAll
<1>2. (\A i \in 1..Len(call.steps) :
         call.steps[i] # call.current /\ OneWay(call.steps[i], call.current))'
  BY <1>1 DEF OneWay, Cp
<1>3. HopsOneWay'
  BY DEF Ordered, HopsOneWay, Cp
<1> QED
  BY <1>2, <1>3 DEF Ordered

\* A search goes on to t, or ends; the rows of `lost` were not read.
Blinded(lost) == [call EXCEPT !.blind = (@ \/ lost # {})]

SpentBy(t, lost, expected) ==
  call' = [Blinded(lost) EXCEPT !.at = "fetch", !.current = t, !.hop = @ + 1,
                                !.holder = call.next, !.expected = expected]

FundedBy(t, lost) ==
  call' = [Blinded(lost) EXCEPT !.at = "fetch", !.current = t, !.hop = @ + 1,
                                !.holder = call.next]

\* The outcomes of a search forward over the pages of S, which are those the
\* address signed only if it signed any.
ForwardOver(S, lost) ==
  /\ S = Later \/ (S = Sent /\ Sent # {})
  /\ \/ \E t \in SpendsIn(S, lost), expected \in {call.next, Nobody} :
          SpentBy(t, lost, expected)
     \/ /\ SpendsIn(S, lost) = {}
        /\ End(Blinded(lost), IF Exhausted(S, Earliest(S)) THEN "unspent" ELSE "cut")

LEMMA ForwardOutcome ==
  ASSUME SearchForward
  PROVE  \E S, lost : ForwardOver(S, lost)
<1>1. PICK lost \in SUBSET { t \in Later : Wide(t) } :
        LET sentOnly == SpendsIn(Sent, lost) # {} \/ Fresh(Earliest(Sent)) \ {call.current} # {}
            read == IF sentOnly THEN Sent ELSE Later
            found == SpendsIn(read, lost)
            blinded == [call EXCEPT !.blind = (@ \/ lost # {})]
        IN IF found # {}
           THEN \E t \in found :
                  /\ Largest(t, found)
                  /\ call' = [blinded EXCEPT
                                !.at = "fetch", !.current = t, !.hop = @ + 1,
                                !.holder = call.next,
                                !.expected = IF sentOnly THEN call.next ELSE Nobody]
           ELSE End(blinded, IF Exhausted(read, Earliest(read)) THEN "unspent" ELSE "cut")
  BY DEF SearchForward
<1> DEFINE sentOnly == SpendsIn(Sent, lost) # {} \/ Fresh(Earliest(Sent)) \ {call.current} # {}
           read == IF sentOnly THEN Sent ELSE Later
           found == SpendsIn(read, lost)
           expected == IF sentOnly THEN call.next ELSE Nobody
<1>2. IF found # {}
      THEN \E t \in found : SpentBy(t, lost, expected)
      ELSE End(Blinded(lost), IF Exhausted(read, Earliest(read)) THEN "unspent" ELSE "cut")
  BY <1>1 DEF SpentBy, Blinded
<1>3. Sent = {} => ~sentOnly
  BY DEF SpendsIn, Fresh, After, Earliest
<1>4. read = Later \/ (read = Sent /\ Sent # {})
  BY <1>3
<1>5. expected \in {call.next, Nobody}
  OBVIOUS
<1> HIDE DEF sentOnly, read, expected
<1>6. ForwardOver(read, lost)
  BY <1>2, <1>4, <1>5 DEF ForwardOver
<1> QED
  BY <1>6

\* The outcomes of a search backward.
InflowsIn(lost) == { t \in Fresh(Before(Latest(Earlier))) \ lost : Gains(t, call.next) }

BackwardOver(lost) ==
  \/ \E t \in InflowsIn(lost) : FundedBy(t, lost)
  \/ /\ InflowsIn(lost) = {}
     /\ End(Blinded(lost), IF Exhausted(Earlier, Latest(Earlier)) THEN "unfunded" ELSE "cut")

LEMMA BackwardOutcome ==
  ASSUME SearchBackward
  PROVE  \E lost : BackwardOver(lost)
BY DEF SearchBackward, BackwardOver, InflowsIn, FundedBy, Blinded

LEMMA StepOrdered ==
  ASSUME Ordered, [TraceNext]_traceVars
  PROVE  Ordered'
<1>0. DOMAIN call = Fields
  BY DEF Ordered
<1>1. ASSUME NEW t \in Digest, OtherRead(t)
      PROVE  Ordered'
  BY <1>1 DEF OtherRead, Ordered, HopsOneWay, OneWay, Cp
<1>2. ASSUME NEW t \in Digest, NEW forward \in BOOLEAN, Begin(t, forward)
      PROVE  Ordered'
  <2>1. /\ DOMAIN call' = Fields /\ call'.at = "fetch" /\ call'.current = t
        /\ call'.steps = <<>> /\ history' = history
    BY <1>2 DEF Begin, Quiet, Fields
  <2>2. 1..Len(call'.steps) = {} /\ call'.steps \in Seq(Digest)
    BY <2>1
  <2> QED
    BY <2>1, <2>2 DEF Ordered, HopsOneWay
<1>3. CASE FetchStored
  BY <1>3, ArrivesOrdered DEF FetchStored
<1>4. CASE FetchRow
  BY <1>4, ArrivesOrdered DEF FetchRow
<1>5. CASE FetchFails
  BY <1>0, <1>5, EndOrdered DEF FetchFails
<1>6. CASE Hop
  <2>1. call.at = "hop" /\ UNCHANGED history
    BY <1>6 DEF Hop
  <2>2. ASSUME NEW reason, End(call, reason)
        PROVE  Ordered'
    BY <1>0, <2>1, <2>2, EndOrdered
  <2>3. ASSUME NEW next,
               call' = [call EXCEPT !.at = "search", !.next = next, !.been = @ \cup {next}]
        PROVE  Ordered'
    <3>1. /\ DOMAIN call' = Fields /\ call'.at = "search" /\ call'.current = call.current
          /\ call'.forward = call.forward /\ call'.steps = call.steps
      BY <1>0, <2>3 DEF Fields
    <3> QED
      BY <2>1, <3>1 DEF Ordered, HopsOneWay, Cp
  <2> QED
    BY <1>6, <2>2, <2>3 DEF Hop
<1>7. ASSUME NEW lost
      PROVE  /\ DOMAIN Blinded(lost) = Fields /\ Blinded(lost).steps = call.steps
             /\ Blinded(lost).current = call.current /\ Blinded(lost).forward = call.forward
  BY <1>0 DEF Blinded, Fields
<1>8. ASSUME UNCHANGED history, NEW lost, NEW reason, End(Blinded(lost), reason)
      PROVE  Ordered'
  BY <1>7, <1>8, EndOrdered
<1>9. ASSUME NEW t, NEW lost, FundedBy(t, lost) \/ \E expected : SpentBy(t, lost, expected)
      PROVE  /\ DOMAIN call' = Fields /\ call'.at = "fetch" /\ call'.current = t
             /\ call'.steps = call.steps /\ call'.forward = call.forward
  <2> DEFINE b == Blinded(lost)
  <2>1. \/ call' = [b EXCEPT !.at = "fetch", !.current = t, !.hop = @ + 1, !.holder = call.next]
        \/ \E expected : call' = [b EXCEPT !.at = "fetch", !.current = t, !.hop = @ + 1,
                                           !.holder = call.next, !.expected = expected]
    BY <1>9 DEF FundedBy, SpentBy
  <2>2. DOMAIN b = Fields /\ b.steps = call.steps /\ b.forward = call.forward
    BY <1>7
  <2> HIDE DEF b
  <2> QED
    BY <2>1, <2>2 DEF Fields
<1>10. CASE SearchForward
  <2>1. call.at = "search" /\ call.forward /\ UNCHANGED history
    BY <1>10 DEF SearchForward
  <2>2. PICK S, lost : ForwardOver(S, lost)
    BY <1>10, ForwardOutcome
  <2>3. ASSUME NEW t \in SpendsIn(S, lost), NEW expected, SpentBy(t, lost, expected)
        PROVE  Ordered'
    <3>1. t \in Digest /\ t \notin Visited /\ Cp(call.current) <= Cp(t)
      BY <2>2, SpendsAreBeyond DEF Ordered, ForwardOver
    <3> QED
      BY <1>9, <2>1, <2>3, <3>1, FoundOrdered DEF OneWay
  <2> QED
    BY <1>8, <2>1, <2>2, <2>3 DEF ForwardOver
<1>11. CASE SearchBackward
  <2>1. call.at = "search" /\ ~call.forward /\ UNCHANGED history
    BY <1>11 DEF SearchBackward
  <2>2. PICK lost : BackwardOver(lost)
    BY <1>11, BackwardOutcome
  <2>3. ASSUME NEW t \in InflowsIn(lost), FundedBy(t, lost)
        PROVE  Ordered'
    <3>1. t \in Earlier /\ t \notin Visited
      BY DEF InflowsIn, Fresh, Before, Latest
    <3>2. t \in Digest /\ Cp(t) <= Cp(call.current)
      BY <3>1 DEF Earlier, Touching
    <3> QED
      BY <1>9, <2>1, <2>3, <3>1, <3>2, FoundOrdered DEF OneWay
  <2> QED
    BY <1>8, <2>1, <2>2, <2>3 DEF BackwardOver
<1>12. CASE SearchFails
  BY <1>0, <1>12, EndOrdered DEF SearchFails
<1>13. CASE UNCHANGED traceVars
  BY <1>13 DEF traceVars, Ordered, HopsOneWay, OneWay, Cp, Digest
<1> QED
  BY <1>1, <1>2, <1>3, <1>4, <1>5, <1>6, <1>10, <1>11, <1>12, <1>13 DEF TraceNext

\* For any history, rows, failures and bounds, a trace reads no transaction twice
\* and goes one way through the checkpoints.
THEOREM TraceGoesOneWay == TraceSpec => []HopsOneWay
<1>1. TraceInit => Ordered
  BY DEF TraceInit, Quiet, Ordered, HopsOneWay, Fields
<1>2. Ordered /\ [TraceNext]_traceVars => Ordered'
  BY StepOrdered
<1>3. Ordered => HopsOneWay
  BY DEF Ordered
<1> QED
  BY <1>1, <1>2, <1>3, PTL DEF TraceSpec

-----------------------------------------------------------------------------
(* Types, and how far a call is: a call at its n-th hop has read n or n + 1   *)
(* transactions, and one that searches has a hop left.                        *)

Calls ==
  [forward : BOOLEAN, at : {"fetch", "hop", "search", "over"}, current : Digest,
   hop : 0..MaxHops - 1, holder : Party \cup {Nobody}, expected : Party \cup {Nobody},
   next : Party \cup {Nobody}, been : SUBSET Party, steps : Seq(Digest), row : Row,
   reason : Reason, blind : BOOLEAN]

Underway ==
  /\ call.at = "fetch" => Len(call.steps) = call.hop
  /\ call.at \in {"hop", "search"} => Len(call.steps) = call.hop + 1
  /\ call.at = "search" => call.hop < MaxHops - 1 /\ call.next \in Party
  /\ Len(call.steps) <= MaxHops

TraceInv ==
  /\ history \in Histories
  /\ stored \in [Digest -> Row]
  /\ calls \in 0..MaxCalls
  /\ call \in Calls
  /\ Underway

LEMMA HistoryTyped ==
  ASSUME history \in Histories, NEW t \in Digest
  PROVE  From(t) \in Party /\ To(t) \in Party /\ Sender(t) \in Party
BY TraceAssumption DEF Digest, From, To, Sender

\* What follows a hop is a party whenever the hop does not end the call.
LEMMA ChosenTyped ==
  ASSUME TraceInv, call.at = "hop"
  PROVE  Chosen(call.current) \in Party \cup {Nobody}
<1>1. call.current \in Digest /\ call.holder \in Party \cup {Nobody}
  BY DEF TraceInv, Underway, Calls
<1>2. /\ From(call.current) \in Party /\ To(call.current) \in Party
      /\ Sender(call.current) \in Party
  BY <1>1, HistoryTyped DEF TraceInv
<1>3. Actor \in Party \cup {Nobody}
  BY <1>1, <1>2 DEF Actor
<1>4. /\ Recipient(call.current) \in Party \cup {Nobody}
      /\ Payer(call.current) \in Party \cup {Nobody}
  BY <1>2, <1>3 DEF Recipient, Payer
<1> QED
  BY <1>4 DEF Chosen

\* A verdict is one of the ends a reader is told of, and none of them stands for
\* a read that failed or for the end of an address's history.
LEMMA VerdictTyped ==
  ASSUME NEW t, NEW next
  PROVE  /\ Verdict(t, next) \in Reason
         /\ Verdict(t, next) \notin {"error", "incomplete", "unread", "unspent", "unfunded"}
BY DEF Verdict, Reason

LEMMA VerdictNone ==
  ASSUME TraceInv, NEW t, NEW next \in Party \cup {Nobody}, Verdict(t, next) = "none"
  PROVE  next \in Party /\ call.hop # MaxHops - 1
BY DEF Verdict

\* Where a call ends, it has not read more than it may.
LEMMA EndTyped ==
  ASSUME TraceInv, NEW more \in Calls, NEW reason \in Reason, End(more, reason),
         more.steps = call.steps, UNCHANGED <<history, stored, calls>>
  PROVE  TraceInv'
<1>1. call' \in Calls /\ call'.at = "over" /\ call'.steps = call.steps
  BY DEF End, Calls
<1> QED
  BY <1>1 DEF TraceInv, Underway

LEMMA ArrivesTyped ==
  ASSUME TraceInv, call.at = "fetch", NEW row \in Row, Arrives(row), UNCHANGED history,
         stored' \in [Digest -> Row], UNCHANGED calls
  PROVE  TraceInv'
<1>1. /\ call.steps \in Seq(Digest) /\ call.current \in Digest
      /\ call.hop \in 0..MaxHops - 1 /\ Len(call.steps) = call.hop
      /\ MaxHops \in Nat
  BY TraceAssumption DEF TraceInv, Underway, Calls
<1>2. /\ Append(call.steps, call.current) \in Seq(Digest)
      /\ Len(Append(call.steps, call.current)) = call.hop + 1
  BY <1>1
<1>3. /\ call' \in Calls /\ call'.at = "hop" /\ call'.current = call.current
      /\ call'.hop = call.hop /\ call'.steps = Append(call.steps, call.current)
  BY <1>2 DEF Arrives, TraceInv, Calls
<1> QED
  BY <1>1, <1>2, <1>3 DEF TraceInv, Underway

\* A search that goes on has a hop left for it.
LEMMA GoesOnTyped ==
  ASSUME TraceInv, call.at = "search", NEW t \in Digest, NEW lost,
         \/ FundedBy(t, lost)
         \/ \E expected \in {call.next, Nobody} : SpentBy(t, lost, expected),
         UNCHANGED <<history, stored, calls>>
  PROVE  TraceInv'
<1>1. /\ call \in Calls /\ call.hop \in 0..MaxHops - 1 /\ call.hop < MaxHops - 1
      /\ Len(call.steps) = call.hop + 1 /\ MaxHops \in Nat
  BY TraceAssumption DEF TraceInv, Underway, Calls
<1>2. call.hop + 1 \in 0..MaxHops - 1
  BY <1>1
<1>3. /\ Blinded(lost) \in Calls /\ Blinded(lost).hop = call.hop
      /\ Blinded(lost).steps = call.steps
  BY <1>1 DEF Blinded, Calls
<1>4. {call.next, Nobody} \subseteq Party \cup {Nobody}
  BY <1>1 DEF Calls
<1>5. /\ call' \in Calls /\ call'.at = "fetch" /\ call'.hop = call.hop + 1
      /\ call'.current = t /\ call'.steps = call.steps
  <2> DEFINE b == Blinded(lost)
  <2>1. b \in Calls /\ b.hop + 1 \in 0..MaxHops - 1
    BY <1>2, <1>3
  <2> HIDE DEF b
  <2>2. CASE FundedBy(t, lost)
    <3>1. call' = [b EXCEPT !.at = "fetch", !.current = t, !.hop = @ + 1, !.holder = call.next]
      BY <2>2 DEF FundedBy, b
    <3>2. call' \in Calls /\ call'.at = "fetch" /\ call'.hop = b.hop + 1
          /\ call'.current = t /\ call'.steps = b.steps
      BY <1>4, <2>1, <3>1 DEF Calls
    <3> QED
      BY <1>3, <3>2 DEF b
  <2>3. CASE \E expected \in {call.next, Nobody} : SpentBy(t, lost, expected)
    <3>1. PICK expected \in {call.next, Nobody} :
            call' = [b EXCEPT !.at = "fetch", !.current = t, !.hop = @ + 1,
                              !.holder = call.next, !.expected = expected]
      BY <2>3 DEF SpentBy, b
    <3>2. call' \in Calls /\ call'.at = "fetch" /\ call'.hop = b.hop + 1
          /\ call'.current = t /\ call'.steps = b.steps
      BY <1>4, <2>1, <3>1 DEF Calls
    <3> QED
      BY <1>3, <3>2 DEF b
  <2> QED
    BY <2>2, <2>3
<1> QED
  BY <1>1, <1>2, <1>5 DEF TraceInv, Underway

LEMMA QuietTyped == Quiet \in Calls
<1>1. <<>> \in Seq(Digest) /\ 1 \in Digest /\ 0 \in 0..MaxHops - 1
  BY TraceAssumption DEF Digest
<1> QED
  BY <1>1 DEF Quiet, Calls, Row, Reason

LEMMA RowsTyped ==
  ASSUME NEW t
  PROVE  Rows(t) \subseteq Row
BY DEF Rows, Row

LEMMA StepTyped ==
  ASSUME TraceInv, [TraceNext]_traceVars
  PROVE  TraceInv'
<1>0. call \in Calls
  BY DEF TraceInv
<1>1. ASSUME NEW t \in Digest, OtherRead(t)
      PROVE  TraceInv'
  BY <1>1, RowsTyped DEF OtherRead, TraceInv, Underway
<1>2. ASSUME NEW t \in Digest, NEW forward \in BOOLEAN, Begin(t, forward)
      PROVE  TraceInv'
  <2>1. /\ call' \in Calls /\ call'.at = "fetch" /\ call'.hop = 0 /\ call'.steps = <<>>
        /\ call'.current = t
    BY <1>2, QuietTyped DEF Begin, Quiet, Calls
  <2>2. calls' \in 0..MaxCalls
    BY <1>2, TraceAssumption DEF Begin, TraceInv
  <2> QED
    BY <1>2, <2>1, <2>2, TraceAssumption DEF Begin, TraceInv, Underway
<1>3. CASE FetchStored
  <2>1. stored[call.current] \in Row
    BY <1>3 DEF FetchStored, TraceInv, Calls
  <2> QED
    BY <1>3, <2>1, ArrivesTyped DEF FetchStored, TraceInv
<1>4. CASE FetchRow
  <2>1. PICK row \in Rows(call.current), taken \in BOOLEAN :
          /\ stored' = IF taken THEN [stored EXCEPT ![call.current] = row] ELSE stored
          /\ Arrives(row)
    BY <1>4 DEF FetchRow
  <2>2. row \in Row
    BY RowsTyped
  <2>3. stored' \in [Digest -> Row]
    BY <2>1, <2>2 DEF TraceInv
  <2> QED
    BY <1>4, <2>1, <2>2, <2>3, ArrivesTyped DEF FetchRow
<1>5. CASE FetchFails
  BY <1>0, <1>5, EndTyped DEF FetchFails, Reason
<1>6. CASE Hop
  <2> DEFINE next == Chosen(call.current)
             verdict == Verdict(call.current, next)
  <2>1. call.at = "hop" /\ UNCHANGED <<history, stored, calls>>
    BY <1>6 DEF Hop
  <2>2. ASSUME NEW reason \in Reason, End(call, reason)
        PROVE  TraceInv'
    BY <1>0, <2>1, <2>2, EndTyped
  <2>3. ASSUME verdict = "none",
               call' = [call EXCEPT !.at = "search", !.next = next, !.been = @ \cup {next}]
        PROVE  TraceInv'
    <3>1. next \in Party /\ call.hop # MaxHops - 1
      BY <2>1, <2>3, ChosenTyped, VerdictNone
    <3>2. /\ call' \in Calls /\ call'.at = "search" /\ call'.current = call.current
          /\ call'.hop = call.hop /\ call'.steps = call.steps /\ call'.next = next
      BY <1>0, <2>3, <3>1 DEF Calls
    <3>3. call.hop < MaxHops - 1
      BY <1>0, <3>1, TraceAssumption DEF Calls
    <3> QED
      BY <2>1, <3>1, <3>2, <3>3 DEF TraceInv, Underway
  <2>4. verdict \in Reason /\ "hub" \in Reason /\ "unread" \in Reason
    BY VerdictTyped DEF Reason
  <2> HIDE DEF next, verdict
  <2> QED
    BY <1>6, <2>2, <2>3, <2>4 DEF Hop, next, verdict
<1>7. ASSUME NEW lost, NEW reason \in Reason, End(Blinded(lost), reason),
             call.at = "search", UNCHANGED <<history, stored, calls>>
      PROVE  TraceInv'
  <2>1. Blinded(lost) \in Calls /\ Blinded(lost).steps = call.steps
    BY <1>0 DEF Calls, Blinded
  <2> QED
    BY <1>7, <2>1, EndTyped
<1>8. CASE SearchForward
  <2>1. call.at = "search" /\ UNCHANGED <<history, stored, calls>>
    BY <1>8 DEF SearchForward
  <2>2. PICK S, lost : ForwardOver(S, lost)
    BY <1>8, ForwardOutcome
  <2>3. S \subseteq Digest
    BY <2>2 DEF ForwardOver, Later, Sent, Touching
  <2>4. SpendsIn(S, lost) \subseteq Digest
    BY <2>3 DEF SpendsIn, Fresh, After, Earliest
  <2>5. CASE \E t \in SpendsIn(S, lost), expected \in {call.next, Nobody} :
               SpentBy(t, lost, expected)
    BY <2>1, <2>4, <2>5, GoesOnTyped
  <2>6. CASE End(Blinded(lost), IF Exhausted(S, Earliest(S)) THEN "unspent" ELSE "cut")
    BY <1>7, <2>1, <2>6 DEF Reason
  <2> QED
    BY <2>2, <2>5, <2>6 DEF ForwardOver
<1>9. CASE SearchBackward
  <2>1. call.at = "search" /\ UNCHANGED <<history, stored, calls>>
    BY <1>9 DEF SearchBackward
  <2>2. PICK lost : BackwardOver(lost)
    BY <1>9, BackwardOutcome
  <2>3. InflowsIn(lost) \subseteq Digest
    BY DEF InflowsIn, Fresh, Before, Latest, Earlier, Touching
  <2>4. CASE \E t \in InflowsIn(lost) : FundedBy(t, lost)
    BY <2>1, <2>3, <2>4, GoesOnTyped
  <2>5. CASE End(Blinded(lost),
                 IF Exhausted(Earlier, Latest(Earlier)) THEN "unfunded" ELSE "cut")
    BY <1>7, <2>1, <2>5 DEF Reason
  <2> QED
    BY <2>2, <2>4, <2>5 DEF BackwardOver
<1>10. CASE SearchFails
  BY <1>0, <1>10, EndTyped DEF SearchFails, Reason
<1>11. CASE UNCHANGED traceVars
  BY <1>11 DEF traceVars, TraceInv, Underway
<1> QED
  BY <1>1, <1>2, <1>3, <1>4, <1>5, <1>6, <1>8, <1>9, <1>10, <1>11 DEF TraceNext

LEMMA InitTyped ==
  ASSUME TraceInit
  PROVE  TraceInv
<1>1. call \in Calls /\ call.at = "over" /\ call.steps = <<>>
  BY QuietTyped DEF TraceInit, Quiet
<1> QED
  BY <1>1, TraceAssumption DEF TraceInit, TraceInv, Underway, Row

\* For any history and arguments: what a call keeps has its type, it reads no more
\* transactions than hops were asked for, and it follows parties only.
THEOREM TraceTypeCorrect == TraceSpec => []TraceTypeOK
<1>1. TraceInv /\ [TraceNext]_traceVars => TraceInv'
  BY StepTyped
<1>2. TraceInv => TraceTypeOK
  BY DEF TraceInv, TraceTypeOK, Calls, Underway, Range
<1> QED
  BY InitTyped, <1>1, <1>2, PTL DEF TraceSpec

-----------------------------------------------------------------------------
(* Who is followed.  The last step is linked to the transaction a call is     *)
(* about to read, and the party it searches for is on the side of the         *)
(* current transaction it follows: a swap's proceeds stay with whoever gave   *)
(* the coin for them.                                                         *)

Linked(t, u) == IF call.forward THEN Spends(u, To(t)) ELSE Gains(u, From(t))

LinkInv ==
  /\ HopsLinked
  /\ call.at = "fetch" /\ call.steps # <<>> =>
       Linked(call.steps[Len(call.steps)], call.current)
  /\ call.at # "over" /\ call.forward /\ call.holder # Nobody =>
       From(call.current) = call.holder
  /\ call.at = "search" =>
       call.next = IF call.forward THEN To(call.current) ELSE From(call.current)

LEMMA ArrivesLinked ==
  ASSUME Ordered, TraceInv, LinkInv, call.at = "fetch", NEW row \in Row, Arrives(row),
         UNCHANGED history
  PROVE  LinkInv'
<1>1. /\ call'.at = "hop" /\ call'.current = call.current /\ call'.forward = call.forward
      /\ call'.holder = call.holder /\ call'.steps = Append(call.steps, call.current)
  BY DEF Arrives, TraceInv, Calls
<1>2. /\ call.steps \in Seq(Digest) /\ call.current \in Digest /\ Len(call.steps) \in Nat
  BY DEF TraceInv, Calls
<1>3. /\ Len(call'.steps) = Len(call.steps) + 1
      /\ call'.steps[Len(call.steps) + 1] = call.current
      /\ \A i \in 1..Len(call.steps) : call'.steps[i] = call.steps[i]
  BY <1>1, <1>2
<1>4. ASSUME NEW i \in 1..Len(call'.steps) - 1
      PROVE  Linked(call'.steps[i], call'.steps[i + 1])
  <2>1. CASE i = Len(call.steps)
    <3>1. call.steps # <<>>
      BY <1>2, <1>4, <2>1
    <3> QED
      BY <1>2, <1>3, <1>4, <2>1, <3>1 DEF LinkInv
  <2>2. CASE i # Len(call.steps)
    <3>1. i \in 1..Len(call.steps) - 1 /\ i + 1 \in 1..Len(call.steps)
      BY <1>2, <1>3, <1>4, <2>2
    <3>2. call'.steps[i] = call.steps[i] /\ call'.steps[i + 1] = call.steps[i + 1]
      BY <1>2, <1>3, <3>1
    <3> QED
      BY <3>1, <3>2 DEF LinkInv, HopsLinked, Linked
  <2> QED
    BY <2>1, <2>2
<1>5. HopsLinked'
  BY <1>1, <1>4 DEF HopsLinked, Linked, Spends, Gains, From, To
<1> QED
  BY <1>1, <1>5 DEF LinkInv, From

LEMMA EndLinked ==
  ASSUME LinkInv, NEW more \in Calls, NEW reason, End(more, reason), UNCHANGED history,
         more.steps = call.steps, more.forward = call.forward
  PROVE  LinkInv'
<1>1. call'.at = "over" /\ call'.steps = call.steps /\ call'.forward = call.forward
  BY DEF End, Calls
<1> QED
  BY <1>1 DEF LinkInv, HopsLinked, Spends, Gains, From, To

\* What a search goes on to is linked to the current transaction.
LEMMA GoesOnLinked ==
  ASSUME Ordered, TraceInv, LinkInv, call.at = "search", NEW t \in Digest,
         Linked(call.current, t), call.forward => From(t) = call.next,
         call'.at = "fetch", call'.current = t, call'.steps = call.steps,
         call'.forward = call.forward, call'.holder = call.next, UNCHANGED history
  PROVE  LinkInv'
<1>1. call.steps[Len(call.steps)] = call.current
  BY DEF Ordered
<1> QED
  BY <1>1 DEF LinkInv, HopsLinked, Linked, Spends, Gains, From, To

\* Whom a hop goes on to search for.
LEMMA ChosenLinked ==
  ASSUME TraceInv, LinkInv, call.at = "hop", Chosen(call.current) # Nobody
  PROVE  Chosen(call.current) =
           IF call.forward THEN To(call.current) ELSE From(call.current)
<1>1. call.current \in Digest /\ history \in Histories
  BY DEF TraceInv, Calls
<1>2. CASE ~call.forward
  BY <1>2 DEF Chosen, Payer
<1>3. CASE call.forward
  <2>1. Chosen(call.current) = Recipient(call.current)
    BY <1>3 DEF Chosen
  <2>2. CASE history[call.current].deed # "keeps"
    BY <1>3, <2>1, <2>2 DEF Recipient
  <2>3. CASE history[call.current].deed = "keeps"
    <3>1. From(call.current) = To(call.current)
      BY <1>1, <2>3, TraceAssumption DEF From, To, Digest
    <3>2. Actor = From(call.current)
      BY <1>3, <3>1 DEF Actor, Sender, LinkInv
    <3> QED
      BY <1>3, <2>1, <2>3, <3>1, <3>2 DEF Recipient
  <2> QED
    BY <2>2, <2>3
<1> QED
  BY <1>2, <1>3

LEMMA BlindedFields ==
  ASSUME TraceInv, NEW lost
  PROVE  /\ Blinded(lost) \in Calls
         /\ Blinded(lost).steps = call.steps /\ Blinded(lost).forward = call.forward
         /\ Blinded(lost).current = call.current /\ Blinded(lost).next = call.next
         /\ Blinded(lost).reason = call.reason
         /\ Blinded(lost).blind = (call.blind \/ lost # {})
BY DEF TraceInv, Blinded, Calls

LEMMA GoesOnFields ==
  ASSUME TraceInv, NEW t, NEW lost,
         FundedBy(t, lost) \/ \E expected : SpentBy(t, lost, expected)
  PROVE  /\ call'.at = "fetch" /\ call'.current = t /\ call'.steps = call.steps
         /\ call'.forward = call.forward /\ call'.holder = call.next
         /\ call'.reason = call.reason
<1> DEFINE b == Blinded(lost)
<1>1. /\ b \in Calls /\ b.steps = call.steps /\ b.forward = call.forward
      /\ b.reason = call.reason
  BY BlindedFields
<1>2. \/ call' = [b EXCEPT !.at = "fetch", !.current = t, !.hop = @ + 1, !.holder = call.next]
      \/ \E expected : call' = [b EXCEPT !.at = "fetch", !.current = t, !.hop = @ + 1,
                                         !.holder = call.next, !.expected = expected]
  BY DEF FundedBy, SpentBy
<1> HIDE DEF b
<1> QED
  BY <1>1, <1>2 DEF Calls

LEMMA StepLinked ==
  ASSUME Ordered, TraceInv, LinkInv, [TraceNext]_traceVars
  PROVE  LinkInv'
<1>0. call \in Calls
  BY DEF TraceInv
<1>1. ASSUME NEW t \in Digest, OtherRead(t)
      PROVE  LinkInv'
  BY <1>1 DEF OtherRead, LinkInv, HopsLinked, Linked, Spends, Gains, From, To
<1>2. ASSUME NEW t \in Digest, NEW forward \in BOOLEAN, Begin(t, forward)
      PROVE  LinkInv'
  <2>1. /\ call'.at = "fetch" /\ call'.holder = Nobody /\ call'.steps = <<>>
    BY <1>2, QuietTyped DEF Begin, Quiet, Calls
  <2> QED
    BY <2>1 DEF LinkInv, HopsLinked
<1>3. CASE FetchStored
  <2>1. stored[call.current] \in Row
    BY <1>3 DEF FetchStored, TraceInv, Calls
  <2> QED
    BY <1>3, <2>1, ArrivesLinked DEF FetchStored
<1>4. CASE FetchRow
  BY <1>4, RowsTyped, ArrivesLinked DEF FetchRow
<1>5. CASE FetchFails
  BY <1>0, <1>5, EndLinked DEF FetchFails
<1>6. CASE Hop
  <2> DEFINE next == Chosen(call.current)
             verdict == Verdict(call.current, next)
  <2>1. call.at = "hop" /\ UNCHANGED history
    BY <1>6 DEF Hop
  <2>2. ASSUME NEW reason, End(call, reason)
        PROVE  LinkInv'
    BY <1>0, <2>1, <2>2, EndLinked
  <2>3. ASSUME verdict = "none",
               call' = [call EXCEPT !.at = "search", !.next = next, !.been = @ \cup {next}]
        PROVE  LinkInv'
    <3>1. /\ call'.at = "search" /\ call'.current = call.current /\ call'.next = next
          /\ call'.steps = call.steps /\ call'.forward = call.forward
          /\ call'.holder = call.holder
      BY <1>0, <2>3 DEF Calls
    <3>2. next \in Party
      BY <2>1, <2>3, ChosenTyped, VerdictNone
    <3>3. next = IF call.forward THEN To(call.current) ELSE From(call.current)
      BY <2>1, <3>2, ChosenLinked, TraceAssumption
    <3> QED
      BY <2>1, <3>1, <3>3 DEF LinkInv, HopsLinked, Linked, Spends, Gains, From, To
  <2> HIDE DEF next, verdict
  <2> QED
    BY <1>6, <2>2, <2>3 DEF Hop, next, verdict
<1>7. ASSUME NEW lost, NEW reason, End(Blinded(lost), reason), UNCHANGED history
      PROVE  LinkInv'
  BY <1>7, BlindedFields, EndLinked
<1>8. CASE SearchForward
  <2>1. call.at = "search" /\ call.forward /\ UNCHANGED history
    BY <1>8 DEF SearchForward
  <2>2. PICK S, lost : ForwardOver(S, lost)
    BY <1>8, ForwardOutcome
  <2>3. ASSUME NEW t \in SpendsIn(S, lost), NEW expected, SpentBy(t, lost, expected)
        PROVE  LinkInv'
    <3>1. t \in Digest /\ Spends(t, call.next)
      BY <2>2 DEF ForwardOver, SpendsIn, Fresh, After, Earliest, Later, Sent, Touching
    <3>2. Linked(call.current, t) /\ From(t) = call.next
      BY <2>1, <3>1 DEF Linked, LinkInv, Spends
    <3> QED
      BY <2>1, <2>3, <3>1, <3>2, GoesOnFields, GoesOnLinked
  <2> QED
    BY <1>7, <2>1, <2>2, <2>3 DEF ForwardOver
<1>9. CASE SearchBackward
  <2>1. call.at = "search" /\ ~call.forward /\ UNCHANGED history
    BY <1>9 DEF SearchBackward
  <2>2. PICK lost : BackwardOver(lost)
    BY <1>9, BackwardOutcome
  <2>3. ASSUME NEW t \in InflowsIn(lost), FundedBy(t, lost)
        PROVE  LinkInv'
    <3>1. t \in Digest /\ Gains(t, call.next)
      BY DEF InflowsIn, Fresh, Before, Latest, Earlier, Touching
    <3>2. Linked(call.current, t)
      BY <2>1, <3>1 DEF Linked, LinkInv
    <3> QED
      BY <2>1, <2>3, <3>1, <3>2, GoesOnFields, GoesOnLinked
  <2> QED
    BY <1>7, <2>1, <2>2, <2>3 DEF BackwardOver
<1>10. CASE SearchFails
  BY <1>0, <1>10, EndLinked DEF SearchFails
<1>11. CASE UNCHANGED traceVars
  BY <1>11 DEF traceVars, LinkInv, HopsLinked, Linked, Spends, Gains, From, To
<1> QED
  BY <1>1, <1>2, <1>3, <1>4, <1>5, <1>6, <1>8, <1>9, <1>10, <1>11 DEF TraceNext

\* For any history, labels and failures: what one hop brought an address, the next
\* takes from the same address, and backward what it took had come to it.
THEOREM TraceStaysLinked == TraceSpec => []HopsLinked
<1>1. TraceInit => Ordered
  BY DEF TraceInit, Quiet, Ordered, HopsOneWay, Fields
<1>2. TraceInit => LinkInv
  BY DEF TraceInit, Quiet, LinkInv, HopsLinked
<1>3. Ordered /\ TraceInv /\ LinkInv /\ [TraceNext]_traceVars
        => (Ordered /\ TraceInv /\ LinkInv)'
  BY StepOrdered, StepTyped, StepLinked
<1>4. LinkInv => HopsLinked
  BY DEF LinkInv
<1> QED
  BY InitTyped, <1>1, <1>2, <1>3, <1>4, PTL DEF TraceSpec

-----------------------------------------------------------------------------
(* What is said when a call ends. *)

Honest ==
  /\ call.at # "over" => call.reason = "none"
  /\ DeadEndIsRead
  /\ EndIsTrue

\* A call that goes on has said nothing yet.
LEMMA SilentHonest ==
  ASSUME Honest, call.at # "over", call'.at # "over", call'.reason = call.reason
  PROVE  Honest'
BY DEF Honest, DeadEndIsRead, EndIsTrue

\* A call that ends for a reason that claims nothing of the chain.
LEMMA EndHonest ==
  ASSUME NEW more \in Calls, NEW reason, reason \notin {"unspent", "unfunded", "dead end"},
         End(more, reason)
  PROVE  Honest'
<1>1. call'.at = "over" /\ call'.reason = reason
  BY DEF End, Calls
<1> QED
  BY <1>1 DEF Honest, DeadEndIsRead, EndIsTrue

LEMMA HopIsRead ==
  ASSUME Ordered, TraceInv, call.at = "hop"
  PROVE  call.current \in Visited
<1>1. call.steps \in Seq(Digest) /\ call.steps[Len(call.steps)] = call.current
  BY DEF Ordered
<1>2. Len(call.steps) = call.hop + 1 /\ call.hop \in 0..MaxHops - 1
  BY DEF TraceInv, Underway, Calls
<1>3. Len(call.steps) \in 1..Len(call.steps)
  BY <1>2, TraceAssumption
<1> QED
  BY <1>1, <1>3 DEF Visited, Range

\* A hop with nobody to follow: its transaction was read, and moved the coin to
\* nobody, or from nobody else.
LEMMA DeadEndHonest ==
  ASSUME Ordered, TraceInv, call.at = "hop", UNCHANGED history,
         Chosen(call.current) = Nobody, End(call, "dead end")
  PROVE  Honest'
<1>1. /\ call.current \in Digest /\ history \in Histories
      /\ call.holder \in Party \cup {Nobody}
  BY DEF TraceInv, Calls
<1>2. /\ call'.at = "over" /\ call'.reason = "dead end" /\ call'.current = call.current
      /\ call'.steps = call.steps /\ call'.forward = call.forward
      /\ call'.holder = call.holder /\ call'.row = call.row
  BY DEF TraceInv, End, Calls
<1>3. call.current \in Visited
  BY HopIsRead
<1>4. /\ From(call.current) \in Party /\ To(call.current) \in Party
      /\ Sender(call.current) \in Party
  BY <1>1, HistoryTyped
<1>5. Actor \in Party
  BY <1>1, <1>4 DEF Actor
<1>6. ASSUME call.row # "partial", call.forward, NEW p \in Party
      PROVE  ~Gains(call.current, p)
  <2>1. Recipient(call.current) = Nobody
    BY <1>6 DEF Chosen
  <2> QED
    BY <1>4, <1>5, <2>1, TraceAssumption DEF Recipient, Gains
<1>7. ASSUME call.row # "partial", ~call.forward, NEW p \in Party \ {call.holder}
      PROVE  ~Spends(call.current, p)
  <2>1. Payer(call.current) = Nobody
    BY <1>7 DEF Chosen
  <2>2. \/ history[call.current].deed = "idle"
        \/ From(call.current) = call.holder
    BY <1>4, <2>1, TraceAssumption DEF Payer
  <2> QED
    BY <1>7, <2>2 DEF Spends
<1>8. DeadEndIsRead'
  BY <1>2, <1>3, <1>6, <1>7 DEF DeadEndIsRead, Visited, Gains, Spends, From, To
<1> QED
  BY <1>2, <1>8 DEF Honest, EndIsTrue

\* Where the pages reached the end and no row was lost, a spend that was not found
\* is not there.  An address that signed anything is no object, so everything
\* that leaves it is among what it signed.
LEMMA AllSpendsSeen ==
  ASSUME TraceInv, call.at = "search",
         NEW S, S = Later \/ (S = Sent /\ Sent # {}), Exhausted(S, Earliest(S)),
         SpendsIn(S, {}) = {},
         NEW t \in Digest \ Visited, t > call.current
  PROVE  ~Spends(t, call.next)
<1> SUFFICES ASSUME Spends(t, call.next)
             PROVE  FALSE
  OBVIOUS
<1>1. /\ history \in Histories /\ call.current \in Digest /\ From(t) = call.next
  BY DEF TraceInv, Calls, Spends
<1>2. Cp(t) >= Cp(call.current) /\ Cp(t) \in Nat /\ Cp(call.current) \in Nat
  <2>1. call.current \in 1..Length /\ t \in call.current..Length
    BY <1>1, TraceAssumption DEF Digest
  <2> QED
    BY <1>1, <2>1, TraceAssumption DEF Cp
<1>3. t \in S
  <2>1. CASE S = Later
    BY <1>1, <1>2, <2>1 DEF Later, Touching
  <2>2. CASE S = Sent /\ Sent # {}
    <3>1. PICK u \in Digest : Sender(u) = call.next
      BY <2>2 DEF Sent
    <3>2. ~({From(u), To(u)} \subseteq Objects)
      BY <1>1, TraceAssumption DEF Digest, From, To
    <3>3. call.next \notin Objects
      BY <3>1, <3>2 DEF Sender
    <3> QED
      BY <1>1, <1>2, <2>2, <3>3 DEF Sent, Sender
  <2> QED
    BY <2>1, <2>2
<1>4. t \in Fresh(After(Earliest(S)))
  BY <1>3 DEF Exhausted, After, Fresh
<1> QED
  BY <1>4 DEF SpendsIn

LEMMA AllInflowsSeen ==
  ASSUME TraceInv, call.at = "search", Exhausted(Earlier, Latest(Earlier)),
         InflowsIn({}) = {},
         NEW t \in Digest \ Visited, t < call.current
  PROVE  ~Gains(t, call.next)
<1> SUFFICES ASSUME Gains(t, call.next)
             PROVE  FALSE
  OBVIOUS
<1>1. history \in Histories /\ call.current \in Digest /\ To(t) = call.next
  BY DEF TraceInv, Calls, Gains
<1>2. Cp(t) <= Cp(call.current)
  <2>1. t \in 1..Length /\ call.current \in t..Length
    BY <1>1, TraceAssumption DEF Digest
  <2> QED
    BY <1>1, <2>1, TraceAssumption DEF Cp
<1>3. t \in Earlier
  BY <1>1, <1>2 DEF Earlier, Touching
<1>4. t \in Fresh(Before(Latest(Earlier)))
  BY <1>3 DEF Exhausted, Before, Fresh
<1> QED
  BY <1>4 DEF InflowsIn

LEMMA StepHonest ==
  ASSUME Ordered, TraceInv, Honest, [TraceNext]_traceVars
  PROVE  Honest'
<1>0. call \in Calls
  BY DEF TraceInv
<1>1. ASSUME NEW t \in Digest, OtherRead(t)
      PROVE  Honest'
  BY <1>1 DEF OtherRead, Honest, DeadEndIsRead, EndIsTrue, Visited, Spends, Gains, From, To
<1>2. ASSUME NEW t \in Digest, NEW forward \in BOOLEAN, Begin(t, forward)
      PROVE  Honest'
  <2>1. call'.at = "fetch" /\ call'.reason = "none"
    BY <1>2, QuietTyped DEF Begin, Quiet, Calls
  <2> QED
    BY <2>1 DEF Honest, DeadEndIsRead, EndIsTrue
<1>3. ASSUME NEW row, Arrives(row), call.at = "fetch"
      PROVE  Honest'
  <2>1. call'.at = "hop" /\ call'.reason = call.reason
    BY <1>0, <1>3 DEF Arrives, Calls
  <2> QED
    BY <1>3, <2>1, SilentHonest
<1>4. CASE FetchStored \/ FetchRow
  BY <1>3, <1>4 DEF FetchStored, FetchRow
<1>5. CASE FetchFails \/ SearchFails
  BY <1>0, <1>5, EndHonest DEF FetchFails, SearchFails
<1>6. CASE Hop
  <2> DEFINE next == Chosen(call.current)
             verdict == Verdict(call.current, next)
  <2>1. call.at = "hop" /\ UNCHANGED history
    BY <1>6 DEF Hop
  <2>2. ASSUME NEW reason, End(call, reason),
               reason \notin {"unspent", "unfunded", "dead end"}
        PROVE  Honest'
    BY <1>0, <2>2, EndHonest
  <2>3. ASSUME verdict = "dead end", End(call, verdict)
        PROVE  Honest'
    <3>1. next = Nobody
      BY <2>3 DEF Verdict
    <3> QED
      BY <2>1, <2>3, <3>1, DeadEndHonest
  <2>4. ASSUME call' = [call EXCEPT !.at = "search", !.next = next, !.been = @ \cup {next}]
        PROVE  Honest'
    <3>1. call'.at = "search" /\ call'.reason = call.reason
      BY <1>0, <2>4 DEF Calls
    <3> QED
      BY <2>1, <3>1, SilentHonest
  <2>5. verdict \notin {"unspent", "unfunded"}
    BY VerdictTyped
  <2> HIDE DEF next, verdict
  <2> QED
    BY <1>6, <2>2, <2>3, <2>4, <2>5 DEF Hop, next, verdict
<1>7. ASSUME call.at = "search", NEW t, NEW lost,
             FundedBy(t, lost) \/ \E expected : SpentBy(t, lost, expected)
      PROVE  Honest'
  BY <1>7, GoesOnFields, SilentHonest
<1>8. ASSUME call.at = "search", NEW lost, End(Blinded(lost), "cut")
      PROVE  Honest'
  BY <1>8, BlindedFields, EndHonest
<1>9. ASSUME call.at = "search", UNCHANGED history, NEW lost,
             NEW reason \in {"unspent", "unfunded"}, End(Blinded(lost), reason),
             lost = {} => IF reason = "unspent"
                          THEN \A t \in Digest \ Visited :
                                 t > call.current => ~Spends(t, call.next)
                          ELSE \A t \in Digest \ Visited :
                                 t < call.current => ~Gains(t, call.next)
      PROVE  Honest'
  <2>1. /\ call'.at = "over" /\ call'.reason = reason
        /\ call'.blind = (call.blind \/ lost # {}) /\ call'.current = call.current
        /\ call'.next = call.next /\ call'.steps = call.steps
    BY <1>9, BlindedFields DEF End, Calls
  <2>2. EndIsTrue'
    BY <1>9, <2>1 DEF EndIsTrue, Visited, Spends, Gains, From, To
  <2> QED
    BY <2>1, <2>2 DEF Honest, DeadEndIsRead
<1>10. CASE SearchForward
  <2>1. call.at = "search" /\ UNCHANGED history
    BY <1>10 DEF SearchForward
  <2>2. PICK S, lost : ForwardOver(S, lost)
    BY <1>10, ForwardOutcome
  <2>3. CASE SpendsIn(S, lost) = {} /\ Exhausted(S, Earliest(S)) /\ End(Blinded(lost), "unspent")
    <3>1. lost = {} => \A t \in Digest \ Visited :
                         t > call.current => ~Spends(t, call.next)
      BY <2>1, <2>2, <2>3, AllSpendsSeen DEF ForwardOver
    <3> QED
      BY <1>9, <2>1, <2>3, <3>1
  <2> QED
    BY <1>7, <1>8, <2>1, <2>2, <2>3 DEF ForwardOver
<1>11. CASE SearchBackward
  <2>1. call.at = "search" /\ UNCHANGED history
    BY <1>11 DEF SearchBackward
  <2>2. PICK lost : BackwardOver(lost)
    BY <1>11, BackwardOutcome
  <2>3. CASE /\ InflowsIn(lost) = {} /\ Exhausted(Earlier, Latest(Earlier))
             /\ End(Blinded(lost), "unfunded")
    <3>1. lost = {} => \A t \in Digest \ Visited :
                         t < call.current => ~Gains(t, call.next)
      BY <2>1, <2>3, AllInflowsSeen
    <3> QED
      BY <1>9, <2>1, <2>3, <3>1
  <2> QED
    BY <1>7, <1>8, <2>1, <2>2, <2>3 DEF BackwardOver
<1>12. CASE UNCHANGED traceVars
  BY <1>12 DEF traceVars, Honest, DeadEndIsRead, EndIsTrue, Visited, Spends, Gains, From, To
<1> QED
  BY <1>1, <1>2, <1>4, <1>5, <1>6, <1>10, <1>11, <1>12 DEF TraceNext

LEMMA InitHonest ==
  ASSUME TraceInit
  PROVE  Honest
BY DEF TraceInit, Quiet, Honest, DeadEndIsRead, EndIsTrue

\* For any history and failures: a trace that says there is nobody to follow says it
\* of a transaction it has read, and which passed the coin to nobody (backward: had
\* it from nobody else), unless its row was cut.
THEOREM TraceDeadEndIsRead == TraceSpec => []DeadEndIsRead
<1>1. TraceInit => Ordered
  BY DEF TraceInit, Quiet, Ordered, HopsOneWay, Fields
<1>2. Ordered /\ TraceInv /\ Honest /\ [TraceNext]_traceVars
        => (Ordered /\ TraceInv /\ Honest)'
  BY StepOrdered, StepTyped, StepHonest
<1>3. Honest => DeadEndIsRead
  BY DEF Honest
<1> QED
  BY InitTyped, InitHonest, <1>1, <1>2, <1>3, PTL DEF TraceSpec

\* For any history and page size: a trace that ends because the money is unspent, or
\* was never received, is right about it unless a row of a page was lost.
THEOREM TraceEndIsTrue == TraceSpec => []EndIsTrue
<1>1. TraceInit => Ordered
  BY DEF TraceInit, Quiet, Ordered, HopsOneWay, Fields
<1>2. Ordered /\ TraceInv /\ Honest /\ [TraceNext]_traceVars
        => (Ordered /\ TraceInv /\ Honest)'
  BY StepOrdered, StepTyped, StepHonest
<1>3. Honest => EndIsTrue
  BY DEF Honest
<1> QED
  BY InitTyped, InitHonest, <1>1, <1>2, <1>3, PTL DEF TraceSpec
=============================================================================
