-------------------------- MODULE WatchGapProofs ---------------------------
(***************************************************************************)
(* No cursor passes a transaction no poll has answered for: NoGap, for any *)
(* number of addresses, rows, calls and page sizes, with failing reads and *)
(* writes and a process that may die.  Two things are assumed that Watch   *)
(* leaves open: rows are keyed by the canonical spelling (OneSpelling), and *)
(* no watch is removed while an add is in flight (~Overlap).               *)
(***************************************************************************)
EXTENDS WatchProofs

Row(k) == k \in Key /\ Norm[k] # Malformed

LEMMA RowAddress == \A k : Row(k) => Norm[k] \in Address
BY WatchAssumption DEF Row

LEMMA PollRows ==
  ASSUME TypeInv, NEW c \in InFlight("poll"), NEW k \in call[c].rows
  PROVE  Row(k) /\ call[c].cursor[k] \in Nat /\ call[c].cursor[k] <= head
<1>1. call[c] \in PollType
  BY PollsTyped DEF TypeInv, InFlight
<1> QED
  BY <1>1 DEF Row, TypeInv, Bounded, PagesVisible, PollType

(***************************************************************************)
(* What has been answered only grows.                                      *)
(***************************************************************************)
LEMMA OutboxGrows ==
  ASSUME TypeOK, NEW c \in Call, call[c].op # "reply", NEW q, call' = [call EXCEPT ![c] = q]
  PROVE  /\ \A a : Outbox(a) \subseteq Outbox(a)'
         /\ q.op = "reply" => \A a : q.hits[a] \subseteq Outbox(a)'
<1>1. call'[c] = q /\ \A d \in Call : d # c => call'[d] = call[d]
  BY DEF TypeOK
<1> QED
  BY <1>1 DEF Outbox, InFlight

\* A step that touches neither replies nor what was told, muted or lost.
LEMMA AnsweredKept ==
  ASSUME TypeOK, NEW c \in Call, call[c].op # "reply", NEW q, call' = [call EXCEPT ![c] = q],
         UNCHANGED history
  PROVE  \A a \in Address : Answered(a) \subseteq Answered(a)'
BY OutboxGrows DEF Answered, Accounted, history

LEMMA DeliverAnswered ==
  ASSUME TypeOK, NEW c \in Call, Deliver(c)
  PROVE  \A a \in Address : Answered(a) \subseteq Answered(a)'
<1>1. call'[c] = Idle /\ \A d \in Call : d # c => call'[d] = call[d]
  BY DEF TypeOK, Deliver
<1>2. \A a \in Address : Outbox(a) \subseteq Outbox(a)' \cup call[c].hits[a]
  BY <1>1 DEF Outbox, InFlight
<1>3. \A a \in Address : told'[a] = told[a] \cup call[c].hits[a]
  BY DEF Deliver
<1> QED
  BY <1>2, <1>3 DEF Deliver, Answered, Accounted

LEMMA FinishPollAnswered ==
  ASSUME TypeInv, NEW c \in Call, FinishPoll(c)
  PROVE  \A a \in Address : Answered(a) \cup call[c].page[a] \subseteq Answered(a)'
<1> DEFINE p == call[c]
<1>1. PICK written \in SUBSET Movers(p) :
        LET moved == { k \in written : Advances(p, k) }
        IN /\ muted' = [a \in Address |-> muted[a] \cup Suppressed(p, a)]
           /\ call' = [call EXCEPT ![c] = Reply(p, Movers(p) \ moved)]
  BY DEF FinishPoll
<1> DEFINE r == Reply(p, Movers(p) \ { k \in written : Advances(p, k) })
<1>2. p.op # "reply" /\ call' = [call EXCEPT ![c] = r]
  BY <1>1 DEF FinishPoll
<1>3. r.op = "reply" /\ \A a \in Address : r.hits[a] = p.page[a] \ Suppressed(p, a)
  BY DEF Reply
<1>4. \A a \in Address : Outbox(a) \cup (p.page[a] \ Suppressed(p, a)) \subseteq Outbox(a)'
  BY <1>2, <1>3, OutboxGrows DEF TypeInv
<1>5. \A a \in Address : muted'[a] = muted[a] \cup Suppressed(p, a)
  BY <1>1
<1>6. told' = told /\ lost' = lost
  BY DEF FinishPoll
<1> QED
  BY <1>4, <1>5, <1>6 DEF Answered, Accounted

(***************************************************************************)
(* Frames: steps that leave the chain alone.                               *)
(***************************************************************************)
LEMMA GapFrame ==
  ASSUME TypeInv, NoGap, chain' = chain, watched' \subseteq Key,
         \A a \in Address : Answered(a) \subseteq Answered(a)',
         \A k \in watched' :
           \/ k \in watched /\ start'[k] = start[k] /\ cursor'[k] = cursor[k]
           \/ start'[k] = cursor'[k] /\ cursor'[k] \in Nat
           \/ /\ start'[k] = start[k]
              /\ Row(k) =>
                   \A i \in DOMAIN chain[Norm[k]] :
                     start[k] < chain[Norm[k]][i].cp /\ chain[Norm[k]][i].cp <= cursor'[k]
                     => i \in Answered(Norm[k])'
  PROVE  NoGap'
<1> SUFFICES ASSUME NEW k \in watched', Row(k), NEW i \in DOMAIN chain[Norm[k]],
                    start'[k] < chain[Norm[k]][i].cp, chain[Norm[k]][i].cp <= cursor'[k]
             PROVE  i \in Answered(Norm[k])'
  BY DEF NoGap, Span, Row, Answered
<1>1. Norm[k] \in Address
  BY RowAddress
<1>2. CASE k \in watched /\ start'[k] = start[k] /\ cursor'[k] = cursor[k]
  <2>1. i \in Span(k, cursor[k])
    BY <1>2 DEF Span
  <2>2. i \in Answered(Norm[k])
    BY <1>2, <2>1 DEF NoGap, Answered, Row
  <2> QED
    BY <1>1, <2>2
<1>3. CASE start'[k] = cursor'[k] /\ cursor'[k] \in Nat
  <2>1. chain[Norm[k]][i].cp \in Nat
    BY <1>1, TxTyped DEF TypeInv
  <2> QED
    BY <1>3, <2>1
<1> QED
  BY <1>2, <1>3

LEMMA SnapshotFrame ==
  ASSUME TypeInv, NoGap, SnapshotsSound, chain' = chain, watched' \subseteq Key,
         \A a \in Address : Answered(a) \subseteq Answered(a)',
         \A c \in InFlight("poll")' :
           \/ /\ c \in InFlight("poll")
              /\ call'[c].rows = call[c].rows /\ call'[c].cursor = call[c].cursor
           \/ /\ UNCHANGED <<watched, start>>
              /\ call'[c].rows \subseteq { k \in watched : Row(k) } /\ call'[c].cursor = cursor,
         \A k \in watched \cap watched' : start'[k] = start[k],
         \A k \in watched' \ watched : \E d \in InFlight("add") : start'[k] = call[d].from,
         watched \subseteq watched' \/ InFlight("add")' = {},
         \A d \in InFlight("add")' :
           \/ d \in InFlight("add") /\ call'[d].from = call[d].from
           \/ call'[d].from = head
  PROVE  SnapshotsSound'
<1> SUFFICES ASSUME NEW c \in InFlight("poll")', NEW k \in call'[c].rows
             PROVE  IF k \in watched'
                    THEN \A i \in DOMAIN chain[Norm[k]] :
                           start'[k] < chain[Norm[k]][i].cp
                           /\ chain[Norm[k]][i].cp <= call'[c].cursor[k]
                           => i \in Answered(Norm[k])'
                    ELSE \A d \in InFlight("add")' : call'[c].cursor[k] <= call'[d].from
  BY DEF SnapshotsSound, Span
<1>1. CASE c \in InFlight("poll") /\ call'[c].rows = call[c].rows /\ call'[c].cursor = call[c].cursor
  <2> DEFINE n == call[c].cursor[k]
  <2>1. k \in call[c].rows /\ Row(k) /\ Norm[k] \in Address /\ n \in Nat /\ n <= head
    BY <1>1, PollRows, RowAddress
  <2>2. CASE k \in watched /\ k \in watched'
    <3>1. \A i \in DOMAIN chain[Norm[k]] :
            start[k] < chain[Norm[k]][i].cp /\ chain[Norm[k]][i].cp <= n => i \in Answered(Norm[k])
      BY <1>1, <2>1, <2>2 DEF SnapshotsSound, Span
    <3> QED
      BY <1>1, <2>1, <2>2, <3>1
  <2>3. CASE k \notin watched /\ k \in watched'
    <3>1. PICK d \in InFlight("add") : start'[k] = call[d].from
      BY <2>3
    <3>2. n <= call[d].from
      BY <1>1, <2>1, <2>3 DEF SnapshotsSound
    <3>3. call[d].from \in Nat
      BY AddsTyped DEF TypeInv, InFlight, AddType
    <3>4. \A i \in DOMAIN chain[Norm[k]] : chain[Norm[k]][i].cp \in Nat
      BY <2>1, TxTyped DEF TypeInv
    <3> QED
      BY <1>1, <2>1, <2>3, <3>1, <3>2, <3>3, <3>4
  <2>4. CASE k \notin watched'
    <3> SUFFICES ASSUME NEW d \in InFlight("add")' PROVE call'[c].cursor[k] <= call'[d].from
      BY <2>4
    <3>1. k \notin watched
      BY <2>4
    <3>2. CASE d \in InFlight("add") /\ call'[d].from = call[d].from
      BY <1>1, <2>1, <3>1, <3>2 DEF SnapshotsSound
    <3>3. CASE call'[d].from = head
      BY <1>1, <2>1, <3>3
    <3> QED
      BY <3>2, <3>3
  <2> QED
    BY <2>2, <2>3, <2>4
<1>2. CASE /\ UNCHANGED <<watched, start>>
           /\ call'[c].rows \subseteq { r \in watched : Row(r) } /\ call'[c].cursor = cursor
  <2>1. k \in watched /\ k \in watched' /\ Row(k) /\ Norm[k] \in Address
    BY <1>2, RowAddress
  <2>2. \A i \in DOMAIN chain[Norm[k]] :
          start[k] < chain[Norm[k]][i].cp /\ chain[Norm[k]][i].cp <= cursor[k] => i \in Answered(Norm[k])
    BY <2>1 DEF NoGap, Span, Answered, Row
  <2> QED
    BY <1>2, <2>1, <2>2
<1> QED
  BY <1>1, <1>2

LEMMA PagesFrame ==
  ASSUME PagesComplete, chain' = chain,
         \A c \in InFlight("poll")' : c \in InFlight("poll") /\ call'[c] = call[c]
  PROVE  PagesComplete'
BY DEF PagesComplete, PageComplete

LEMMA SortedFrame ==
  ASSUME Sorted, UNCHANGED <<chain, head>>
  PROVE  Sorted'
BY DEF Sorted

(***************************************************************************)
(* A page is closed below: it holds whatever is pending and comes before   *)
(* one of its members.                                                     *)
(***************************************************************************)
LEMMA PageClosed ==
  ASSUME TypeOK, NEW a \in Address, NEW n \in Nat, NEW m \in Nat,
         NEW i \in Page(a, n, m), NEW j \in Pending(a, n), j < i
  PROVE  j \in Page(a, n, m)
<1> DEFINE Before(x) == { y \in Pending(a, n) : y < x }
<1>1. i \in Pending(a, n) /\ Cardinality(Before(i)) < m
  BY DEF Page
<1>2. chain[a] \in Seq(Tx) /\ Len(chain[a]) \in Nat /\ DOMAIN chain[a] = 1..Len(chain[a])
  BY DEF TypeOK
<1>3. IsFiniteSet(1..Len(chain[a]))
  BY <1>2, FS_Interval
<1>4. Pending(a, n) \subseteq 1..Len(chain[a])
  BY <1>2 DEF Pending
<1>5. Before(i) \subseteq 1..Len(chain[a])
  BY <1>4
<1>6. IsFiniteSet(Before(i))
  BY <1>3, <1>5, FS_Subset
<1>7. i \in Nat /\ j \in Nat
  BY <1>1, <1>2, <1>4
<1>8. Before(j) \subseteq Before(i)
  <2> SUFFICES ASSUME NEW y \in Pending(a, n), y < j PROVE y < i
    OBVIOUS
  <2>1. y \in Nat
    BY <1>2, <1>4
  <2> QED
    BY <2>1, <1>7
<1>9. IsFiniteSet(Before(j)) /\ Cardinality(Before(j)) <= Cardinality(Before(i))
  BY <1>6, <1>8, FS_Subset
<1>10. Cardinality(Before(i)) \in Nat /\ Cardinality(Before(j)) \in Nat
  BY <1>6, <1>9, FS_CardinalityType
<1>11. Cardinality(Before(j)) < m
  BY <1>1, <1>9, <1>10
<1> QED
  BY <1>11 DEF Page

LEMMA PageIsComplete ==
  ASSUME TypeOK, Sorted, NEW a \in Address, NEW n \in Nat, NEW m \in Nat,
         NEW i \in Page(a, n, m), NEW j \in DOMAIN chain[a], n < chain[a][j].cp,
         \/ chain[a][j].cp < chain[a][i].cp
         \/ ~IsFull(a, n, m) /\ chain[a][j].cp = chain[a][i].cp
  PROVE  j \in Page(a, n, m)
<1>1. i \in DOMAIN chain[a] /\ chain[a][i].cp <= head
  BY PageServed
<1>2. i \in Nat /\ j \in Nat /\ chain[a][i].cp \in Nat /\ chain[a][j].cp \in Nat /\ head \in Nat
  BY <1>1, TxTyped DEF TypeOK
<1>3. j \in Pending(a, n)
  BY <1>1, <1>2 DEF Pending
<1>4. CASE ~IsFull(a, n, m)
  BY <1>3, <1>4 DEF IsFull
<1>5. CASE chain[a][j].cp < chain[a][i].cp
  <2>1. ~(i <= j)
    BY <1>1, <1>2, <1>5 DEF Sorted
  <2>2. j < i
    BY <1>2, <2>1
  <2> QED
    BY <1>3, <2>2, PageClosed
<1> QED
  BY <1>4, <1>5

LEMMA RowOfAddress ==
  ASSUME OneSpelling
  PROVE  \A k, r : Row(k) /\ Row(r) /\ Norm[k] = Norm[r] => k = r
BY DEF OneSpelling, Row

LEMMA FetchedComplete ==
  ASSUME OneSpelling, TypeInv, Sorted, PagesComplete, NEW c \in InFlight("poll"),
         NEW B \in SUBSET call[c].todo, NEW k \in call[c].rows
  PROVE  LET q == Fetched(call[c], B) IN
         IF k \in q.todo THEN q.page[Norm[k]] = {} ELSE PageComplete(q, k)
<1> DEFINE p == call[c]
           q == Fetched(p, B)
           a == Norm[k]
<1>1. p \in PollType /\ c \in Call
  BY PollsTyped DEF TypeInv, InFlight
<1>2. Row(k) /\ a \in Address /\ p.cursor[k] \in Nat /\ p.cap \in Nat
  BY <1>1, PollRows, RowAddress, WatchAssumption DEF PollType
<1>3. \A r \in B : Row(r) /\ r \in p.todo
  BY PollRows DEF TypeInv, PagesVisible
<1>4. \A r \in B : Norm[r] = a => r = k
  BY <1>2, <1>3, RowOfAddress
<1>5. /\ q.todo = p.todo \ B /\ q.cursor = p.cursor
      /\ q.page[a] = IF \E r \in B : Norm[r] = a THEN Page(a, p.cursor[Winner(B, a)], p.cap)
                     ELSE p.page[a]
      /\ q.full = p.full \cup { Norm[r] : r \in { x \in B : IsFull(Norm[x], p.cursor[x], p.cap) } }
  BY <1>1, <1>2 DEF Fetched, PollType
<1>6. CASE k \in B
  <2>1. k = Canon[a]
    BY <1>2 DEF OneSpelling, Row
  <2>2. q.page[a] = Page(a, p.cursor[k], p.cap)
    BY <1>5, <1>6, <2>1 DEF Winner
  <2>3. IsFull(a, p.cursor[k], p.cap) => a \in q.full
    BY <1>5, <1>6
  <2>4. PageComplete(q, k)
    BY <1>2, <1>5, <2>2, <2>3, PageIsComplete DEF PageComplete, TypeInv
  <2> QED
    BY <1>5, <1>6, <2>4
<1>7. CASE k \notin B
  <2>1. q.page[a] = p.page[a] /\ (a \in q.full <=> a \in p.full)
    BY <1>4, <1>5, <1>7
  <2>2. IF k \in p.todo THEN p.page[a] = {} ELSE PageComplete(p, k)
    BY DEF PagesComplete
  <2> QED
    BY <1>5, <1>7, <2>1, <2>2 DEF PageComplete
<1> QED
  BY <1>6, <1>7

(***************************************************************************)
(* The cursor a poll means to write passes nothing outside its page.       *)
(***************************************************************************)
LEMMA TargetComplete ==
  ASSUME TypeInv, PagesComplete, NEW c \in InFlight("poll"), NEW k \in Movers(call[c]),
         k \notin call[c].todo,
         NEW j \in DOMAIN chain[Norm[k]],
         call[c].cursor[k] < chain[Norm[k]][j].cp,
         chain[Norm[k]][j].cp <= Target(call[c], k)
  PROVE  j \in call[c].page[Norm[k]]
<1> DEFINE p == call[c]
           a == Norm[k]
           cps == Checkpoints(a, p.page[a])
           t == Target(p, k)
           n == p.cursor[k]
           cp(i) == chain[a][i].cp
<1>1. k \in p.rows /\ p.page[a] # {} /\ t > n
  BY DEF Movers
<1>2. Row(k) /\ a \in Address /\ n \in Nat
  BY <1>1, PollRows, RowAddress
<1>3. head \in Nat /\ cp(j) \in Nat
  BY <1>2, TxTyped DEF TypeInv, TypeOK
<1>4. \A i \in p.page[a] : i \in DOMAIN chain[a] /\ cp(i) \in Nat /\ cp(i) <= head
  BY <1>2, TxTyped DEF TypeInv, PagesVisible
<1>5. cps # {} /\ cps \in SUBSET Nat /\ \A x \in cps : x <= head
  BY <1>1, <1>4 DEF Checkpoints
<1>6. Max(cps) \in cps
  BY <1>3, <1>5, MaxIsUpperBound
<1>7. PICK i \in p.page[a] : cp(i) = Max(cps)
  BY <1>6 DEF Checkpoints
<1>8. PageComplete(p, k)
  BY <1>1 DEF PagesComplete
<1>9. CASE a \notin p.full
  <2>1. t = Max(cps)
    BY <1>5, <1>9 DEF Target, SafeAdvance, Stalled
  <2>2. cp(j) < cp(i) \/ cp(j) = cp(i)
    BY <1>3, <1>4, <1>7, <2>1
  <2> QED
    BY <1>7, <1>8, <1>9, <2>2 DEF PageComplete
<1>10. CASE a \in p.full
  <2>1. t = n \/ t = Max({Max(cps) - 1, n})
    BY <1>5, <1>10 DEF Target, SafeAdvance
  <2>2. Max(cps) \in Nat
    BY <1>5, <1>6
  <2>3. Max(cps) - 1 \in Int
    BY <2>2
  <2>4. Max({Max(cps) - 1, n}) \in {Max(cps) - 1, n}
    BY ONLY <2>3, <1>2, MaxOfTwo, Zenon
  <2>5. t = Max(cps) - 1
    BY <1>1, <1>2, <2>1, <2>4
  <2>6. cp(j) < cp(i)
    BY <1>3, <1>7, <2>2, <2>5
  <2> QED
    BY <1>7, <1>8, <2>6 DEF PageComplete
<1> QED
  BY <1>9, <1>10

\* What a poll answers covers the rows it moves.
LEMMA MovedCovered ==
  ASSUME TypeInv, PagesComplete, SnapshotsSound,
         NEW c \in InFlight("poll"), call[c].todo = {},
         NEW k \in Movers(call[c]), Advances(call[c], k)
  PROVE  /\ Row(k)
         /\ \A i \in DOMAIN chain[Norm[k]] :
              start[k] < chain[Norm[k]][i].cp /\ chain[Norm[k]][i].cp <= Target(call[c], k)
              => i \in Answered(Norm[k]) \cup call[c].page[Norm[k]]
<1> DEFINE p == call[c]
<1>1. k \in p.rows /\ k \in watched
  BY DEF Movers, Advances
<1>2. Row(k) /\ Norm[k] \in Address /\ p.cursor[k] \in Nat
  BY <1>1, PollRows, RowAddress
<1> SUFFICES ASSUME NEW i \in DOMAIN chain[Norm[k]],
                    start[k] < chain[Norm[k]][i].cp, chain[Norm[k]][i].cp <= Target(p, k)
             PROVE  i \in Answered(Norm[k]) \cup p.page[Norm[k]]
  BY <1>2
<1>3. chain[Norm[k]][i].cp \in Nat
  BY <1>2, TxTyped DEF TypeInv
<1>4. CASE chain[Norm[k]][i].cp <= p.cursor[k]
  <2>1. Span(k, p.cursor[k]) \subseteq Answered(Norm[k])
    BY <1>1 DEF SnapshotsSound
  <2> QED
    BY <1>4, <2>1 DEF Span
<1>5. CASE p.cursor[k] < chain[Norm[k]][i].cp
  BY <1>5, TargetComplete
<1> QED
  BY <1>2, <1>3, <1>4, <1>5

(***************************************************************************)
(* The inductive invariant.                                                *)
(***************************************************************************)
LEMMA InitIndInv == Init => IndInv
<1> SUFFICES ASSUME Init PROVE IndInv
  OBVIOUS
<1>1. \A c \in Call : call[c].op = "idle"
  BY DEF Init, Idle
<1>2. InFlight("poll") = {}
  BY <1>1 DEF InFlight
<1>3. NoGap
  <2>1. \A a \in Address : DOMAIN chain[a] = {}
    BY DEF Init
  <2> QED
    BY <2>1, RowAddress DEF NoGap, Span, Row, Init
<1>4. Sorted
  BY DEF Init, Sorted
<1> QED
  BY <1>2, <1>3, <1>4, InitTypeInv DEF IndInv, PagesComplete, SnapshotsSound

LEMMA ExecuteIndInv ==
  ASSUME IndInv, NEW a \in Address, NEW s \in Sizes, Execute(a, s)
  PROVE  IndInv'
<1> DEFINE tx == [cp |-> head + 1, small |-> s]
<1>1. TypeInv'
  BY ExecuteTypeInv DEF IndInv
<1>2. tx \in Tx /\ chain \in [Address -> Seq(Tx)] /\ head \in Nat
  BY WatchAssumption DEF IndInv, TypeInv, TypeOK, Tx
<1>3. chain' = [chain EXCEPT ![a] = Append(chain[a], tx)]
  BY DEF Execute
<1>4. \A b \in Address : \A i \in DOMAIN chain'[b] :
        \/ i \in DOMAIN chain[b] /\ chain'[b][i] = chain[b][i]
        \/ b = a /\ i = Len(chain[a]) + 1 /\ chain'[b][i].cp = head + 1
  BY <1>2, <1>3
<1>5. \A b \in Address : \A i \in DOMAIN chain[b] :
        i \in DOMAIN chain'[b] /\ chain'[b][i] = chain[b][i]
  BY <1>2, <1>3
<1>13. \A b \in Address : \A i \in DOMAIN chain'[b] : chain'[b][i].cp \in Nat
  <2>1. \A b \in Address : \A i \in DOMAIN chain[b] : chain[b][i].cp \in Nat
    BY TxTyped DEF IndInv, TypeInv
  <2>2. head + 1 \in Nat
    BY <1>2
  <2> QED
    BY <1>4, <2>1, <2>2
<1>6. UNCHANGED <<head, watched, cursor, start, call, told, muted, lost>>
  BY DEF Execute, store, history
<1>7. \A b : Answered(b)' = Answered(b)
  BY <1>6 DEF Answered, Accounted, Outbox, InFlight
<1>8. Sorted'
  <2> SUFFICES ASSUME NEW b \in Address, NEW i \in DOMAIN chain'[b], NEW j \in DOMAIN chain'[b]
               PROVE  /\ chain'[b][i].cp <= head + 1
                      /\ i <= j => chain'[b][i].cp <= chain'[b][j].cp
    BY <1>6 DEF Sorted
  <2>1. \A x \in DOMAIN chain[b] :
          x \in 1..Len(chain[b]) /\ chain[b][x].cp \in Nat /\ chain[b][x].cp <= head + 1
    BY <1>2, TxTyped DEF IndInv, Sorted, TypeInv
  <2>2. \A x, y \in DOMAIN chain[b] : x <= y => chain[b][x].cp <= chain[b][y].cp
    BY DEF IndInv, Sorted
  <2>3. CASE i \in DOMAIN chain[b] /\ chain'[b][i] = chain[b][i]
    <3>1. CASE j \in DOMAIN chain[b] /\ chain'[b][j] = chain[b][j]
      BY <2>1, <2>2, <2>3, <3>1
    <3>2. CASE chain'[b][j].cp = head + 1
      BY <2>1, <2>3, <3>2
    <3> QED
      BY <1>4, <3>1, <3>2
  <2>4. CASE b = a /\ i = Len(chain[a]) + 1 /\ chain'[b][i].cp = head + 1
    <3>1. j \in DOMAIN chain[b] => ~(i <= j)
      BY <1>2, <2>1, <2>4
    <3> QED
      BY <1>2, <1>4, <2>4, <3>1
  <2> QED
    BY <1>4, <2>3, <2>4
<1>9. \A b \in Address : \A i \in DOMAIN chain'[b] :
        chain'[b][i].cp <= head => i \in DOMAIN chain[b] /\ chain'[b][i] = chain[b][i]
  BY <1>2, <1>4
<1>10. NoGap'
  <2> SUFFICES ASSUME NEW k \in watched, Row(k), NEW i \in DOMAIN chain'[Norm[k]],
                      start[k] < chain'[Norm[k]][i].cp, chain'[Norm[k]][i].cp <= cursor[k]
               PROVE  i \in Answered(Norm[k])
    BY <1>6, <1>7 DEF NoGap, Span, Answered, Row, IndInv, TypeInv, TypeOK
  <2>1. Norm[k] \in Address /\ cursor[k] <= head /\ cursor[k] \in Nat
    BY RowAddress DEF Row, IndInv, TypeInv, TypeOK, Bounded
  <2>2. chain'[Norm[k]][i].cp \in Nat
    BY <1>13, <2>1
  <2>3. i \in DOMAIN chain[Norm[k]] /\ chain'[Norm[k]][i] = chain[Norm[k]][i]
    BY <1>2, <1>9, <2>1, <2>2
  <2> QED
    BY <2>3 DEF IndInv, NoGap, Span, Answered, Row
<1>11. SnapshotsSound'
  <2> SUFFICES ASSUME NEW c \in InFlight("poll"), NEW k \in call[c].rows
               PROVE  IF k \in watched
                      THEN \A i \in DOMAIN chain'[Norm[k]] :
                             start[k] < chain'[Norm[k]][i].cp
                             /\ chain'[Norm[k]][i].cp <= call[c].cursor[k]
                             => i \in Answered(Norm[k])
                      ELSE \A d \in InFlight("add") : call[c].cursor[k] <= call[d].from
    BY <1>6, <1>7 DEF SnapshotsSound, Span, InFlight
  <2>1. /\ Norm[k] \in Address /\ call[c].cursor[k] <= head /\ call[c].cursor[k] \in Nat
    BY PollRows, RowAddress DEF IndInv
  <2>2. \A i \in DOMAIN chain'[Norm[k]] : chain'[Norm[k]][i].cp \in Nat
    BY <1>13, <2>1
  <2>3. \A i \in DOMAIN chain'[Norm[k]] : chain'[Norm[k]][i].cp <= call[c].cursor[k] =>
          i \in DOMAIN chain[Norm[k]] /\ chain'[Norm[k]][i] = chain[Norm[k]][i]
    BY <1>2, <1>9, <2>1, <2>2
  <2> QED
    BY <2>3 DEF IndInv, SnapshotsSound, Span
<1>12. PagesComplete'
  <2> SUFFICES ASSUME NEW c \in InFlight("poll"), NEW k \in call[c].rows, k \notin call[c].todo,
                      NEW j \in DOMAIN chain'[Norm[k]], NEW i \in call[c].page[Norm[k]],
                      call[c].cursor[k] < chain'[Norm[k]][j].cp,
                      \/ chain'[Norm[k]][j].cp < chain'[Norm[k]][i].cp
                      \/ Norm[k] \notin call[c].full
                         /\ chain'[Norm[k]][j].cp = chain'[Norm[k]][i].cp
               PROVE  j \in call[c].page[Norm[k]]
    BY <1>6 DEF IndInv, PagesComplete, PageComplete, InFlight
  <2>1. Norm[k] \in Address
    BY PollRows, RowAddress DEF IndInv
  <2>2. i \in DOMAIN chain[Norm[k]] /\ chain[Norm[k]][i].cp <= head
    BY <2>1 DEF IndInv, TypeInv, PagesVisible
  <2>3. chain'[Norm[k]][i] = chain[Norm[k]][i] /\ chain[Norm[k]][i].cp \in Nat
    BY <1>5, <2>1, <2>2, TxTyped DEF IndInv, TypeInv
  <2>4. chain'[Norm[k]][j].cp \in Nat
    BY <1>13, <2>1
  <2>5. chain'[Norm[k]][j].cp <= head
    BY <1>2, <2>2, <2>3, <2>4
  <2>6. j \in DOMAIN chain[Norm[k]] /\ chain'[Norm[k]][j] = chain[Norm[k]][j]
    BY <1>9, <2>1, <2>5
  <2>7. PageComplete(call[c], k)
    BY DEF IndInv, PagesComplete
  <2> QED
    BY <2>3, <2>6, <2>7 DEF PageComplete
<1> QED
  BY <1>1, <1>8, <1>10, <1>11, <1>12 DEF IndInv

LEMMA CertifyIndInv ==
  ASSUME IndInv, Certify
  PROVE  IndInv'
<1>1. UNCHANGED <<chain, watched, cursor, start, call, told, muted, lost>> /\ head' = head + 1
  BY DEF Certify, store, history
<1>2. Sorted'
  <2>1. \A a \in Address : \A i \in DOMAIN chain[a] : chain[a][i].cp \in Nat
    BY TxTyped DEF IndInv, TypeInv
  <2> QED
    BY <1>1, <2>1 DEF IndInv, Sorted, TypeInv, TypeOK
<1>3. \A a : Answered(a)' = Answered(a)
  BY <1>1 DEF Answered, Accounted, Outbox, InFlight
<1>4. \A k, n : Span(k, n)' = Span(k, n)
  BY <1>1 DEF Span
<1>5. NoGap'
  BY <1>1, <1>3, <1>4 DEF IndInv, NoGap, Answered
<1>6. SnapshotsSound'
  BY <1>1, <1>3, <1>4 DEF IndInv, SnapshotsSound, InFlight
<1>7. PagesComplete'
  BY <1>1, PagesFrame DEF IndInv, InFlight
<1> QED
  BY <1>2, <1>5, <1>6, <1>7, CertifyTypeInv DEF IndInv

\* A call that begins an add, fails or delivers its answer.
LEMMA CallIndInv ==
  ASSUME IndInv, NEW c \in Call, NEW q, q.op = "add" \/ q = Idle,
         call' = [call EXCEPT ![c] = q],
         q.op = "add" => q.from = head,
         UNCHANGED <<chain, head, store>>,
         \A a \in Address : Answered(a) \subseteq Answered(a)',
         TypeInv'
  PROVE  IndInv'
<1>1. call'[c] = q /\ \A d \in Call : d # c => call'[d] = call[d]
  BY DEF IndInv, TypeInv, TypeOK
<1>2. \A d \in InFlight("poll")' : d \in InFlight("poll") /\ call'[d] = call[d]
  BY <1>1 DEF InFlight, Idle
<1>3. \A d \in InFlight("add")' :
        \/ d \in InFlight("add") /\ call'[d].from = call[d].from
        \/ call'[d].from = head
  BY <1>1 DEF InFlight, Idle
<1>4. UNCHANGED <<watched, cursor, start>> /\ watched \subseteq Key
  BY DEF store, IndInv, TypeInv, TypeOK
<1>5. NoGap'
  BY <1>4, GapFrame DEF IndInv
<1>6. SnapshotsSound'
  BY <1>2, <1>3, <1>4, SnapshotFrame DEF IndInv
<1>7. PagesComplete' /\ Sorted'
  BY <1>2, PagesFrame, SortedFrame DEF IndInv
<1> QED
  BY <1>5, <1>6, <1>7 DEF IndInv

LEMMA BeginAddIndInv ==
  ASSUME IndInv, NEW c \in Call, NEW A \in SUBSET Address,
         NEW f \in {"set", "clear", "keep"}, BeginAdd(c, A, f)
  PROVE  IndInv'
<1>1. AddCall(A, f, head).op = "add" /\ AddCall(A, f, head).from = head
  BY DEF AddCall
<1>2. call[c].op # "reply"
  BY DEF BeginAdd, Idle
<1>3. \A a \in Address : Answered(a) \subseteq Answered(a)'
  BY <1>2, AnsweredKept DEF BeginAdd, IndInv, TypeInv
<1>4. TypeInv'
  BY BeginAddTypeInv DEF IndInv
<1> QED
  BY <1>1, <1>3, <1>4, CallIndInv DEF BeginAdd

LEMMA CallFailsIndInv ==
  ASSUME IndInv, NEW c \in Call, CallFails(c)
  PROVE  IndInv'
<1>1. call[c].op # "reply"
  BY DEF CallFails
<1>2. \A a \in Address : Answered(a) \subseteq Answered(a)'
  BY <1>1, AnsweredKept DEF CallFails, IndInv, TypeInv
<1>3. TypeInv'
  BY CallFailsTypeInv DEF IndInv
<1> QED
  BY <1>2, <1>3, IdleIsCall, CallIndInv DEF CallFails

LEMMA DeliverIndInv ==
  ASSUME IndInv, NEW c \in Call, Deliver(c)
  PROVE  IndInv'
<1>1. \A a \in Address : Answered(a) \subseteq Answered(a)'
  BY DeliverAnswered DEF IndInv, TypeInv
<1>2. TypeInv'
  BY DeliverTypeInv DEF IndInv
<1> QED
  BY <1>1, <1>2, IdleIsCall, CallIndInv DEF Deliver

LEMMA FinishAddIndInv ==
  ASSUME IndInv, NEW c \in Call, FinishAdd(c)
  PROVE  IndInv'
<1> DEFINE p == call[c]
<1>1. PICK K \in SUBSET { Canon[a] : a \in p.addrs } : SaveWatches(K, p.floor, p.from)
  BY DEF FinishAdd
<1>2. p \in AddType /\ c \in InFlight("add") /\ p.from \in Nat
  BY AddsTyped DEF FinishAdd, IndInv, TypeInv, InFlight, AddType
<1>3. K \subseteq Key /\ watched \subseteq Key
  BY <1>2, WatchAssumption DEF AddType, IndInv, TypeInv, TypeOK
<1>4. call' = [call EXCEPT ![c] = Idle] /\ call[c].op # "reply"
  BY DEF FinishAdd
<1>5. call'[c] = Idle /\ \A d \in Call : d # c => call'[d] = call[d]
  BY <1>4 DEF IndInv, TypeInv, TypeOK
<1>6. \A a \in Address : Answered(a) \subseteq Answered(a)'
  BY <1>4, AnsweredKept DEF FinishAdd, IndInv, TypeInv
<1>7. UNCHANGED <<chain, head>>
  BY DEF FinishAdd
<1>8. /\ watched' = watched \cup K
      /\ \A k \in watched : cursor'[k] = cursor[k] /\ start'[k] = start[k]
      /\ \A k \in watched' \ watched : cursor'[k] = p.from /\ start'[k] = p.from
  BY <1>1, <1>3 DEF SaveWatches
<1>9. \A d \in InFlight("poll")' : d \in InFlight("poll") /\ call'[d] = call[d]
  BY <1>5 DEF InFlight, Idle
<1>10. \A d \in InFlight("add")' : d \in InFlight("add") /\ call'[d] = call[d]
  BY <1>5 DEF InFlight, Idle
<1>11. NoGap'
  BY <1>2, <1>3, <1>6, <1>7, <1>8, GapFrame DEF IndInv
<1>12. SnapshotsSound'
  BY <1>2, <1>3, <1>6, <1>7, <1>8, <1>9, <1>10, SnapshotFrame DEF IndInv
<1>13. PagesComplete' /\ Sorted'
  BY <1>7, <1>9, PagesFrame, SortedFrame DEF IndInv
<1>14. TypeInv'
  BY FinishAddTypeInv DEF IndInv
<1> QED
  BY <1>11, <1>12, <1>13, <1>14 DEF IndInv

LEMMA RemoveIndInv ==
  ASSUME IndInv, ~Overlap, NEW raw \in Key, Remove(raw)
  PROVE  IndInv'
<1>1. UNCHANGED <<chain, head, call, told, muted, lost>> /\ InFlight("add") = {}
  BY DEF Remove, history
<1>2. /\ watched' \subseteq watched /\ watched \subseteq Key
      /\ \A k \in watched' : cursor'[k] = cursor[k] /\ start'[k] = start[k]
  BY DEF Remove, IndInv, TypeInv, TypeOK
<1>3. \A a : Answered(a)' = Answered(a)
  BY <1>1 DEF Answered, Accounted, Outbox, InFlight
<1>4. \A op : InFlight(op)' = InFlight(op)
  BY <1>1 DEF InFlight
<1>5. NoGap'
  BY <1>1, <1>2, <1>3, GapFrame DEF IndInv
<1>6. SnapshotsSound'
  BY <1>1, <1>2, <1>3, <1>4, SnapshotFrame DEF IndInv
<1>7. PagesComplete' /\ Sorted'
  BY <1>1, <1>4, PagesFrame, SortedFrame DEF IndInv
<1>8. TypeInv'
  BY RemoveTypeInv DEF IndInv
<1> QED
  BY <1>5, <1>6, <1>7, <1>8 DEF IndInv

\* A step of one poll, from the snapshot to its last page.
LEMMA PollIndInv ==
  ASSUME IndInv, NEW c \in Call, call[c].op # "reply",
         NEW q, q.op = "poll", call' = [call EXCEPT ![c] = q],
         UNCHANGED <<chain, head, store, history>>,
         \/ call[c].op = "poll" /\ q.rows = call[c].rows /\ q.cursor = call[c].cursor
         \/ q.rows \subseteq { k \in watched : Row(k) } /\ q.cursor = cursor,
         \A k \in q.rows : IF k \in q.todo THEN q.page[Norm[k]] = {} ELSE PageComplete(q, k),
         TypeInv'
  PROVE  IndInv'
<1>1. call'[c] = q /\ \A d \in Call : d # c => call'[d] = call[d]
  BY DEF IndInv, TypeInv, TypeOK
<1>2. UNCHANGED <<watched, cursor, start>> /\ watched \subseteq Key
  BY DEF store, IndInv, TypeInv, TypeOK
<1>3. \A a \in Address : Answered(a) \subseteq Answered(a)'
  BY AnsweredKept DEF IndInv, TypeInv
<1>4. NoGap'
  BY <1>2, <1>3, GapFrame DEF IndInv
<1>5. \A d \in InFlight("add")' : d \in InFlight("add") /\ call'[d] = call[d]
  BY <1>1 DEF InFlight
<1>6. \A d \in InFlight("poll")' :
        \/ /\ d \in InFlight("poll")
           /\ call'[d].rows = call[d].rows /\ call'[d].cursor = call[d].cursor
        \/ /\ UNCHANGED <<watched, start>>
           /\ call'[d].rows \subseteq { k \in watched : Row(k) } /\ call'[d].cursor = cursor
  BY <1>1, <1>2 DEF InFlight
<1>7. SnapshotsSound'
  BY <1>2, <1>3, <1>5, <1>6, SnapshotFrame DEF IndInv
<1>8. PagesComplete'
  <2> SUFFICES ASSUME NEW d \in InFlight("poll")', NEW k \in call'[d].rows
               PROVE  IF k \in call'[d].todo THEN call'[d].page[Norm[k]] = {}
                      ELSE PageComplete(call'[d], k)
    BY DEF PagesComplete, PageComplete
  <2>1. CASE d = c
    BY <1>1, <2>1
  <2>2. CASE d # c
    BY <1>1, <2>2 DEF IndInv, PagesComplete, InFlight
  <2> QED
    BY <2>1, <2>2
<1>9. Sorted'
  BY SortedFrame DEF IndInv
<1> QED
  BY <1>4, <1>7, <1>8, <1>9 DEF IndInv

LEMMA BeginPollIndInv ==
  ASSUME IndInv, NEW c \in Call, NEW m \in Caps, BeginPoll(c, m)
  PROVE  IndInv'
<1> DEFINE q == PollCall(m)
<1>1. q.op = "poll" /\ q.rows \subseteq { k \in watched : Row(k) } /\ q.cursor = cursor
  BY DEF PollCall, Row, IndInv, TypeInv, TypeOK
<1>2. \A k \in q.rows : k \in q.todo /\ q.page[Norm[k]] = {}
  BY <1>1, RowAddress DEF PollCall, None
<1>3. call[c].op # "reply" /\ call' = [call EXCEPT ![c] = q]
  BY DEF BeginPoll, Idle
<1>4. TypeInv'
  BY BeginPollTypeInv DEF IndInv
<1>5. UNCHANGED <<chain, head, store, history>>
  BY DEF BeginPoll
<1> QED
  BY <1>1, <1>2, <1>3, <1>4, <1>5, PollIndInv

LEMMA FetchBatchIndInv ==
  ASSUME IndInv, OneSpelling, NEW c \in Call, FetchBatch(c)
  PROVE  IndInv'
<1>1. PICK B \in SUBSET call[c].todo : call' = [call EXCEPT ![c] = Fetched(call[c], B)]
  BY DEF FetchBatch
<1> DEFINE q == Fetched(call[c], B)
<1>2. c \in InFlight("poll") /\ call[c] \in PollType /\ call[c].op = "poll"
  BY PollsTyped DEF FetchBatch, InFlight, IndInv, TypeInv
<1>3. q.op = "poll" /\ q.rows = call[c].rows /\ q.cursor = call[c].cursor
  BY <1>2 DEF Fetched, PollType
<1>4. \A k \in q.rows : IF k \in q.todo THEN q.page[Norm[k]] = {} ELSE PageComplete(q, k)
  BY <1>2, <1>3, FetchedComplete DEF IndInv
<1>5. TypeInv'
  BY FetchBatchTypeInv DEF IndInv
<1>6. UNCHANGED <<chain, head, store, history>>
  BY DEF FetchBatch
<1>7. call[c].op # "reply"
  BY <1>2
<1> QED
  BY <1>1, <1>2, <1>3, <1>4, <1>5, <1>6, <1>7, PollIndInv

LEMMA FinishPollIndInv ==
  ASSUME IndInv, NEW c \in Call, FinishPoll(c)
  PROVE  IndInv'
<1> DEFINE p == call[c]
<1>1. PICK written \in SUBSET Movers(p) :
        LET moved == { k \in written : Advances(p, k) }
        IN /\ cursor' = [k \in Key |-> IF k \in moved THEN Target(p, k) ELSE cursor[k]]
           /\ call' = [call EXCEPT ![c] = Reply(p, Movers(p) \ moved)]
  BY DEF FinishPoll
<1> DEFINE moved == { k \in written : Advances(p, k) }
           r == Reply(p, Movers(p) \ moved)
<1>2. c \in InFlight("poll") /\ p.todo = {}
  BY DEF FinishPoll, InFlight
<1>3. call'[c] = r /\ r.op = "reply" /\ \A d \in Call : d # c => call'[d] = call[d]
  BY <1>1 DEF IndInv, TypeInv, TypeOK, Reply
<1>4. UNCHANGED <<chain, head, watched, start>> /\ watched \subseteq Key
  BY DEF FinishPoll, IndInv, TypeInv, TypeOK
<1>5. \A a \in Address : Answered(a) \cup p.page[a] \subseteq Answered(a)'
  BY FinishPollAnswered DEF IndInv
<1>6. \A k \in watched :
        \/ cursor'[k] = cursor[k]
        \/ k \in Movers(p) /\ Advances(p, k) /\ cursor'[k] = Target(p, k)
  BY <1>1, <1>4
<1>7. \A k \in watched : k \in Movers(p) /\ Advances(p, k) =>
        /\ Row(k)
        /\ \A i \in DOMAIN chain[Norm[k]] :
             start[k] < chain[Norm[k]][i].cp /\ chain[Norm[k]][i].cp <= Target(p, k)
             => i \in Answered(Norm[k])'
  BY <1>2, <1>5, MovedCovered, RowAddress DEF IndInv
<1>8. NoGap'
  BY <1>4, <1>5, <1>6, <1>7, GapFrame DEF IndInv
<1>9. \A d \in InFlight("poll")' : d \in InFlight("poll") /\ call'[d] = call[d]
  BY <1>3 DEF InFlight
<1>10. \A d \in InFlight("add")' : d \in InFlight("add") /\ call'[d] = call[d]
  BY <1>3 DEF InFlight
<1>11. SnapshotsSound'
  BY <1>4, <1>5, <1>9, <1>10, SnapshotFrame DEF IndInv
<1>12. PagesComplete' /\ Sorted'
  BY <1>4, <1>9, PagesFrame, SortedFrame DEF IndInv
<1>13. TypeInv'
  BY FinishPollTypeInv DEF IndInv
<1> QED
  BY <1>8, <1>11, <1>12, <1>13 DEF IndInv

LEMMA CrashIndInv ==
  ASSUME IndInv, Crash
  PROVE  IndInv'
<1>0. PICK c \in Call : \E moved \in SUBSET Interrupted(call[c]) :
        LET unsent == [a \in Address |->
                         UNION { call[c].page[Norm[k]] : k \in { r \in moved : Norm[r] = a } }]
        IN /\ cursor' = [k \in Key |-> IF k \in moved THEN Target(call[c], k) ELSE cursor[k]]
           /\ lost' = [a \in Address |-> lost[a] \cup unsent[a] \cup Outbox(a)]
  BY DEF Crash
<1>1. PICK moved \in SUBSET Interrupted(call[c]) :
        LET unsent == [a \in Address |->
                         UNION { call[c].page[Norm[k]] : k \in { r \in moved : Norm[r] = a } }]
        IN /\ cursor' = [k \in Key |-> IF k \in moved THEN Target(call[c], k) ELSE cursor[k]]
           /\ lost' = [a \in Address |-> lost[a] \cup unsent[a] \cup Outbox(a)]
  BY <1>0
<1>2. UNCHANGED <<chain, head, watched, start, told, muted>> /\ watched \subseteq Key
  BY DEF Crash, IndInv, TypeInv, TypeOK
<1>3. \A a \in Address : Answered(a) \subseteq Answered(a)'
  BY <1>1, <1>2 DEF Answered, Accounted
<1>4. \A k \in moved : Norm[k] \in Address => call[c].page[Norm[k]] \subseteq Answered(Norm[k])'
  BY <1>1 DEF Answered
<1>5. \A k \in moved : /\ c \in InFlight("poll") /\ call[c].todo = {}
                       /\ k \in Movers(call[c]) /\ Advances(call[c], k)
  BY DEF Interrupted, InFlight
<1>6. \A k \in moved :
        /\ Row(k)
        /\ \A i \in DOMAIN chain[Norm[k]] :
             start[k] < chain[Norm[k]][i].cp /\ chain[Norm[k]][i].cp <= Target(call[c], k)
             => i \in Answered(Norm[k])'
  <2> SUFFICES ASSUME NEW k \in moved
               PROVE  /\ Row(k)
                      /\ \A i \in DOMAIN chain[Norm[k]] :
                           start[k] < chain[Norm[k]][i].cp
                           /\ chain[Norm[k]][i].cp <= Target(call[c], k)
                           => i \in Answered(Norm[k])'
    OBVIOUS
  <2>1. /\ Row(k)
        /\ \A i \in DOMAIN chain[Norm[k]] :
             start[k] < chain[Norm[k]][i].cp /\ chain[Norm[k]][i].cp <= Target(call[c], k)
             => i \in Answered(Norm[k]) \cup call[c].page[Norm[k]]
    BY <1>5, MovedCovered DEF IndInv
  <2> QED
    BY <1>3, <1>4, <2>1, RowAddress
<1>7. \A k \in watched :
        \/ cursor'[k] = cursor[k]
        \/ k \in moved /\ cursor'[k] = Target(call[c], k)
  BY <1>1, <1>2
<1>8. NoGap'
  <2>1. \A k \in watched' :
          \/ k \in watched /\ start'[k] = start[k] /\ cursor'[k] = cursor[k]
          \/ /\ start'[k] = start[k]
             /\ Row(k) =>
                  \A i \in DOMAIN chain[Norm[k]] :
                    start[k] < chain[Norm[k]][i].cp /\ chain[Norm[k]][i].cp <= cursor'[k]
                    => i \in Answered(Norm[k])'
    BY <1>2, <1>6, <1>7
  <2>2. watched' \subseteq Key /\ chain' = chain
    BY <1>2
  <2> QED
    BY <1>3, <2>1, <2>2, GapFrame DEF IndInv
<1>9. InFlight("poll")' = {}
  BY DEF Crash, InFlight, Idle
<1>10. SnapshotsSound' /\ PagesComplete'
  BY <1>9 DEF SnapshotsSound, PagesComplete
<1>11. Sorted' /\ TypeInv'
  BY <1>2, SortedFrame, CrashTypeInv DEF IndInv
<1> QED
  BY <1>8, <1>10, <1>11 DEF IndInv

LEMMA NextIndInv ==
  ASSUME OneSpelling, ~Overlap
  PROVE  IndInv /\ [Next]_vars => IndInv'
<1> SUFFICES ASSUME IndInv, [Next]_vars PROVE IndInv'
  OBVIOUS
<1>1. CASE UNCHANGED vars
  <2>1. UNCHANGED <<chain, head, watched, cursor, start, call, told, muted, lost>>
    BY <1>1 DEF vars, store, history
  <2>2. \A a : Answered(a)' = Answered(a)
    BY <2>1 DEF Answered, Accounted, Outbox, InFlight
  <2>3. \A k, n : Span(k, n)' = Span(k, n)
    BY <2>1 DEF Span
  <2>4. \A op : InFlight(op)' = InFlight(op)
    BY <2>1 DEF InFlight
  <2>5. NoGap'
    BY <2>1, <2>2, <2>3 DEF IndInv, NoGap, Answered
  <2>6. SnapshotsSound'
    BY <2>1, <2>2, <2>3, <2>4 DEF IndInv, SnapshotsSound
  <2>7. PagesComplete' /\ Sorted'
    BY <2>1, <2>4, PagesFrame, SortedFrame DEF IndInv
  <2>8. TypeInv'
    BY NextTypeInv DEF IndInv
  <2> QED
    BY <2>5, <2>6, <2>7, <2>8 DEF IndInv
<1>2. CASE Next
  <2>1. CASE \E a \in Address, s \in Sizes : Execute(a, s)
    BY <2>1, ExecuteIndInv
  <2>2. CASE Certify \/ Crash
    BY <2>2, CertifyIndInv, CrashIndInv
  <2>3. CASE \E c \in Call, A \in SUBSET Address, f \in {"set", "clear", "keep"} : BeginAdd(c, A, f)
    BY <2>3, BeginAddIndInv
  <2>4. CASE \E c \in Call, m \in Caps : BeginPoll(c, m)
    BY <2>4, BeginPollIndInv
  <2>5. CASE \E raw \in Key : Remove(raw)
    BY <2>5, RemoveIndInv
  <2>6. CASE \E c \in Call : FinishAdd(c) \/ FetchBatch(c) \/ FinishPoll(c)
    BY <2>6, FinishAddIndInv, FetchBatchIndInv, FinishPollIndInv
  <2>7. CASE \E c \in Call : CallFails(c) \/ Deliver(c)
    BY <2>7, CallFailsIndInv, DeliverIndInv
  <2> QED
    BY <1>2, <2>1, <2>2, <2>3, <2>4, <2>5, <2>6, <2>7 DEF Next
<1> QED
  BY <1>1, <1>2

\* Every reachable state satisfies the invariant that carries the promise.
THEOREM IndInvariance ==
  ASSUME OneSpelling, ~Overlap
  PROVE  Spec => []IndInv
BY InitIndInv, NextIndInv, PTL DEF Spec

\* A cursor never passes a transaction that no poll has answered for: what lies
\* between a row's first checkpoint and its cursor was told to the client, is on
\* its way, was suppressed under a floor, or died with an answer (poll_watch).
THEOREM NothingSkipped ==
  ASSUME OneSpelling, ~Overlap
  PROVE  Spec => []NoGap
<1>1. IndInv => NoGap
  BY DEF IndInv
<1> QED
  BY <1>1, IndInvariance, PTL

\* Whatever runs between its awaits, a poll relies on nothing about a row that
\* has stopped being true (poll_watch, the snapshot listWatches returned).
THEOREM SnapshotsStaySound ==
  ASSUME OneSpelling, ~Overlap
  PROVE  Spec => []SnapshotsSound
<1>1. IndInv => SnapshotsSound
  BY DEF IndInv
<1> QED
  BY <1>1, IndInvariance, PTL

\* The page a poll holds is everything after the row's cursor up to its last
\* checkpoint, short of that checkpoint's remainder when the page was cut.
THEOREM PagesStayComplete ==
  ASSUME OneSpelling, ~Overlap
  PROVE  Spec => []PagesComplete
<1>1. IndInv => PagesComplete
  BY DEF IndInv
<1> QED
  BY <1>1, IndInvariance, PTL

-----------------------------------------------------------------------------
(* The watch implements the at-least-once feed of WatchFeed, under the     *)
(* same two assumptions.                                                   *)

Visible(a) == { i \in DOMAIN chain[a] : chain[a][i].cp <= head }

\* Nothing is answered that the service has not served.
Served == \A a \in Address : Answered(a) \subseteq Visible(a)

FeedInv == IndInv /\ Served

\* A step of the feed, or none.
FeedStep == [Feed!Next]_(Feed!feed)

-----------------------------------------------------------------------------
(* What has been answered, exactly. *)

LEMMA AnswersUnchanged ==
  ASSUME TypeOK, NEW c \in Call, call[c].op # "reply", NEW q, q.op # "reply",
         call' = [call EXCEPT ![c] = q], UNCHANGED history
  PROVE  \A a : Answered(a)' = Answered(a)
<1>1. call'[c] = q /\ \A d \in Call : d # c => call'[d] = call[d]
  BY DEF TypeOK
<1>2. \A a : Outbox(a)' = Outbox(a)
  BY <1>1 DEF Outbox, InFlight
<1> QED
  BY <1>2 DEF Answered, Accounted, history

LEMMA AnswersDelivered ==
  ASSUME TypeOK, NEW c \in Call, Deliver(c)
  PROVE  \A a \in Address : Answered(a)' = Answered(a)
<1>1. call'[c] = Idle /\ \A d \in Call : d # c => call'[d] = call[d]
  BY DEF TypeOK, Deliver
<1>2. \A a \in Address : Outbox(a) = Outbox(a)' \cup call[c].hits[a]
  BY <1>1 DEF Outbox, InFlight, Deliver, Idle
<1>3. \A a \in Address : told'[a] = told[a] \cup call[c].hits[a]
  BY DEF Deliver, TypeOK, AddressSets
<1> QED
  BY <1>2, <1>3 DEF Deliver, Answered, Accounted

LEMMA AnswersFinished ==
  ASSUME TypeInv, NEW c \in Call, FinishPoll(c)
  PROVE  \A a \in Address : Answered(a)' \subseteq Answered(a) \cup call[c].page[a]
<1> DEFINE p == call[c]
<1>1. PICK written \in SUBSET Movers(p) :
        LET moved == { k \in written : Advances(p, k) }
        IN /\ muted' = [a \in Address |-> muted[a] \cup Suppressed(p, a)]
           /\ call' = [call EXCEPT ![c] = Reply(p, Movers(p) \ moved)]
  BY DEF FinishPoll
<1> DEFINE r == Reply(p, Movers(p) \ { k \in written : Advances(p, k) })
<1>2. call'[c] = r /\ \A d \in Call : d # c => call'[d] = call[d]
  BY <1>1 DEF TypeInv, TypeOK
<1>3. \A a \in Address : r.hits[a] \subseteq p.page[a] /\ Suppressed(p, a) \subseteq p.page[a]
  BY DEF Reply, Suppressed
<1>4. \A a \in Address : Outbox(a)' \subseteq Outbox(a) \cup r.hits[a]
  BY <1>2 DEF Outbox, InFlight
<1>5. \A a \in Address : muted'[a] = muted[a] \cup Suppressed(p, a)
  BY <1>1
<1>6. told' = told /\ lost' = lost
  BY DEF FinishPoll
<1> QED
  BY <1>3, <1>4, <1>5, <1>6 DEF Answered, Accounted

LEMMA AnswersLost ==
  ASSUME TypeInv, Crash
  PROVE  \A a \in Address : /\ Answered(a) \subseteq Answered(a)'
                            /\ Answered(a)' \subseteq Answered(a) \cup Visible(a)
<1>1. PICK c \in Call : \E moved \in SUBSET Interrupted(call[c]) :
        LET unsent == [a \in Address |->
                         UNION { call[c].page[Norm[k]] : k \in { r \in moved : Norm[r] = a } }]
        IN lost' = [a \in Address |-> lost[a] \cup unsent[a] \cup Outbox(a)]
  BY DEF Crash
<1>2. PICK moved \in SUBSET Interrupted(call[c]) :
        LET unsent == [a \in Address |->
                         UNION { call[c].page[Norm[k]] : k \in { r \in moved : Norm[r] = a } }]
        IN lost' = [a \in Address |-> lost[a] \cup unsent[a] \cup Outbox(a)]
  BY <1>1
<1>3. \A a \in Address : lost[a] \cup Outbox(a) \subseteq lost'[a]
  BY <1>2
<1>4. \A a \in Address : lost'[a] \subseteq lost[a] \cup Outbox(a) \cup Visible(a)
  <2> SUFFICES ASSUME NEW a \in Address, NEW k \in moved, Norm[k] = a,
                      NEW i \in call[c].page[a]
               PROVE  i \in Visible(a)
    BY <1>2
  <2>1. c \in InFlight("poll")
    BY DEF Interrupted, InFlight
  <2> QED
    BY <2>1 DEF TypeInv, PagesVisible, Visible
<1>5. UNCHANGED <<told, muted>>
  BY DEF Crash
<1>6. \A a : Outbox(a)' = {}
  <2>1. \A d \in Call : call'[d].op = "idle"
    BY DEF Crash, Idle
  <2> QED
    BY <2>1 DEF Outbox, InFlight
<1> QED
  BY <1>3, <1>4, <1>5, <1>6 DEF Answered, Accounted

-----------------------------------------------------------------------------
(* The steps of the feed. *)

\* Steps that no reader of the feed can see.
LEMMA Unseen ==
  ASSUME UNCHANGED <<chain, head, watched, start, cursor>>,
         \A a \in Address : Answered(a)' = Answered(a)
  PROVE  UNCHANGED Feed!feed
BY DEF Feed!feed

\* Steps that answer.
LEMMA Serves ==
  ASSUME IndInv, IndInv', Served',
         UNCHANGED <<chain, head, watched, start>>,
         \A k \in watched : cursor[k] <= cursor'[k],
         \A a \in Address : Answered(a) \subseteq Answered(a)'
  PROVE  Feed!Serve
<1> DEFINE given == [a \in Address |-> Answered(a)]
<1>1. \A a \in Address : given[a] \subseteq given'[a] /\ given'[a] \subseteq Feed!Published(a)
  BY DEF Served, Visible, Feed!Published
<1>2. \A k \in watched : cursor'[k] <= head
  BY DEF IndInv, TypeInv, TypeOK, Bounded
<1>3. ASSUME NEW k \in watched, Norm[k] # Malformed
      PROVE  Feed!Owed(k, cursor'[k]) \subseteq given'[Norm[k]]
  <2>1. k \in Key /\ Norm[k] \in Address
    BY <1>3, RowAddress DEF IndInv, TypeInv, TypeOK, Row
  <2>2. Span(k, cursor[k])' \subseteq Answered(Norm[k])'
    BY <1>3 DEF IndInv, NoGap, Answered
  <2> QED
    BY <2>1, <2>2 DEF Span, Feed!Owed, Feed!Published
<1> QED
  BY <1>1, <1>2, <1>3 DEF Feed!Serve

LEMMA Publishes ==
  ASSUME IndInv, Certify \/ \E a \in Address, s \in Sizes : Execute(a, s)
  PROVE  Feed!Publish
<1>1. UNCHANGED <<watched, cursor, start, call, told, muted, lost>>
  BY DEF Certify, Execute, store, history
<1>2. \A a : Answered(a)' = Answered(a)
  BY <1>1 DEF Answered, Accounted, Outbox, InFlight
<1>3. head \in Nat /\ chain \in [Address -> Seq(Tx)]
  BY DEF IndInv, TypeInv, TypeOK
<1>4. CASE Certify
  BY <1>1, <1>2, <1>3, <1>4 DEF Certify, Feed!Publish
<1>5. ASSUME NEW a \in Address, NEW s \in Sizes, Execute(a, s)
      PROVE  Feed!Publish
  <2> DEFINE tx == [cp |-> head + 1, small |-> s]
  <2>1. tx \in Tx
    BY <1>3, WatchAssumption DEF Tx
  <2>2. chain' = [chain EXCEPT ![a] = Append(chain[a], tx)] /\ head' = head
    BY <1>5 DEF Execute
  <2>3. \A b \in Address :
          /\ Len(chain[b]) <= Len(chain'[b])
          /\ \A i \in DOMAIN chain'[b] :
               IF i \in DOMAIN chain[b] THEN chain'[b][i] = chain[b][i]
               ELSE chain'[b][i].cp > head
    <3> TAKE b \in Address
    <3>1. CASE b = a
      BY <1>3, <2>1, <2>2, <3>1
    <3>2. CASE b # a
      BY <1>3, <2>2, <3>2
    <3> QED
      BY <3>1, <3>2
  <2> QED
    BY <1>1, <1>2, <1>3, <2>2, <2>3 DEF Feed!Publish
<1> QED
  BY <1>4, <1>5

LEMMA Subscribes ==
  ASSUME IndInv, NEW c \in Call, FinishAdd(c)
  PROVE  Feed!Subscribe
<1> DEFINE p == call[c]
<1>1. PICK K \in SUBSET { Canon[a] : a \in p.addrs } : SaveWatches(K, p.floor, p.from)
  BY DEF FinishAdd
<1>2. p \in AddType /\ p.from <= head
  BY AddsTyped DEF FinishAdd, IndInv, TypeInv, Bounded, InFlight
<1>3. K \subseteq Key /\ watched \subseteq Key
  BY <1>2, WatchAssumption DEF AddType, IndInv, TypeInv, TypeOK
<1>4. /\ watched' = watched \cup K
      /\ \A k \in Key :
           IF k \in watched' \ watched
           THEN start'[k] = cursor'[k] /\ cursor'[k] <= head
           ELSE start'[k] = start[k] /\ cursor'[k] = cursor[k]
  BY <1>1, <1>2, <1>3 DEF SaveWatches
<1>5. call' = [call EXCEPT ![c] = Idle] /\ call[c].op # "reply" /\ UNCHANGED <<chain, head, history>>
  BY DEF FinishAdd
<1>6. \A a : Answered(a)' = Answered(a)
  BY <1>5, IdleIsCall, AnswersUnchanged DEF IndInv, TypeInv
<1> QED
  BY <1>4, <1>5, <1>6 DEF Feed!Subscribe

LEMMA Unsubscribes ==
  ASSUME IndInv, NEW raw \in Key, Remove(raw)
  PROVE  Feed!Unsubscribe
<1>1. UNCHANGED <<chain, head, call, told, muted, lost>>
  BY DEF Remove, history
<1>2. /\ watched' \subseteq watched
      /\ \A k \in watched' : cursor'[k] = cursor[k] /\ start'[k] = start[k]
  BY DEF Remove, IndInv, TypeInv, TypeOK
<1>3. \A a : Answered(a)' = Answered(a)
  BY <1>1 DEF Answered, Accounted, Outbox, InFlight
<1> QED
  BY <1>1, <1>2, <1>3 DEF Feed!Unsubscribe

LEMMA CallIsUnseen ==
  ASSUME IndInv, NEW c \in Call,
         \/ \E A \in SUBSET Address, f \in {"set", "clear", "keep"} : BeginAdd(c, A, f)
         \/ \E m \in Caps : BeginPoll(c, m)
         \/ FetchBatch(c)
         \/ CallFails(c)
         \/ Deliver(c)
  PROVE  /\ UNCHANGED <<chain, head, watched, start, cursor>>
         /\ \A a \in Address : Answered(a)' = Answered(a)
<1>0. TypeOK
  BY DEF IndInv, TypeInv
<1>1. ASSUME NEW A \in SUBSET Address, NEW f \in {"set", "clear", "keep"}, BeginAdd(c, A, f)
      PROVE  \A a : Answered(a)' = Answered(a)
  <2>1. call[c].op # "reply" /\ AddCall(A, f, head).op # "reply"
    BY <1>1 DEF BeginAdd, AddCall, Idle
  <2> QED
    BY <1>0, <1>1, <2>1, AnswersUnchanged DEF BeginAdd
<1>2. ASSUME NEW m \in Caps, BeginPoll(c, m)
      PROVE  \A a : Answered(a)' = Answered(a)
  <2>1. call[c].op # "reply" /\ PollCall(m).op # "reply"
    BY <1>2 DEF BeginPoll, PollCall, Idle
  <2> QED
    BY <1>0, <1>2, <2>1, AnswersUnchanged DEF BeginPoll
<1>3. ASSUME FetchBatch(c)
      PROVE  \A a : Answered(a)' = Answered(a)
  <2>1. PICK B \in SUBSET call[c].todo : call' = [call EXCEPT ![c] = Fetched(call[c], B)]
    BY <1>3 DEF FetchBatch
  <2>2. call[c].op = "poll" /\ call[c] \in PollType
    BY <1>0, <1>3, PollsTyped DEF FetchBatch
  <2>3. Fetched(call[c], B).op # "reply"
    BY <2>2 DEF Fetched, PollType
  <2> QED
    BY <1>0, <1>3, <2>1, <2>2, <2>3, AnswersUnchanged DEF FetchBatch
<1>4. ASSUME CallFails(c)
      PROVE  \A a : Answered(a)' = Answered(a)
  BY <1>0, <1>4, IdleIsCall, AnswersUnchanged DEF CallFails
<1>5. ASSUME Deliver(c)
      PROVE  \A a \in Address : Answered(a)' = Answered(a)
  BY <1>0, <1>5, AnswersDelivered
<1>6. UNCHANGED <<chain, head, watched, start, cursor>>
  BY DEF BeginAdd, BeginPoll, FetchBatch, CallFails, Deliver, store
<1> QED
  BY <1>1, <1>2, <1>3, <1>4, <1>5, <1>6

\* What stays served when the history only grows.
LEMMA ServedKept ==
  ASSUME Served,
         \A a \in Address : Answered(a)' \subseteq Answered(a) \cup Visible(a),
         \A a \in Address : Visible(a) \subseteq Visible(a)'
  PROVE  Served'
BY DEF Served

LEMMA VisibleSame ==
  ASSUME UNCHANGED <<chain, head>>
  PROVE  \A a : Visible(a)' = Visible(a)
BY DEF Visible

LEMMA NextFeed ==
  ASSUME OneSpelling, ~Overlap, FeedInv, [Next]_vars
  PROVE  Served' /\ FeedStep
<1>0. IndInv /\ IndInv' /\ Served /\ TypeInv
  BY NextIndInv DEF FeedInv, IndInv
<1>1. CASE UNCHANGED vars
  <2>1. UNCHANGED <<chain, head, watched, start, cursor, call, told, muted, lost>>
    BY <1>1 DEF vars, store, history
  <2>2. \A a : Answered(a)' = Answered(a)
    BY <2>1 DEF Answered, Accounted, Outbox, InFlight
  <2>3. Served'
    BY <1>0, <2>1, <2>2, VisibleSame, ServedKept
  <2> QED
    BY <2>1, <2>2, <2>3, Unseen DEF FeedStep
<1>2. CASE Certify \/ \E a \in Address, s \in Sizes : Execute(a, s)
  <2>1. Feed!Publish
    BY <1>0, <1>2, Publishes
  <2>2. UNCHANGED <<call, told, muted, lost>>
    BY <1>2 DEF Certify, Execute, history
  <2>3. \A a : Answered(a)' = Answered(a)
    BY <2>2 DEF Answered, Accounted, Outbox, InFlight
  <2>4. \A a \in Address : Visible(a) \subseteq Visible(a)'
    <3>1. \A a \in Address : \A i \in DOMAIN chain[a] :
            /\ i \in DOMAIN chain'[a] /\ chain'[a][i] = chain[a][i]
            /\ chain[a][i].cp \in Nat
      <4>1. \A a \in Address : /\ DOMAIN chain[a] = 1..Len(chain[a]) /\ Len(chain[a]) \in Nat
                               /\ DOMAIN chain'[a] = 1..Len(chain'[a]) /\ Len(chain'[a]) \in Nat
        BY <1>0 DEF IndInv, TypeInv, TypeOK
      <4>2. \A a \in Address : \A i \in DOMAIN chain[a] : chain[a][i].cp \in Nat
        BY <1>0, TxTyped DEF TypeInv
      <4> QED
        BY <2>1, <4>1, <4>2 DEF Feed!Publish
    <3>2. head <= head' /\ head \in Nat /\ head' \in Nat
      BY <1>0, <2>1 DEF Feed!Publish, IndInv, TypeInv, TypeOK
    <3> QED
      BY <3>1, <3>2 DEF Visible
  <2>5. Served'
    BY <1>0, <2>3, <2>4, ServedKept
  <2> QED
    BY <2>1, <2>5 DEF FeedStep, Feed!Next
<1>3. ASSUME NEW c \in Call, FinishAdd(c) PROVE Served' /\ FeedStep
  <2>1. UNCHANGED <<chain, head, history>> /\ call' = [call EXCEPT ![c] = Idle] /\ call[c].op # "reply"
    BY <1>3 DEF FinishAdd
  <2>2. \A a : Answered(a)' = Answered(a)
    BY <1>0, <2>1, IdleIsCall, AnswersUnchanged DEF TypeInv
  <2>3. Served'
    BY <1>0, <2>1, <2>2, VisibleSame, ServedKept
  <2> QED
    BY <1>0, <1>3, <2>3, Subscribes DEF FeedStep, Feed!Next
<1>4. ASSUME NEW raw \in Key, Remove(raw) PROVE Served' /\ FeedStep
  <2>1. UNCHANGED <<chain, head, call, told, muted, lost>>
    BY <1>4 DEF Remove, history
  <2>2. \A a : Answered(a)' = Answered(a)
    BY <2>1 DEF Answered, Accounted, Outbox, InFlight
  <2>3. Served'
    BY <1>0, <2>1, <2>2, VisibleSame, ServedKept
  <2> QED
    BY <1>0, <1>4, <2>3, Unsubscribes DEF FeedStep, Feed!Next
<1>5. ASSUME NEW c \in Call, FinishPoll(c) PROVE Served' /\ FeedStep
  <2>1. UNCHANGED <<chain, head, watched, start>>
    BY <1>5 DEF FinishPoll
  <2>2. c \in InFlight("poll")
    BY <1>5 DEF FinishPoll, InFlight
  <2>3. \A a \in Address : call[c].page[a] \subseteq Visible(a)
    BY <1>0, <2>2 DEF TypeInv, PagesVisible, Visible
  <2>4. \A a \in Address : /\ Answered(a) \subseteq Answered(a)'
                           /\ Answered(a)' \subseteq Answered(a) \cup Visible(a)
    BY <1>0, <1>5, <2>3, AnswersFinished, FinishPollAnswered
  <2>5. Served'
    BY <1>0, <2>1, <2>4, VisibleSame, ServedKept
  <2>6. \A k \in watched : cursor[k] <= cursor'[k]
    BY <1>0, <1>5, <2>1, NextCursor DEF Next
  <2> QED
    BY <1>0, <2>1, <2>4, <2>5, <2>6, Serves DEF FeedStep, Feed!Next
<1>6. CASE Crash
  <2>1. UNCHANGED <<chain, head, watched, start>>
    BY <1>6 DEF Crash
  <2>2. \A a \in Address : /\ Answered(a) \subseteq Answered(a)'
                           /\ Answered(a)' \subseteq Answered(a) \cup Visible(a)
    BY <1>0, <1>6, AnswersLost
  <2>3. Served'
    BY <1>0, <2>1, <2>2, VisibleSame, ServedKept
  <2>4. \A k \in watched : cursor[k] <= cursor'[k]
    BY <1>0, <1>6, <2>1, NextCursor DEF Next
  <2> QED
    BY <1>0, <2>1, <2>2, <2>3, <2>4, Serves DEF FeedStep, Feed!Next
<1>7. ASSUME NEW c \in Call,
             \/ \E A \in SUBSET Address, f \in {"set", "clear", "keep"} : BeginAdd(c, A, f)
             \/ \E m \in Caps : BeginPoll(c, m)
             \/ FetchBatch(c)
             \/ CallFails(c)
             \/ Deliver(c)
      PROVE  Served' /\ FeedStep
  <2>1. /\ UNCHANGED <<chain, head, watched, start, cursor>>
        /\ \A a \in Address : Answered(a)' = Answered(a)
    BY <1>0, <1>7, CallIsUnseen
  <2>2. Served'
    BY <1>0, <2>1, VisibleSame, ServedKept
  <2> QED
    BY <2>1, <2>2, Unseen DEF FeedStep
<1> QED
  BY <1>1, <1>2, <1>3, <1>4, <1>5, <1>6, <1>7 DEF Next

LEMMA InitFeed == Init => Served /\ Feed!Init
<1> SUFFICES ASSUME Init PROVE Served /\ Feed!Init
  OBVIOUS
<1>1. \A a \in Address : Answered(a) = {}
  <2>1. \A c \in Call : call[c].op = "idle"
    BY DEF Init, Idle
  <2>2. \A a : Outbox(a) = {}
    BY <2>1 DEF Outbox, InFlight
  <2> QED
    BY <2>2 DEF Init, None, Answered, Accounted
<1>2. Served
  BY <1>1 DEF Served
<1>3. Feed!Init
  BY <1>1 DEF Init, Feed!Init
<1> QED
  BY <1>2, <1>3

\* However its polls, adds, removes, failed reads and restarts interleave, the
\* watch is an at-least-once feed: a mark only passes what has been handed out.
THEOREM WatchIsFeed ==
  ASSUME OneSpelling, ~Overlap
  PROVE  Spec => ImplementsFeed
<1>1. Init => FeedInv /\ Feed!Init
  BY InitIndInv, InitFeed DEF FeedInv
<1>2. FeedInv /\ [Next]_vars => FeedInv' /\ [Feed!Next]_(Feed!feed)
  BY NextFeed, NextIndInv DEF FeedInv, FeedStep
<1> QED
  BY <1>1, <1>2, PTL DEF Spec, ImplementsFeed, Feed!Spec
=============================================================================
