----------------------------- MODULE FlowProofs -----------------------------
(***************************************************************************)
(* Theorems of Flow for every history, start, label and limit: the type    *)
(* invariant, the balance of every node and of every transaction, what     *)
(* "unspent" and an arrival's checkpoint promise, and why a walk ends.     *)
(***************************************************************************)
EXTENDS Flow, Sums, TLAPS, FiniteSetTheorems, SequenceTheorems

\* The smaller of two naturals, which Share and Joined take.
LEMMA MinOfTwo ==
  ASSUME NEW x \in Nat, NEW y \in Nat
  PROVE  /\ Min({x, y}) \in Nat
         /\ Min({x, y}) <= x /\ Min({x, y}) <= y
         /\ Min({x, y}) \in {x, y}
<1>1. \E z \in {x, y} : \A w \in {x, y} : z <= w
  <2>1. CASE x <= y BY <2>1
  <2>2. CASE ~(x <= y) BY <2>2
  <2> QED BY <2>1, <2>2
<1>2. /\ Min({x, y}) \in {x, y}
      /\ \A w \in {x, y} : Min({x, y}) <= w
  BY <1>1 DEF Min
<1> QED BY <1>2

\* What the ledger holds after an entry.
LEMMA EndedType ==
  ASSUME ledger \in [Code -> [Addr -> Nat]],
         NEW c \in Code, NEW a \in Addr, NEW n \in Nat
  PROVE  Ended(c, a, n) \in [Code -> [Addr -> Nat]]
<1>1. ledger[c] \in [Addr -> Nat] BY SMT
<1>2. [ledger[c] EXCEPT ![a] = @ + n] \in [Addr -> Nat] BY <1>1, SMT
<1> QED BY <1>2, SMT DEF Ended

LEMMA EndedSum ==
  ASSUME ledger \in [Code -> [Addr -> Nat]],
         NEW c \in Code, NEW a \in Addr, NEW n \in Nat,
         ledger' = Ended(c, a, n),
         NEW b \in Addr
  PROVE  EndedAt(b)' =
           EndedAt(b) + (IF b = a /\ c # "below_threshold" THEN n ELSE 0)
<1>1. \A d \in Code : ledger[d][b] \in Nat
  BY SMT
<1>2. \A d \in Code :
        ledger'[d][b] = IF d = c /\ b = a THEN ledger[d][b] + n ELSE ledger[d][b]
  BY SMT DEF Ended
<1>3. CASE b # a
  BY <1>1, <1>2, <1>3, SMT DEF EndedAt, Code
<1>4. CASE b = a
  <2> DEFINE Was(d) == ledger[d][a]
             Is(d) == ledger'[d][a]
  <2>1. \A d \in Code : Was(d) \in Nat BY <1>1, <1>4
  <2>2. \A d \in Code : d # c => Is(d) = Was(d) BY <1>2, <1>4
  <2>3. Is(c) = Was(c) + n BY <1>2, <1>4
  <2> HIDE DEF Was, Is
  <2>4. Is("sink") + Is("protocol") + Is("hub") + Is("read_failed") + Is("budget")
          + Is("unspent") + Is("cycle") + Is("signer_not_sender") + Is("consumed")
        = Was("sink") + Was("protocol") + Was("hub") + Was("read_failed")
            + Was("budget") + Was("unspent") + Was("cycle")
            + Was("signer_not_sender") + Was("consumed")
            + (IF c # "below_threshold" THEN n ELSE 0)
    BY <2>1, <2>2, <2>3, SMT DEF Code
  <2> QED BY <2>4, <1>4 DEF EndedAt, Was, Is
<1> QED BY <1>3, <1>4

-----------------------------------------------------------------------------
(* Type correctness.                                                       *)

\* An expansion is of an address.
Placed == now # Idle => now.node \in Addr

\* What a job joins, and what a reached node becomes, keep their types.
LEMMA JoinedType ==
  ASSUME frontier \in [Addr -> Job], NEW a \in Addr, NEW j \in Job
  PROVE  /\ Joined(a, j) \in Job
         /\ Joined(a, j).amount = frontier[a].amount + j.amount
<1>1. frontier[a] \in Job OBVIOUS
<1>2. CASE Queued(a)
  <2>1. Min({frontier[a].cp, j.cp}) \in Nat BY <1>1, MinOfTwo DEF Job
  <2>2. Joined(a, j) = [frontier[a] EXCEPT !.amount = @ + j.amount,
                                           !.cp = Min({@, j.cp})]
    BY <1>2 DEF Joined
  <2>3. /\ frontier[a].amount + j.amount \in Nat
        /\ Joined(a, j).amount = frontier[a].amount + j.amount
    BY <1>1, <2>2 DEF Job
  <2> DEFINE m == Min({frontier[a].cp, j.cp})
  <2>4. Joined(a, j) = [frontier[a] EXCEPT !.amount = @ + j.amount, !.cp = m]
    BY <2>2
  <2>5. m \in Nat BY <2>1
  <2> HIDE DEF m
  <2> QED BY <1>1, <2>3, <2>4, <2>5 DEF Job
<1>3. CASE ~Queued(a)
  <2>1. Joined(a, j) = j BY <1>3 DEF Joined
  <2>2. frontier[a].amount = 0 /\ j.amount \in Nat
    BY <1>1, <1>3 DEF Queued, Job
  <2> QED BY <2>1, <2>2
<1> QED BY <1>2, <1>3

LEMMA ConnectType ==
  ASSUME TypeOK, NEW a \in Addr, NEW j \in Job, Connect(a, j)
  PROVE  /\ frontier' \in [Addr -> Job]
         /\ ledger' \in [Code -> [Addr -> Nat]]
         /\ share' \in [Addr -> Nat]
         /\ parentOf' \in [Addr -> Addr \cup {Origin}]
         /\ arrivals' \in [Addr -> SUBSET Nat]
<1>1. j.amount \in Nat /\ j.cp \in Nat /\ j.via \in Addr \cup {Origin}
  BY DEF Job
<1>2. \A c \in Code : Ended(c, a, j.amount) \in [Code -> [Addr -> Nat]]
  BY <1>1, EndedType DEF TypeOK
<1>3. CASE Prune(a, j)
  BY <1>2, <1>3 DEF Prune, TypeOK, graph, Code
<1>4. CASE Reach(a, j) /\ (CloseCycle(a, j) \/ Queue(a, j))
  <2>1. /\ share' \in [Addr -> Nat]
        /\ parentOf' \in [Addr -> Addr \cup {Origin}]
        /\ arrivals' \in [Addr -> SUBSET Nat]
    <3>1. /\ share \in [Addr -> Nat]
          /\ parentOf \in [Addr -> Addr \cup {Origin}]
          /\ arrivals \in [Addr -> SUBSET Nat]
      BY DEF TypeOK
    <3> QED BY <1>1, <1>4, <3>1 DEF Reach
  <2>2. CASE CloseCycle(a, j)
    BY <1>2, <2>1, <2>2 DEF CloseCycle, TypeOK, Code
  <2>3. CASE Queue(a, j)
    BY JoinedType, <2>1, <2>3 DEF Queue, TypeOK
  <2> QED BY <1>4, <2>2, <2>3
<1> QED BY <1>3, <1>4 DEF Connect

\* What a job that ends leaves behind.
LEMMA EndJobType ==
  ASSUME TypeOK, NEW a \in Addr, NEW c \in Code, EndJob(a, c)
  PROVE  /\ frontier' \in [Addr -> Job]
         /\ ledger' \in [Code -> [Addr -> Nat]]
         /\ truncated' \in BOOLEAN
<1>1. frontier[a] \in Job BY DEF TypeOK
<1>2. NoJob \in Job BY DEF NoJob, Job
<1>3. Ended(c, a, frontier[a].amount) \in [Code -> [Addr -> Nat]]
  BY <1>1, EndedType DEF TypeOK, Job
<1> QED BY <1>2, <1>3 DEF EndJob, Dequeued, TypeOK

LEMMA ShareType ==
  ASSUME TypeOK, NEW t \in Tx
  PROVE  /\ Share(t) \in Nat
         /\ Share(t) <= avail[t] /\ Share(t) <= now.left
         /\ Share(t) \in {avail[t], now.left}
  BY MinOfTwo DEF TypeOK, Share

LEMMA InitType == Init => TypeOK /\ Placed
<1> SUFFICES ASSUME Init PROVE TypeOK /\ Placed
  OBVIOUS
<1>1. /\ chain \in [Tx -> Spend]
      /\ starts \in Seq([to : Addr, amount : Nat \ {0}])
  BY FlowAssumption DEF Init
<1>2. NoJob \in Job BY DEF NoJob, Job
<1>3. /\ frontier \in [Addr -> Job]
      /\ now \in [node : Addr \cup {Origin}, cp : Nat, depth : Nat, left : Nat,
                  legs : SUBSET Tx, satisfied : BOOLEAN, exhausted : BOOLEAN]
      /\ Placed
  BY <1>2 DEF Init, Idle, Placed
<1>4. \A t \in Tx : chain[t].amount \in Nat
  BY <1>1 DEF Spend
<1>5. avail \in [Tx -> Nat] BY <1>4 DEF Init
<1>6. ledger \in [Code -> [Addr -> Nat]] BY DEF Init
<1> QED BY <1>1, <1>3, <1>5, <1>6 DEF Init, TypeOK

LEMMA StartBranchType ==
  TypeOK /\ Placed /\ StartBranch => TypeOK' /\ Placed'
<1> SUFFICES ASSUME TypeOK, Placed, StartBranch PROVE TypeOK' /\ Placed'
  OBVIOUS
<1> DEFINE b == Head(starts)
           j == [amount |-> b.amount, cp |-> 0, depth |-> 0, via |-> Origin]
<1>1. /\ b \in [to : Addr, amount : Nat \ {0}]
      /\ starts' \in Seq([to : Addr, amount : Nat \ {0}])
  <2>1. starts \in Seq([to : Addr, amount : Nat \ {0}]) /\ starts # <<>>
    BY DEF StartBranch, TypeOK
  <2>2. starts' = Tail(starts) BY DEF StartBranch
  <2>3. /\ Head(starts) \in [to : Addr, amount : Nat \ {0}]
        /\ Tail(starts) \in Seq([to : Addr, amount : Nat \ {0}])
    BY ONLY <2>1, HeadTailProperties
  <2> QED BY <2>2, <2>3
<1>2. j \in Job BY <1>1 DEF Job
<1>3. Connect(b.to, j) BY DEF StartBranch
<1>4. b.to \in Addr BY <1>1
<1> HIDE DEF b, j
<1> QED
  BY <1>1, <1>2, <1>3, <1>4, ConnectType
  DEF StartBranch, TypeOK, Placed, counts, gates, reads, tally

\* A node that ends the walk does so for one of four reasons.
LEMMA NodeStopCode ==
  ASSUME TypeOK, NEW a \in Addr, NodeStop(a) # "none"
  PROVE  NodeStop(a) \in {"sink", "protocol", "hub", "read_failed"}
<1>1. stop[a] \in {"none", "sink", "protocol", "hub", "read_failed"}
  BY DEF TypeOK
<1>2. Label[a] \in {"none", "sink", "protocol"}
  BY FlowAssumption
<1> QED BY <1>1, <1>2 DEF NodeStop

LEMMA ExpandNextType ==
  ASSUME TypeOK, Placed, NEW a \in Addr, ExpandNext(a)
  PROVE  TypeOK' /\ Placed'
<1>0. /\ NodeStop(a) \in {"none", "sink", "protocol", "hub", "read_failed"}
      /\ frontier[a] \in Job
  BY FlowAssumption DEF NodeStop, TypeOK
<1>1. CASE StopAtNode(a)
  <2>1. NodeStop(a) \in Code BY <1>0, <1>1 DEF StopAtNode, Code
  <2>2. EndJob(a, NodeStop(a)) BY <1>1 DEF StopAtNode
  <2>3. stop' \in [Addr -> {"none", "sink", "protocol", "hub", "read_failed"}]
    BY <1>0, <1>1 DEF StopAtNode, TypeOK
  <2> QED
    BY <1>1, <2>1, <2>2, <2>3, EndJobType
    DEF StopAtNode, EndJob, TypeOK, Placed, counts, reads, graph
<1>2. CASE StopAtLimit(a)
  <2>1. EndJob(a, "budget") /\ "budget" \in Code BY <1>2 DEF StopAtLimit, Code
  <2> QED
    BY <1>2, <2>1, EndJobType
    DEF StopAtLimit, EndJob, TypeOK, Placed, counts, gates, reads, graph
<1>3. CASE StopAtHub(a)
  <2>1. PICK c \in {"hub", "read_failed"} :
          /\ stop' = [stop EXCEPT ![a] = c]
          /\ EndJob(a, c)
    BY <1>3 DEF StopAtHub
  <2>2. c \in Code BY DEF Code
  <2> QED
    BY <1>3, <2>1, <2>2, EndJobType
    DEF StopAtHub, EndJob, TypeOK, Placed, counts, reads, graph
<1>4. CASE SearchFails(a)
  <2>1. EndJob(a, "read_failed") /\ "read_failed" \in Code
    BY <1>4 DEF SearchFails, Code
  <2> QED
    BY <1>4, <2>1, EndJobType
    DEF SearchFails, EndJob, TypeOK, Placed, counts, reads, graph
<1>5. CASE FindNothing(a)
  <2>1. EndJob(a, NoSpendCode(a)) /\ NoSpendCode(a) \in Code
    BY <1>5 DEF FindNothing, NoSpendCode, Code
  <2>2. held' \in [Addr -> SUBSET Nat]
    BY <1>0, <1>5 DEF FindNothing, Hold, TypeOK, Job
  <2>3. /\ expanded' \subseteq Addr
        /\ expansions' \in [Addr -> Nat]
        /\ measured' \subseteq Addr
    BY <1>5 DEF FindNothing, MarkExpanded, TypeOK
  <2>4. unspent' \in [Addr -> Nat]
    <3>1. Keep(a, frontier[a].amount) /\ frontier[a].amount \in Nat
      BY <1>0, <1>5 DEF FindNothing, Job
    <3>2. unspent \in [Addr -> Nat] BY DEF TypeOK
    <3> QED BY <3>1, <3>2 DEF Keep
  <2> QED
    BY <1>5, <2>1, <2>2, <2>3, <2>4, EndJobType
    DEF FindNothing, EndJob, TypeOK, Placed, reads, graph
<1>6. CASE FindSpends(a)
  <2>1. Spends(a) \subseteq Tx BY DEF Spends, Hits, Page, Sent
  <2>2. /\ expanded' \subseteq Addr
        /\ expansions' \in [Addr -> Nat]
        /\ measured' \subseteq Addr
    BY <1>6 DEF FindSpends, MarkExpanded, TypeOK
  <2>3. /\ readTxs' \subseteq Tx
        /\ lost' \subseteq readTxs'
    BY <1>6, <2>1 DEF FindSpends, TypeOK
  <2>4. /\ Satisfied(a) \in BOOLEAN
        /\ Exhausted(a) \in BOOLEAN
    BY DEF Satisfied, Enough, Exhausted
  <2>5. /\ now' \in [node : Addr \cup {Origin}, cp : Nat, depth : Nat, left : Nat,
                     legs : SUBSET Tx, satisfied : BOOLEAN, exhausted : BOOLEAN]
        /\ now'.node \in Addr
    BY <1>0, <1>6, <2>1, <2>4 DEF FindSpends, Job
  <2>6. frontier' \in [Addr -> Job]
    BY <1>6 DEF FindSpends, Dequeued, TypeOK, NoJob, Job
  <2> QED
    BY <1>6, <2>2, <2>3, <2>5, <2>6 DEF FindSpends, TypeOK, Placed, graph, tally
<1> QED
  BY <1>1, <1>2, <1>3, <1>4, <1>5, <1>6 DEF ExpandNext

LEMMA DrawType ==
  ASSUME TypeOK, NEW t \in Tx, Draw(t, Share(t))
  PROVE  /\ avail' \in [Tx -> Nat]
         /\ drawn' \in [Tx -> Nat]
         /\ now' = [now EXCEPT !.left = @ - Share(t), !.legs = @ \ {t}]
         /\ now'.left = now.left - Share(t) /\ now'.left \in Nat
         /\ now' \in [node : Addr \cup {Origin}, cp : Nat, depth : Nat, left : Nat,
                      legs : SUBSET Tx, satisfied : BOOLEAN, exhausted : BOOLEAN]
<1> DEFINE n == Share(t)
<1>1. n \in Nat /\ n <= avail[t] /\ n <= now.left BY ShareType
<1>2. /\ now \in [node : Addr \cup {Origin}, cp : Nat, depth : Nat, left : Nat,
                  legs : SUBSET Tx, satisfied : BOOLEAN, exhausted : BOOLEAN]
      /\ avail \in [Tx -> Nat]
      /\ drawn \in [Tx -> Nat]
  BY DEF TypeOK
<1>3. /\ avail' = [avail EXCEPT ![t] = @ - n]
      /\ drawn' = [drawn EXCEPT ![t] = @ + n]
      /\ now' = [now EXCEPT !.left = @ - n, !.legs = @ \ {t}]
  BY DEF Draw
<1> HIDE DEF n
<1>4. /\ now.left - n \in Nat
      /\ avail[t] - n \in Nat
      /\ drawn[t] + n \in Nat
      /\ now.legs \ {t} \in SUBSET Tx
  BY <1>1, <1>2
<1>5. avail' \in [Tx -> Nat] /\ drawn' \in [Tx -> Nat]
  BY <1>2, <1>3, <1>4
<1>6. /\ now'.left = now.left - n
      /\ now' \in [node : Addr \cup {Origin}, cp : Nat, depth : Nat, left : Nat,
                   legs : SUBSET Tx, satisfied : BOOLEAN, exhausted : BOOLEAN]
  BY <1>2, <1>3, <1>4
<1> QED BY <1>3, <1>4, <1>5, <1>6 DEF n

LEMMA TakeLegType ==
  ASSUME TypeOK, Placed, NEW t \in Tx, TakeLeg(t)
  PROVE  TypeOK' /\ Placed'
<1>1. /\ avail' \in [Tx -> Nat]
      /\ drawn' \in [Tx -> Nat]
      /\ now' \in [node : Addr \cup {Origin}, cp : Nat, depth : Nat, left : Nat,
                   legs : SUBSET Tx, satisfied : BOOLEAN, exhausted : BOOLEAN]
      /\ now'.node = now.node
  BY DrawType DEF TakeLeg, TypeOK
<1>2. now.node \in Addr /\ Share(t) \in Nat
  BY ShareType DEF TakeLeg, Placed, Idle
<1>3. chain[t] \in Spend BY DEF TypeOK
<1>4. CASE EndLeg(t)
  <2> DEFINE code == IF t \in lost THEN "read_failed" ELSE chain[t].ending
  <2>1. code \in Code
    <3>1. CASE t \in lost BY <3>1 DEF Code
    <3>2. CASE t \notin lost
      <4>1. chain[t].ending # "pays" BY <1>4, <3>2 DEF EndLeg
      <4>2. chain[t].ending \in Ending BY <1>3 DEF Spend
      <4> QED BY <3>2, <4>1, <4>2 DEF Code, Ending
    <3> QED BY <3>1, <3>2
  <2>2. /\ ledger' = Ended(code, now.node, Share(t))
        /\ truncated' \in BOOLEAN
    BY <1>4 DEF EndLeg, TypeOK
  <2> HIDE DEF code
  <2>3. ledger' \in [Code -> [Addr -> Nat]]
    BY <1>2, <2>1, <2>2, EndedType DEF TypeOK
  <2> QED
    BY <1>1, <1>2, <1>4, <2>2, <2>3
    DEF TakeLeg, EndLeg, TypeOK, Placed, graph, counts, gates, reads
<1>5. CASE PassOn(t)
  <2> DEFINE j == [amount |-> Share(t), cp |-> chain[t].cp,
                   depth |-> now.depth + 1, via |-> now.node]
  <2>1. j \in Job
    <3>1. now.depth \in Nat BY DEF TypeOK
    <3> QED BY <1>2, <1>3, <3>1 DEF Job, Spend
  <2>2. chain[t].to \in Addr BY <1>3 DEF Spend
  <2>3. Connect(chain[t].to, j) BY <1>5 DEF PassOn
  <2> HIDE DEF j
  <2>4. passed' \in [Addr -> Nat] BY <1>2, <1>5 DEF PassOn, TypeOK
  <2> QED
    BY <1>1, <1>2, <1>5, <2>1, <2>2, <2>3, <2>4, ConnectType
    DEF TakeLeg, PassOn, TypeOK, Placed, counts, gates, reads
<1> QED BY <1>4, <1>5 DEF TakeLeg

LEMMA FinishExpansionType ==
  TypeOK /\ Placed /\ FinishExpansion => TypeOK' /\ Placed'
<1> SUFFICES ASSUME TypeOK, Placed, FinishExpansion PROVE TypeOK' /\ Placed'
  OBVIOUS
<1>1. now.node \in Addr /\ RestCode \in Code /\ now.left \in Nat
  BY DEF FinishExpansion, Placed, RestCode, Code, TypeOK
<1>2. now' = Idle
  BY DEF FinishExpansion
<1>3. /\ now' \in [node : Addr \cup {Origin}, cp : Nat, depth : Nat, left : Nat,
                   legs : SUBSET Tx, satisfied : BOOLEAN, exhausted : BOOLEAN]
      /\ Placed'
  BY <1>2 DEF Idle, Placed
<1>4. CASE now.left > 0
  <2>1. ledger' \in [Code -> [Addr -> Nat]]
    <3>1. ledger' = Ended(RestCode, now.node, now.left)
      BY <1>4 DEF FinishExpansion
    <3> QED BY <1>1, <3>1, EndedType DEF TypeOK
  <2>2. truncated' \in BOOLEAN
    BY <1>4 DEF FinishExpansion, TypeOK
  <2>3. held' \in [Addr -> SUBSET Nat]
    <3>1. Hold(now.node, RestCode, now.cp) BY <1>4 DEF FinishExpansion
    <3>2. now.cp \in Nat /\ held \in [Addr -> SUBSET Nat] BY DEF TypeOK
    <3> QED BY <1>1, <3>1, <3>2 DEF Hold
  <2>4. unspent' \in [Addr -> Nat]
    <3>1. unspent \in [Addr -> Nat] BY DEF TypeOK
    <3>2. Keep(now.node, now.left) \/ UNCHANGED unspent
      BY <1>4 DEF FinishExpansion
    <3> QED BY <1>1, <3>1, <3>2 DEF Keep
  <2> QED
    BY <1>3, <2>1, <2>2, <2>3, <2>4
    DEF FinishExpansion, TypeOK, graph, counts, gates, reads
<1>5. CASE ~(now.left > 0)
  BY <1>3, <1>5 DEF FinishExpansion, TypeOK, graph, counts, gates, reads
<1> QED BY <1>4, <1>5

LEMMA NextType == TypeOK /\ Placed /\ [Next]_vars => TypeOK' /\ Placed'
<1> SUFFICES ASSUME TypeOK, Placed, [Next]_vars PROVE TypeOK' /\ Placed'
  OBVIOUS
<1>1. CASE UNCHANGED vars
  BY <1>1 DEF vars, graph, counts, gates, reads, tally, TypeOK, Placed
<1> QED
  BY <1>1, StartBranchType, ExpandNextType, TakeLegType, FinishExpansionType
  DEF Next

\* The types, and that an expansion is always of an address.
THEOREM FlowTypeCorrect == Spec => [](TypeOK /\ Placed)
  BY InitType, NextType, PTL DEF Spec

-----------------------------------------------------------------------------
(* What a transaction moved.                                               *)

\* Only a leg attributes anything, and nothing rewrites the history.
LEMMA OnlyLegsDraw ==
  ASSUME [Next]_vars
  PROVE  /\ chain' = chain
         /\ \/ avail' = avail /\ drawn' = drawn
            \/ \E t \in Tx : TakeLeg(t)
<1>1. CASE UNCHANGED vars
  BY <1>1 DEF vars, tally
<1>2. CASE StartBranch
  BY <1>2 DEF StartBranch, tally
<1>3. ASSUME NEW a \in Addr, ExpandNext(a)
      PROVE  chain' = chain /\ avail' = avail /\ drawn' = drawn
  BY <1>3
  DEF ExpandNext, StopAtNode, StopAtLimit, StopAtHub, SearchFails, FindNothing,
      FindSpends, EndJob, tally
<1>4. CASE \E t \in Tx : TakeLeg(t)
  BY <1>4 DEF TakeLeg
<1>5. CASE FinishExpansion
  BY <1>5 DEF FinishExpansion
<1> QED BY <1>1, <1>2, <1>3, <1>4, <1>5 DEF Next

\* What a leg takes from its transaction is what it adds to it, and no more than
\* it had.
LEMMA DrawMoves ==
  ASSUME TypeOK, NEW t \in Tx, TakeLeg(t), NEW u \in Tx
  PROVE  /\ u # t => avail'[u] = avail[u] /\ drawn'[u] = drawn[u]
         /\ avail'[t] = avail[t] - Share(t)
         /\ drawn'[t] = drawn[t] + Share(t)
         /\ avail'[u] <= avail[u]
<1>1. /\ avail' = [avail EXCEPT ![t] = @ - Share(t)]
      /\ drawn' = [drawn EXCEPT ![t] = @ + Share(t)]
  BY DEF TakeLeg, Draw
<1>2. avail \in [Tx -> Nat] /\ drawn \in [Tx -> Nat] BY DEF TypeOK
<1>3. Share(t) \in Nat BY ShareType
<1> QED BY <1>1, <1>2, <1>3

\* No transaction is attributed more than it moved, over any history, however
\* often its sender is expanded (RemainingEntry, allocateFifo).
THEOREM FlowTraced == Spec => []TracedWithinMoved
<1>1. Init => TracedWithinMoved
  <2> SUFFICES ASSUME Init, NEW t \in Tx
               PROVE  drawn[t] + avail[t] = chain[t].amount
    BY DEF TracedWithinMoved
  <2>1. chain[t].amount \in Nat
    BY InitType DEF TypeOK, Spend
  <2> QED BY <2>1 DEF Init
<1>2. TypeOK /\ TracedWithinMoved /\ [Next]_vars => TracedWithinMoved'
  <2> SUFFICES ASSUME TypeOK, TracedWithinMoved, [Next]_vars, NEW u \in Tx
               PROVE  drawn'[u] + avail'[u] = chain'[u].amount
    BY DEF TracedWithinMoved
  <2>1. CASE avail' = avail /\ drawn' = drawn
    BY <2>1, OnlyLegsDraw DEF TracedWithinMoved
  <2>2. ASSUME NEW t \in Tx, TakeLeg(t)
        PROVE  drawn'[u] + avail'[u] = drawn[u] + avail[u]
    <3>1. avail[u] \in Nat /\ drawn[u] \in Nat /\ Share(t) \in Nat
      BY ShareType DEF TypeOK
    <3>2. avail[t] \in Nat /\ drawn[t] \in Nat
      BY DEF TypeOK
    <3> QED BY <2>2, <3>1, <3>2, DrawMoves
  <2> QED BY <2>1, <2>2, OnlyLegsDraw DEF TracedWithinMoved
<1> QED BY <1>1, <1>2, FlowTypeCorrect, PTL DEF Spec

-----------------------------------------------------------------------------
(* The balance of a node.                                                  *)

LEMMA EndedNat ==
  ASSUME ledger \in [Code -> [Addr -> Nat]], NEW a \in Addr
  PROVE  EndedAt(a) \in Nat
<1>1. \A c \in Code : ledger[c][a] \in Nat BY SMT
<1> QED BY <1>1 DEF EndedAt, Code

\* Value that reaches a node is queued there or ends there: connect.
LEMMA ConnectBalance ==
  ASSUME TypeOK, NEW a \in Addr, NEW j \in Job, Connect(a, j), NEW b \in Addr
  PROVE  share'[b] - share[b] =
           (frontier'[b].amount - frontier[b].amount) + (EndedAt(b)' - EndedAt(b))
<1>1. /\ j.amount \in Nat
      /\ frontier[b] \in Job /\ frontier[b].amount \in Nat
      /\ share[b] \in Nat
      /\ EndedAt(b) \in Nat
      /\ ledger \in [Code -> [Addr -> Nat]]
      /\ share \in [Addr -> Nat] /\ frontier \in [Addr -> Job]
  BY EndedNat DEF TypeOK, Job
<1>2. CASE Prune(a, j)
  <2>1. /\ ledger' = Ended("below_threshold", a, j.amount)
        /\ share' = share /\ frontier' = frontier
    BY <1>2 DEF Prune, graph
  <2>2. EndedAt(b)' = EndedAt(b) + 0
    <3>1. "below_threshold" \in Code BY DEF Code
    <3> QED BY <1>1, <2>1, <3>1, EndedSum
  <2> QED BY <1>1, <2>1, <2>2
<1>3. ASSUME Reach(a, j)
      PROVE  share'[b] - share[b] = IF b = a THEN j.amount ELSE 0
  BY <1>1, <1>3 DEF Reach
<1>4. CASE Reach(a, j) /\ CloseCycle(a, j)
  <2>1. /\ ledger' = Ended("cycle", a, j.amount)
        /\ frontier' = frontier
    BY <1>4 DEF CloseCycle
  <2>2. EndedAt(b)' = EndedAt(b) + (IF b = a THEN j.amount ELSE 0)
    <3>1. "cycle" \in Code BY DEF Code
    <3>2. EndedAt(b)' =
            EndedAt(b) + (IF b = a /\ "cycle" # "below_threshold" THEN j.amount ELSE 0)
      BY <1>1, <2>1, <3>1, EndedSum
    <3> QED BY <3>2
  <2>3. EndedAt(b)' - EndedAt(b) = IF b = a THEN j.amount ELSE 0
    BY <1>1, <2>2
  <2>4. frontier'[b].amount - frontier[b].amount = 0
    BY <1>1, <2>1
  <2>5. share'[b] - share[b] = IF b = a THEN j.amount ELSE 0
    BY <1>3, <1>4
  <2> QED BY <1>1, <2>3, <2>4, <2>5
<1>5. CASE Reach(a, j) /\ Queue(a, j)
  <2>1. /\ frontier' = [frontier EXCEPT ![a] = Joined(a, j)]
        /\ ledger' = ledger
    BY <1>5 DEF Queue
  <2>2. EndedAt(b)' = EndedAt(b) BY <2>1 DEF EndedAt
  <2>3. Joined(a, j).amount = frontier[a].amount + j.amount
    BY <1>1, JoinedType
  <2>4. frontier'[b].amount - frontier[b].amount = IF b = a THEN j.amount ELSE 0
    BY <1>1, <2>1, <2>3
  <2>5. share'[b] - share[b] = IF b = a THEN j.amount ELSE 0
    BY <1>3, <1>5
  <2> QED BY <1>1, <2>2, <2>4, <2>5
<1> QED BY <1>2, <1>4, <1>5 DEF Connect

\* An expansion that is not under way has nothing in hand.
LEMMA InHandNat ==
  ASSUME TypeOK, NEW b \in Addr
  PROVE  InHand(b) \in Nat /\ (now = Idle => InHand(b) = 0)
  BY FlowAssumption DEF InHand, TypeOK, Idle

\* What a job carried ends at its node, all of it.
LEMMA EndJobBalance ==
  ASSUME TypeOK, NEW a \in Addr, NEW c \in Code, c # "below_threshold",
         EndJob(a, c), NEW b \in Addr
  PROVE  frontier'[b].amount + EndedAt(b)' = frontier[b].amount + EndedAt(b)
<1>1. /\ frontier \in [Addr -> Job]
      /\ frontier[a].amount \in Nat
      /\ frontier[b].amount \in Nat
      /\ EndedAt(b) \in Nat
      /\ ledger \in [Code -> [Addr -> Nat]]
  BY EndedNat DEF TypeOK, Job
<1>2. /\ frontier' = [frontier EXCEPT ![a] = NoJob]
      /\ ledger' = Ended(c, a, frontier[a].amount)
  BY DEF EndJob, Dequeued
<1>3. EndedAt(b)' = EndedAt(b) + (IF b = a THEN frontier[a].amount ELSE 0)
  BY <1>1, <1>2, EndedSum
<1>4. frontier'[b].amount = IF b = a THEN 0 ELSE frontier[b].amount
  BY <1>1, <1>2 DEF NoJob
<1>5. CASE b = a BY <1>1, <1>3, <1>4, <1>5
<1>6. CASE b # a BY <1>1, <1>3, <1>4, <1>6
<1> QED BY <1>5, <1>6

LEMMA StartBranchBalance ==
  TypeOK /\ NodeBalance /\ StartBranch => NodeBalance'
<1> SUFFICES ASSUME TypeOK, NodeBalance, StartBranch, NEW b \in Addr
             PROVE  share'[b] = frontier'[b].amount + InHand(b)' + EndedAt(b)' + passed'[b]
  BY DEF NodeBalance
<1> DEFINE h == Head(starts)
           j == [amount |-> h.amount, cp |-> 0, depth |-> 0, via |-> Origin]
<1>1. h \in [to : Addr, amount : Nat \ {0}]
  <2>1. starts \in Seq([to : Addr, amount : Nat \ {0}]) /\ starts # <<>>
    BY DEF StartBranch, TypeOK
  <2>2. Head(starts) \in [to : Addr, amount : Nat \ {0}]
    BY ONLY <2>1, HeadTailProperties
  <2> QED BY <2>2
<1>2. j \in Job /\ h.to \in Addr BY <1>1 DEF Job
<1>3. Connect(h.to, j) BY DEF StartBranch
<1> HIDE DEF h, j
<1>4. share'[b] - share[b] =
        (frontier'[b].amount - frontier[b].amount) + (EndedAt(b)' - EndedAt(b))
  BY <1>2, <1>3, ConnectBalance
<1>5. InHand(b)' = InHand(b) /\ passed'[b] = passed[b]
  BY DEF StartBranch, InHand, tally
<1>6. /\ share[b] = frontier[b].amount + InHand(b) + EndedAt(b) + passed[b]
      /\ share[b] \in Nat /\ frontier[b].amount \in Nat /\ EndedAt(b) \in Nat
      /\ InHand(b) \in Nat /\ passed[b] \in Nat
  BY EndedNat, InHandNat DEF NodeBalance, TypeOK, Job
<1>7. share'[b] \in Nat /\ frontier'[b].amount \in Nat /\ EndedAt(b)' \in Nat
  <2>1. /\ share' \in [Addr -> Nat]
        /\ frontier' \in [Addr -> Job]
        /\ ledger' \in [Code -> [Addr -> Nat]]
    BY <1>2, <1>3, ConnectType
  <2>2. \A c \in Code : ledger'[c][b] \in Nat BY <2>1, SMT
  <2> QED BY <2>1, <2>2 DEF EndedAt, Code, Job
<1> DEFINE s0 == share[b]           s1 == share'[b]
           f0 == frontier[b].amount f1 == frontier'[b].amount
           h0 == InHand(b)          h1 == InHand(b)'
           e0 == EndedAt(b)         e1 == EndedAt(b)'
           p0 == passed[b]          p1 == passed'[b]
<1>8. /\ s0 \in Nat /\ f0 \in Nat /\ h0 \in Nat /\ e0 \in Nat /\ p0 \in Nat
      /\ s1 \in Nat /\ f1 \in Nat /\ e1 \in Nat
      /\ h1 = h0 /\ p1 = p0
  BY <1>5, <1>6, <1>7
<1>9. s0 = f0 + h0 + e0 + p0 /\ s1 - s0 = (f1 - f0) + (e1 - e0)
  BY <1>4, <1>6
<1> HIDE DEF s0, s1, f0, f1, h0, h1, e0, e1, p0, p1
<1>10. s1 = f1 + h1 + e1 + p1
  BY <1>8, <1>9
<1> QED BY <1>10 DEF s1, f1, h1, e1, p1

LEMMA ExpandNextBalance ==
  ASSUME TypeOK, NodeBalance, NEW a \in Addr, ExpandNext(a)
  PROVE  NodeBalance'
<1> SUFFICES ASSUME NEW b \in Addr
             PROVE  share'[b] = frontier'[b].amount + InHand(b)' + EndedAt(b)' + passed'[b]
  BY DEF NodeBalance
<1>1. /\ share[b] = frontier[b].amount + InHand(b) + EndedAt(b) + passed[b]
      /\ share[b] \in Nat /\ frontier[b].amount \in Nat /\ EndedAt(b) \in Nat
      /\ InHand(b) \in Nat /\ passed[b] \in Nat
      /\ frontier[a].amount \in Nat
  BY EndedNat, InHandNat DEF NodeBalance, TypeOK, Job
<1>2. ASSUME NEW c \in Code, c # "below_threshold", EndJob(a, c)
      PROVE  share'[b] = frontier'[b].amount + InHand(b)' + EndedAt(b)' + passed'[b]
  <2>1. /\ share' = share /\ passed' = passed
        /\ InHand(b)' = InHand(b)
    BY <1>2 DEF EndJob, graph, InHand
  <2>2. frontier'[b].amount + EndedAt(b)' = frontier[b].amount + EndedAt(b)
    BY <1>2, EndJobBalance
  <2>3. frontier'[b].amount \in Nat /\ EndedAt(b)' \in Nat
    <3>1. frontier' \in [Addr -> Job] /\ ledger' \in [Code -> [Addr -> Nat]]
      BY <1>2, EndJobType
    <3>2. \A d \in Code : ledger'[d][b] \in Nat BY <3>1, SMT
    <3> QED BY <3>1, <3>2 DEF EndedAt, Code, Job
  <2> QED BY <1>1, <2>1, <2>2, <2>3
<1>3. CASE StopAtNode(a)
  <2>1. EndJob(a, NodeStop(a)) BY <1>3 DEF StopAtNode
  <2>2. NodeStop(a) \in {"sink", "protocol", "hub", "read_failed"}
    BY <1>3, NodeStopCode DEF StopAtNode
  <2> QED BY <1>2, <2>1, <2>2 DEF Code
<1>4. CASE StopAtLimit(a)
  BY <1>2, <1>4 DEF StopAtLimit, Code
<1>5. CASE StopAtHub(a)
  BY <1>2, <1>5 DEF StopAtHub, Code
<1>6. CASE SearchFails(a)
  BY <1>2, <1>6 DEF SearchFails, Code
<1>7. CASE FindNothing(a)
  <2>1. EndJob(a, NoSpendCode(a)) BY <1>7 DEF FindNothing
  <2> QED BY <1>2, <2>1 DEF NoSpendCode, Code
<1>8. CASE FindSpends(a)
  <2>1. /\ share' = share /\ passed' = passed /\ ledger' = ledger
        /\ frontier' = [frontier EXCEPT ![a] = NoJob]
        /\ now = Idle
        /\ now'.node = a /\ now'.left = frontier[a].amount
    BY <1>8 DEF FindSpends, graph, tally, Dequeued, Open, Picked
  <2>2. EndedAt(b)' = EndedAt(b) BY <2>1 DEF EndedAt
  <2>3. InHand(b) = 0 BY <2>1, InHandNat
  <2>4. InHand(b)' = IF b = a THEN frontier[a].amount ELSE 0
    BY <2>1 DEF InHand
  <2>5. frontier'[b].amount = IF b = a THEN 0 ELSE frontier[b].amount
    BY <2>1 DEF NoJob, TypeOK
  <2> QED BY <1>1, <2>1, <2>2, <2>3, <2>4, <2>5
<1> QED BY <1>3, <1>4, <1>5, <1>6, <1>7, <1>8 DEF ExpandNext

LEMMA TakeLegBalance ==
  ASSUME TypeOK, Placed, NodeBalance, NEW t \in Tx, TakeLeg(t)
  PROVE  NodeBalance'
<1> SUFFICES ASSUME NEW b \in Addr
             PROVE  share'[b] = frontier'[b].amount + InHand(b)' + EndedAt(b)' + passed'[b]
  BY DEF NodeBalance
<1> DEFINE n == Share(t)
<1>1. /\ share[b] = frontier[b].amount + InHand(b) + EndedAt(b) + passed[b]
      /\ share[b] \in Nat /\ frontier[b].amount \in Nat /\ EndedAt(b) \in Nat
      /\ InHand(b) \in Nat /\ passed[b] \in Nat
  BY EndedNat, InHandNat DEF NodeBalance, TypeOK, Job
<1>2. n \in Nat /\ now.left \in Nat /\ now.node \in Addr
  <2>1. n \in Nat /\ now.left \in Nat BY ShareType DEF TypeOK
  <2>2. t \in now.legs BY DEF TakeLeg
  <2>3. now # Idle BY <2>2 DEF Idle
  <2> QED BY <2>1, <2>3 DEF Placed
<1>3. InHand(b)' = IF b = now.node THEN InHand(b) - n ELSE InHand(b)
  <2>1. now'.left = now.left - n /\ now'.node = now.node
    BY DrawType DEF TakeLeg, TypeOK
  <2> QED BY <2>1 DEF InHand
<1>4. TypeOK' BY TakeLegType
<1>5. share'[b] \in Nat /\ frontier'[b].amount \in Nat /\ EndedAt(b)' \in Nat
  <2>1. ledger' \in [Code -> [Addr -> Nat]] /\ frontier' \in [Addr -> Job]
    BY <1>4 DEF TypeOK
  <2>2. \A d \in Code : ledger'[d][b] \in Nat BY <2>1, SMT
  <2>3. EndedAt(b)' \in Nat BY <2>2 DEF EndedAt, Code
  <2>4. frontier'[b].amount \in Nat BY <2>1 DEF Job
  <2>5. share'[b] \in Nat BY <1>4 DEF TypeOK
  <2> QED BY <2>3, <2>4, <2>5
<1> HIDE DEF n
<1>6. CASE EndLeg(t)
  <2> DEFINE code == IF t \in lost THEN "read_failed" ELSE chain[t].ending
  <2>1. code \in Code /\ code # "below_threshold"
    <3>1. CASE t \in lost BY <3>1 DEF Code
    <3>2. CASE t \notin lost
      <4>1. chain[t].ending # "pays" BY <1>6, <3>2 DEF EndLeg
      <4>2. chain[t].ending \in Ending BY DEF Spend, TypeOK
      <4> QED BY <3>2, <4>1, <4>2 DEF Code, Ending
    <3> QED BY <3>1, <3>2
  <2>2. /\ ledger' = Ended(code, now.node, n)
        /\ share' = share /\ frontier' = frontier /\ passed' = passed
    BY <1>6 DEF EndLeg, graph, n
  <2>3. ledger \in [Code -> [Addr -> Nat]] BY DEF TypeOK
  <2> HIDE DEF code
  <2>4. EndedAt(b)' = EndedAt(b) + (IF b = now.node THEN n ELSE 0)
    BY <1>2, <2>1, <2>2, <2>3, EndedSum
  <2>5. CASE b = now.node BY <1>1, <1>2, <1>3, <2>2, <2>4, <2>5
  <2>6. CASE b # now.node BY <1>1, <1>2, <1>3, <2>2, <2>4, <2>6
  <2> QED BY <2>5, <2>6
<1>7. CASE PassOn(t)
  <2> DEFINE j == [amount |-> n, cp |-> chain[t].cp,
                   depth |-> now.depth + 1, via |-> now.node]
  <2>1. chain[t] \in Spend BY DEF TypeOK
  <2>2. j \in Job /\ chain[t].to \in Addr
    <3>1. now.depth + 1 \in Nat BY DEF TypeOK
    <3>2. chain[t].cp \in Nat /\ chain[t].to \in Addr BY <2>1 DEF Spend
    <3> QED BY <1>2, <3>1, <3>2 DEF Job
  <2>3. Connect(chain[t].to, j) BY <1>7 DEF PassOn, n
  <2>4. passed'[b] = IF b = now.node THEN passed[b] + n ELSE passed[b]
    BY <1>2, <1>7 DEF PassOn, TypeOK, n
  <2> HIDE DEF j
  <2>5. share'[b] - share[b] =
          (frontier'[b].amount - frontier[b].amount) + (EndedAt(b)' - EndedAt(b))
    BY <2>2, <2>3, ConnectBalance
  <2> DEFINE s0 == share[b]           s1 == share'[b]
             f0 == frontier[b].amount f1 == frontier'[b].amount
             h0 == InHand(b)          h1 == InHand(b)'
             e0 == EndedAt(b)         e1 == EndedAt(b)'
             p0 == passed[b]          p1 == passed'[b]
  <2>6. /\ s0 \in Nat /\ f0 \in Nat /\ h0 \in Nat /\ e0 \in Nat /\ p0 \in Nat
        /\ s1 \in Nat /\ f1 \in Nat /\ e1 \in Nat
    BY <1>1, <1>5
  <2>7. s0 = f0 + h0 + e0 + p0 /\ s1 - s0 = (f1 - f0) + (e1 - e0)
    BY <1>1, <2>5
  <2>8. \/ h1 = h0 /\ p1 = p0
        \/ h1 = h0 - n /\ p1 = p0 + n
    BY <1>3, <2>4
  <2> HIDE DEF s0, s1, f0, f1, h0, h1, e0, e1, p0, p1
  <2>9. s1 = f1 + h1 + e1 + p1
    BY <1>2, <2>6, <2>7, <2>8
  <2> QED BY <2>9 DEF s1, f1, h1, e1, p1
<1> QED BY <1>6, <1>7 DEF TakeLeg

LEMMA FinishExpansionBalance ==
  ASSUME TypeOK, Placed, NodeBalance, FinishExpansion
  PROVE  NodeBalance'
<1> SUFFICES ASSUME NEW b \in Addr
             PROVE  share'[b] = frontier'[b].amount + InHand(b)' + EndedAt(b)' + passed'[b]
  BY DEF NodeBalance
<1>1. /\ share[b] = frontier[b].amount + InHand(b) + EndedAt(b) + passed[b]
      /\ share[b] \in Nat /\ frontier[b].amount \in Nat /\ EndedAt(b) \in Nat
      /\ InHand(b) \in Nat /\ passed[b] \in Nat
  BY EndedNat, InHandNat DEF NodeBalance, TypeOK, Job
<1>2. /\ now.node \in Addr /\ now.left \in Nat
      /\ RestCode \in Code /\ RestCode # "below_threshold"
      /\ ledger \in [Code -> [Addr -> Nat]]
  BY DEF FinishExpansion, Placed, RestCode, Code, TypeOK
<1>3. /\ share' = share /\ frontier' = frontier /\ passed' = passed
      /\ now' = Idle
  BY DEF FinishExpansion, graph
<1>4. InHand(b)' = 0 BY <1>3, FlowAssumption DEF InHand, Idle
<1>5. InHand(b) = IF b = now.node THEN now.left ELSE 0 BY DEF InHand
<1>6. EndedAt(b)' = EndedAt(b) + InHand(b)
  <2>1. CASE now.left > 0
    <3>1. ledger' = Ended(RestCode, now.node, now.left)
      BY <2>1 DEF FinishExpansion
    <3>2. EndedAt(b)' = EndedAt(b) + (IF b = now.node THEN now.left ELSE 0)
      BY <1>2, <3>1, EndedSum
    <3> QED BY <1>5, <3>2
  <2>2. CASE ~(now.left > 0)
    <3>1. ledger' = ledger BY <2>2 DEF FinishExpansion
    <3>2. EndedAt(b)' = EndedAt(b) BY <3>1 DEF EndedAt
    <3>3. now.left = 0 BY <1>2, <2>2
    <3> QED BY <1>1, <1>5, <3>2, <3>3
  <2> QED BY <2>1, <2>2
<1> QED BY <1>1, <1>3, <1>4, <1>6

\* Every unit that reached an address is queued there, in hand, ended there or
\* passed on, for every history, limit and failure of a read.
THEOREM FlowNodeBalance == Spec => []NodeBalance
<1>1. Init => NodeBalance
  <2> SUFFICES ASSUME Init, NEW b \in Addr
               PROVE  share[b] = frontier[b].amount + InHand(b) + EndedAt(b) + passed[b]
    BY DEF NodeBalance
  <2>1. InHand(b) = 0 BY FlowAssumption DEF Init, InHand, Idle
  <2>2. \A c \in Code : ledger[c][b] = 0 BY DEF Init
  <2>3. EndedAt(b) = 0 BY <2>2 DEF EndedAt, Code
  <2> QED BY <2>1, <2>3 DEF Init, NoJob
<1>2. TypeOK /\ Placed /\ NodeBalance /\ [Next]_vars => NodeBalance'
  <2> SUFFICES ASSUME TypeOK, Placed, NodeBalance, [Next]_vars PROVE NodeBalance'
    OBVIOUS
  <2>1. CASE UNCHANGED vars
    BY <2>1 DEF vars, graph, tally, NodeBalance, InHand, EndedAt
  <2> QED
    BY <2>1, StartBranchBalance, ExpandNextBalance, TakeLegBalance,
       FinishExpansionBalance
    DEF Next
<1> QED BY <1>1, <1>2, FlowTypeCorrect, PTL DEF Spec

-----------------------------------------------------------------------------
(* When value leaves.                                                      *)

\* Value that waits at an address, or is being followed from it, arrived there
\* by the checkpoint it is followed from; the legs of a search are later.
Arrived(a, cp) == \E c \in arrivals[a] : c <= cp

ArrivalInv ==
  /\ \A a \in Addr : Queued(a) => Arrived(a, frontier[a].cp)
  /\ now # Idle => Arrived(now.node, now.cp)
  /\ \A t \in now.legs : chain[t].from = now.node /\ now.cp <= chain[t].cp
  /\ NothingLeavesBeforeItArrives

\* Reaching an address keeps every arrival, and records the one it queues.
LEMMA ConnectArrives ==
  ASSUME TypeOK, NEW a \in Addr, NEW j \in Job, Connect(a, j)
  PROVE  /\ \A b \in Addr : arrivals[b] \subseteq arrivals'[b]
         /\ (\A b \in Addr : Queued(b) => Arrived(b, frontier[b].cp))
              => (\A b \in Addr : Queued(b)' => Arrived(b, frontier[b].cp)')
<1>1. arrivals \in [Addr -> SUBSET Nat] /\ frontier \in [Addr -> Job] /\ j.cp \in Nat
  BY DEF TypeOK, Job
<1>2. CASE Prune(a, j)
  BY <1>2 DEF Prune, graph, Queued, Arrived
<1>3. ASSUME Reach(a, j)
      PROVE  arrivals' = [arrivals EXCEPT ![a] = @ \cup {j.cp}]
  BY <1>3 DEF Reach
<1>4. ASSUME Reach(a, j)
      PROVE  /\ \A b \in Addr : arrivals[b] \subseteq arrivals'[b]
             /\ j.cp \in arrivals'[a]
  BY <1>1, <1>3, <1>4
<1>5. CASE Reach(a, j) /\ CloseCycle(a, j)
  <2>1. frontier' = frontier BY <1>5 DEF CloseCycle
  <2> QED BY <1>4, <1>5, <2>1 DEF Queued, Arrived
<1>6. CASE Reach(a, j) /\ Queue(a, j)
  <2>1. frontier' = [frontier EXCEPT ![a] = Joined(a, j)]
    BY <1>6 DEF Queue
  <2> SUFFICES ASSUME \A b \in Addr : Queued(b) => Arrived(b, frontier[b].cp),
                      NEW b \in Addr, Queued(b)'
               PROVE  Arrived(b, frontier[b].cp)'
    BY <1>4, <1>6
  <2>2. CASE b # a
    <3>1. frontier'[b] = frontier[b] BY <1>1, <2>1, <2>2
    <3> QED BY <1>4, <1>6, <3>1, <2>2 DEF Queued, Arrived
  <2>3. CASE b = a /\ ~Queued(a)
    <3>1. frontier'[a] = j BY <1>1, <2>1, <2>3 DEF Joined
    <3> QED BY <1>1, <1>4, <1>6, <2>3, <3>1 DEF Arrived
  <2>4. CASE b = a /\ Queued(a)
    <3> DEFINE m == Min({frontier[a].cp, j.cp})
    <3>1. frontier[a] \in Job /\ frontier[a].cp \in Nat BY <1>1 DEF Job
    <3>2. m \in {frontier[a].cp, j.cp} BY <1>1, <3>1, MinOfTwo
    <3>3. Joined(a, j) = [frontier[a] EXCEPT !.amount = @ + j.amount, !.cp = m]
      BY <2>4 DEF Joined
    <3> HIDE DEF m
    <3>4. frontier'[a].cp = m BY <1>1, <2>1, <3>1, <3>3 DEF Job
    <3>5. CASE m = j.cp
      BY <1>1, <1>4, <1>6, <2>4, <3>4, <3>5 DEF Arrived
    <3>6. CASE m = frontier[a].cp
      BY <1>4, <1>6, <2>4, <3>4, <3>6 DEF Arrived
    <3> QED BY <3>2, <3>5, <3>6
  <2> QED BY <2>2, <2>3, <2>4
<1> QED BY <1>2, <1>5, <1>6 DEF Connect

\* Arrivals only grow, and a step that draws nothing leaves nothing earlier.
LEMMA StillArrived ==
  ASSUME TypeOK, NothingLeavesBeforeItArrives,
         \A b \in Addr : arrivals[b] \subseteq arrivals'[b],
         chain' = chain, drawn' = drawn
  PROVE  NothingLeavesBeforeItArrives'
<1> SUFFICES ASSUME NEW t \in Tx, drawn[t] > 0
             PROVE  \E cp \in arrivals'[chain[t].from] : cp <= chain[t].cp
  BY DEF NothingLeavesBeforeItArrives
<1>1. chain[t].from \in Addr BY DEF TypeOK, Spend
<1>2. PICK cp \in arrivals[chain[t].from] : cp <= chain[t].cp
  BY DEF NothingLeavesBeforeItArrives
<1> QED BY <1>1, <1>2

LEMMA InitArrival == Init => ArrivalInv
  BY DEF Init, ArrivalInv, NothingLeavesBeforeItArrives, Queued, NoJob, Idle

LEMMA StartBranchArrival ==
  ASSUME TypeOK, Placed, ArrivalInv, StartBranch
  PROVE  ArrivalInv'
<1> DEFINE h == Head(starts)
           j == [amount |-> h.amount, cp |-> 0, depth |-> 0, via |-> Origin]
<1>1. h \in [to : Addr, amount : Nat \ {0}]
  <2>1. starts \in Seq([to : Addr, amount : Nat \ {0}]) /\ starts # <<>>
    BY DEF StartBranch, TypeOK
  <2>2. Head(starts) \in [to : Addr, amount : Nat \ {0}]
    BY ONLY <2>1, HeadTailProperties
  <2> QED BY <2>2
<1>2. j \in Job /\ h.to \in Addr BY <1>1 DEF Job
<1>3. Connect(h.to, j) BY DEF StartBranch
<1> HIDE DEF h, j
<1>4. /\ \A b \in Addr : arrivals[b] \subseteq arrivals'[b]
      /\ \A b \in Addr : Queued(b)' => Arrived(b, frontier[b].cp)'
  BY <1>2, <1>3, ConnectArrives DEF ArrivalInv
<1>5. chain' = chain /\ now' = now /\ drawn' = drawn
  BY DEF StartBranch, tally
<1>6. now' # Idle => Arrived(now.node, now.cp)'
  BY <1>4, <1>5 DEF ArrivalInv, Arrived, Placed
<1>7. NothingLeavesBeforeItArrives'
  BY <1>4, <1>5, StillArrived DEF ArrivalInv
<1> QED BY <1>4, <1>5, <1>6, <1>7 DEF ArrivalInv

LEMMA ExpandNextArrival ==
  ASSUME TypeOK, Placed, ArrivalInv, NEW a \in Addr, ExpandNext(a)
  PROVE  ArrivalInv'
<1>1. frontier \in [Addr -> Job] BY DEF TypeOK
<1>2. /\ chain' = chain /\ drawn' = drawn /\ arrivals' = arrivals
      /\ frontier' = [frontier EXCEPT ![a] = NoJob]
  BY DEF ExpandNext, StopAtNode, StopAtLimit, StopAtHub, SearchFails, FindNothing,
         FindSpends, EndJob, graph, tally, Dequeued
<1>3. \A b \in Addr : Queued(b)' => Arrived(b, frontier[b].cp)'
  <2> SUFFICES ASSUME NEW b \in Addr, Queued(b)'
               PROVE  Arrived(b, frontier[b].cp)'
    OBVIOUS
  <2>1. b # a BY <1>1, <1>2 DEF Queued, NoJob
  <2>2. frontier'[b] = frontier[b] BY <1>1, <1>2, <2>1
  <2> QED BY <1>2, <2>2 DEF ArrivalInv, Queued, Arrived
<1>4. NothingLeavesBeforeItArrives'
  BY <1>2, StillArrived DEF ArrivalInv
<1>5. CASE now' = now
  BY <1>2, <1>3, <1>4, <1>5 DEF ArrivalInv, Arrived
<1>6. CASE FindSpends(a)
  <2>1. /\ now'.node = a /\ now'.cp = frontier[a].cp /\ now'.legs = Spends(a)
        /\ Queued(a)
    BY <1>6 DEF FindSpends, Open, Picked
  <2>2. Arrived(now.node, now.cp)'
    BY <1>2, <2>1 DEF ArrivalInv, Arrived
  <2>3. \A t \in Spends(a) : chain[t].from = a /\ chain[t].cp >= frontier[a].cp
    BY DEF Spends, Hits, Page, Sent
  <2>4. \A t \in now'.legs : chain[t].from = now'.node /\ now'.cp <= chain[t].cp
    BY <2>1, <2>3
  <2> QED BY <1>2, <1>3, <1>4, <2>2, <2>4 DEF ArrivalInv
<1> QED
  BY <1>5, <1>6
  DEF ExpandNext, StopAtNode, StopAtLimit, StopAtHub, SearchFails, FindNothing, EndJob

LEMMA TakeLegArrival ==
  ASSUME TypeOK, Placed, ArrivalInv, NEW t \in Tx, TakeLeg(t)
  PROVE  ArrivalInv'
<1>1. /\ t \in now.legs /\ now # Idle
      /\ chain' = chain
      /\ now'.node = now.node /\ now'.cp = now.cp /\ now'.legs \subseteq now.legs
  <2>1. t \in now.legs /\ chain' = chain BY DEF TakeLeg
  <2>2. now # Idle BY <2>1 DEF Idle
  <2>3. now' = [now EXCEPT !.left = @ - Share(t), !.legs = @ \ {t}]
    BY DEF TakeLeg, Draw
  <2> QED BY <2>1, <2>2, <2>3 DEF TypeOK
<1>2. now.node \in Addr BY <1>1 DEF Placed
<1>3. /\ \A b \in Addr : arrivals[b] \subseteq arrivals'[b]
      /\ \A b \in Addr : Queued(b)' => Arrived(b, frontier[b].cp)'
  <2>1. CASE EndLeg(t)
    BY <2>1 DEF EndLeg, graph, ArrivalInv, Queued, Arrived
  <2>2. CASE PassOn(t)
    <3> DEFINE j == [amount |-> Share(t), cp |-> chain[t].cp,
                     depth |-> now.depth + 1, via |-> now.node]
    <3>1. chain[t] \in Spend BY DEF TypeOK
    <3>2. now.depth + 1 \in Nat /\ Share(t) \in Nat
      <4>1. now.depth + 1 \in Nat BY DEF TypeOK
      <4> QED BY <4>1, ShareType
    <3>3. chain[t].cp \in Nat /\ chain[t].to \in Addr BY <3>1 DEF Spend
    <3>4. j \in Job BY <1>2, <3>2, <3>3 DEF Job
    <3>5. Connect(chain[t].to, j) BY <2>2 DEF PassOn
    <3> HIDE DEF j
    <3> QED BY <3>3, <3>4, <3>5, ConnectArrives DEF ArrivalInv
  <2> QED BY <2>1, <2>2 DEF TakeLeg
<1>4. Arrived(now.node, now.cp)'
  BY <1>1, <1>2, <1>3 DEF ArrivalInv, Arrived
<1>5. NothingLeavesBeforeItArrives'
  <2> SUFFICES ASSUME NEW u \in Tx, drawn'[u] > 0
               PROVE  \E cp \in arrivals'[chain[u].from] : cp <= chain[u].cp
    BY <1>1 DEF NothingLeavesBeforeItArrives
  <2>1. CASE u = t
    <3>1. chain[t].from = now.node /\ now.cp <= chain[t].cp
      BY <1>1 DEF ArrivalInv
    <3>2. PICK c \in arrivals'[now.node] : c <= now.cp
      BY <1>1, <1>4 DEF Arrived
    <3>3. c \in Nat /\ now.cp \in Nat /\ chain[t].cp \in Nat
      <4>1. arrivals' \in [Addr -> SUBSET Nat] BY TakeLegType DEF TypeOK
      <4>2. chain[t] \in Spend /\ now.cp \in Nat BY DEF TypeOK
      <4> QED BY <1>2, <3>2, <4>1, <4>2 DEF Spend
    <3> QED BY <2>1, <3>1, <3>2, <3>3
  <2>2. CASE u # t
    <3>1. drawn[u] > 0 BY <2>2, DrawMoves
    <3>2. chain[u].from \in Addr BY DEF TypeOK, Spend
    <3>3. PICK cp \in arrivals[chain[u].from] : cp <= chain[u].cp
      BY <3>1 DEF ArrivalInv, NothingLeavesBeforeItArrives
    <3> QED BY <1>3, <3>2, <3>3
  <2> QED BY <2>1, <2>2
<1>6. \A u \in now'.legs : chain'[u].from = now'.node /\ now'.cp <= chain'[u].cp
  BY <1>1 DEF ArrivalInv
<1> QED BY <1>3, <1>4, <1>5, <1>6 DEF ArrivalInv

\* A transaction carries value of the start only once some had arrived at its
\* sender, through every merge and re-expansion (scanForwardSpends).
THEOREM FlowFollowsTime == Spec => []NothingLeavesBeforeItArrives
<1>1. TypeOK /\ Placed /\ ArrivalInv /\ [Next]_vars => ArrivalInv'
  <2> SUFFICES ASSUME TypeOK, Placed, ArrivalInv, [Next]_vars PROVE ArrivalInv'
    OBVIOUS
  <2>1. CASE UNCHANGED vars
    BY <2>1
    DEF vars, graph, tally, ArrivalInv, Arrived, Queued, NothingLeavesBeforeItArrives
  <2>2. CASE FinishExpansion
    <3>1. /\ now' = Idle /\ frontier' = frontier /\ arrivals' = arrivals
          /\ chain' = chain /\ drawn' = drawn
      BY <2>2 DEF FinishExpansion, graph
    <3>2. Idle.legs = {} BY DEF Idle
    <3> QED
      BY <3>1, <3>2 DEF ArrivalInv, Arrived, Queued, NothingLeavesBeforeItArrives
  <2> QED
    BY <2>1, <2>2, StartBranchArrival, ExpandNextArrival, TakeLegArrival DEF Next
<1>2. ArrivalInv => NothingLeavesBeforeItArrives BY DEF ArrivalInv
<1> QED BY <1>1, <1>2, InitArrival, FlowTypeCorrect, PTL DEF Spec

-----------------------------------------------------------------------------
(* What is still held.                                                     *)

\* Nothing the address sent from the checkpoint on has value left, but for the
\* transactions of a search that are still to be taken.
Spent(a, cp, legs) ==
  \A t \in Tx :
    chain[t].from = a /\ cp <= chain[t].cp => avail[t] = 0 \/ t \in legs

\* A search that saw everything leaves nothing but its legs, while some of the
\* arrival is unaccounted for.
SearchedInv ==
  /\ now.exhausted /\ ~now.satisfied /\ now.left > 0
       => Spent(now.node, now.cp, now.legs)
  /\ UnspentIsHeld

\* A drained transaction stays drained.
LEMMA StaysSpent ==
  ASSUME TypeOK, [Next]_vars, NEW a, NEW cp, NEW legs, Spent(a, cp, legs)
  PROVE  \A t \in Tx :
           chain'[t].from = a /\ cp <= chain'[t].cp => avail'[t] = 0 \/ t \in legs
<1>1. chain' = chain BY OnlyLegsDraw
<1>2. CASE avail' = avail BY <1>1, <1>2 DEF Spent
<1>3. ASSUME NEW t \in Tx, TakeLeg(t), NEW u \in Tx, avail[u] = 0
      PROVE  avail'[u] = 0
  <2>1. CASE u # t BY <1>3, <2>1, DrawMoves
  <2>2. CASE u = t
    <3>1. Share(t) \in Nat /\ Share(t) <= avail[t] BY ShareType
    <3>2. Share(t) = 0 BY <1>3, <2>2, <3>1
    <3>3. avail'[t] = avail[t] - Share(t) BY <1>3, DrawMoves
    <3> QED BY <1>3, <2>2, <3>2, <3>3
  <2> QED BY <2>1, <2>2
<1> QED BY <1>1, <1>2, <1>3, OnlyLegsDraw DEF Spent

\* While nothing new is held, what is held stays so.
LEMMA StaysHeld ==
  ASSUME TypeOK, UnspentIsHeld, [Next]_vars, held' = held
  PROVE  UnspentIsHeld'
<1> SUFFICES ASSUME NEW a \in Addr, NEW cp \in held[a]
             PROVE  \A t \in Tx :
                      chain'[t].from = a /\ chain'[t].cp >= cp => avail'[t] = 0
  BY DEF UnspentIsHeld
<1>1. cp \in Nat BY DEF TypeOK
<1>2. \A t \in Tx : chain[t].cp \in Nat BY DEF TypeOK, Spend
<1>3. Spent(a, cp, {}) BY <1>1, <1>2 DEF UnspentIsHeld, Spent
<1>4. chain' = chain BY OnlyLegsDraw
<1> QED BY <1>1, <1>2, <1>3, <1>4, StaysSpent

\* A search that found nothing did not find enough.
LEMMA NothingIsNotEnough ==
  ASSUME TypeOK, NEW a \in Addr, Queued(a)
  PROVE  ~Enough(a, {})
<1>1. frontier[a].amount \in Nat \ {0} BY DEF TypeOK, Job, Queued
<1>2. Cardinality({}) = 0 BY FS_EmptySet
<1>3. MaxMoves(a) \in Nat \ {0} BY FlowAssumption DEF MaxMoves
<1>4. SumFunctionOnSet(avail, {}) = 0 BY SumEmpty
<1> QED BY <1>1, <1>2, <1>3, <1>4 DEF Enough

\* An exhausted search leaves nothing of its window but the spends it found.
LEMMA ExhaustedSearch ==
  ASSUME TypeOK, NEW a \in Addr, Exhausted(a)
  PROVE  Spent(a, frontier[a].cp, Spends(a))
<1> SUFFICES ASSUME NEW t \in Tx, chain[t].from = a, frontier[a].cp <= chain[t].cp,
                    t \notin Spends(a)
             PROVE  avail[t] = 0
  BY DEF Spent
<1>1. frontier[a].cp \in Nat /\ chain[t].cp \in Nat /\ avail[t] \in Nat
  BY DEF TypeOK, Job, Spend
<1>2. t \in Sent(a) BY <1>1 DEF Sent
<1>3. t \in Page(a) /\ t \notin Hits(a) BY <1>2 DEF Exhausted
<1> QED BY <1>1, <1>3 DEF Hits

\* A new arrival is held only if nothing sent since has value left.
LEMMA HoldsSpent ==
  ASSUME TypeOK, UnspentIsHeld, NEW a \in Addr, NEW code, NEW cp \in Nat,
         Hold(a, code, cp), code = "unspent" => Spent(a, cp, {}),
         chain' = chain, avail' = avail
  PROVE  UnspentIsHeld'
<1> SUFFICES ASSUME NEW b \in Addr, NEW c \in held'[b], NEW t \in Tx,
                    chain[t].from = b, chain[t].cp >= c
             PROVE  avail[t] = 0
  BY DEF UnspentIsHeld
<1>1. CASE c \in held[b] BY <1>1 DEF UnspentIsHeld
<1>2. CASE c \notin held[b]
  <2>1. held \in [Addr -> SUBSET Nat] /\ chain[t].cp \in Nat BY DEF TypeOK, Spend
  <2>2. code = "unspent" /\ b = a /\ c = cp
    BY <1>2, <2>1 DEF Hold
  <2> QED BY <2>1, <2>2 DEF Spent
<1> QED BY <1>1, <1>2

LEMMA ExpandNextHolds ==
  ASSUME TypeOK, SearchedInv, NEW a \in Addr, ExpandNext(a)
  PROVE  SearchedInv'
<1>1. now = Idle /\ Queued(a)
  BY DEF ExpandNext, StopAtNode, StopAtLimit, StopAtHub, SearchFails, FindNothing,
         FindSpends, Open, Picked
<1>2. chain' = chain /\ avail' = avail
  BY DEF ExpandNext, StopAtNode, StopAtLimit, StopAtHub, SearchFails, FindNothing,
         FindSpends, EndJob
<1>3. [Next]_vars BY DEF Next
<1>4. ~Idle.exhausted BY DEF Idle
<1>5. CASE StopAtNode(a) \/ StopAtLimit(a) \/ StopAtHub(a) \/ SearchFails(a)
  <2>1. held' = held /\ now' = now
    BY <1>5 DEF StopAtNode, StopAtLimit, StopAtHub, SearchFails, EndJob
  <2>2. UnspentIsHeld' BY <1>3, <2>1, StaysHeld DEF SearchedInv
  <2> QED BY <1>1, <1>4, <2>1, <2>2 DEF SearchedInv
<1>6. CASE FindNothing(a)
  <2>1. /\ Hold(a, NoSpendCode(a), frontier[a].cp)
        /\ Spends(a) = {} /\ now' = now
    BY <1>6 DEF FindNothing, EndJob
  <2>2. ~Satisfied(a) BY <1>1, <2>1, NothingIsNotEnough DEF Satisfied
  <2>3. NoSpendCode(a) = "unspent" => Spent(a, frontier[a].cp, {})
    BY <2>1, <2>2, ExhaustedSearch DEF NoSpendCode
  <2>4. frontier[a].cp \in Nat BY DEF TypeOK, Job
  <2>5. UnspentIsHeld' BY <1>2, <2>1, <2>3, <2>4, HoldsSpent DEF SearchedInv
  <2> QED BY <1>1, <1>4, <2>1, <2>5 DEF SearchedInv
<1>7. CASE FindSpends(a)
  <2>1. /\ held' = held
        /\ now'.node = a /\ now'.cp = frontier[a].cp
        /\ now'.legs = Spends(a) /\ now'.exhausted = Exhausted(a)
    BY <1>7 DEF FindSpends, tally
  <2>2. UnspentIsHeld' BY <1>3, <2>1, StaysHeld DEF SearchedInv
  <2>3. now'.exhausted => Spent(a, frontier[a].cp, Spends(a))
    BY <2>1, ExhaustedSearch
  <2>4. now'.exhausted => Spent(now.node, now.cp, now.legs)'
    BY <1>2, <2>1, <2>3 DEF Spent
  <2> QED BY <2>2, <2>4 DEF SearchedInv
<1> QED BY <1>5, <1>6, <1>7 DEF ExpandNext

LEMMA TakeLegHolds ==
  ASSUME TypeOK, SearchedInv, NEW t \in Tx, TakeLeg(t)
  PROVE  SearchedInv'
<1>1. [Next]_vars BY DEF Next
<1>2. UnspentIsHeld'
  <2>1. held' = held BY DEF TakeLeg
  <2> QED BY <1>1, <2>1, StaysHeld DEF SearchedInv
<1>3. /\ now' = [now EXCEPT !.left = @ - Share(t), !.legs = @ \ {t}]
      /\ now'.left = now.left - Share(t)
  BY DrawType DEF TakeLeg
<1>4. /\ now'.node = now.node /\ now'.cp = now.cp
      /\ now'.legs = now.legs \ {t}
      /\ now'.satisfied = now.satisfied /\ now'.exhausted = now.exhausted
  BY <1>3 DEF TypeOK
<1>5. ASSUME now'.exhausted, ~now'.satisfied, now'.left > 0
      PROVE  Spent(now.node, now.cp, now.legs)'
  <2>1. /\ now.left \in Nat /\ avail[t] \in Nat
        /\ Share(t) \in Nat /\ Share(t) \in {avail[t], now.left}
    BY ShareType DEF TypeOK
  <2>2. now.left > 0 /\ Share(t) = avail[t] BY <1>3, <1>5, <2>1
  <2>3. avail'[t] = 0
    <3>1. avail'[t] = avail[t] - Share(t) BY DrawMoves
    <3> QED BY <2>1, <2>2, <3>1
  <2>4. Spent(now.node, now.cp, now.legs)
    BY <1>4, <1>5, <2>2 DEF SearchedInv
  <2>5. \A u \in Tx : chain'[u].from = now.node /\ now.cp <= chain'[u].cp
                       => avail'[u] = 0 \/ u \in now.legs
    BY <1>1, <2>4, StaysSpent
  <2> QED BY <1>4, <2>3, <2>5 DEF Spent
<1> QED BY <1>2, <1>5 DEF SearchedInv

LEMMA FinishExpansionHolds ==
  ASSUME TypeOK, Placed, SearchedInv, FinishExpansion
  PROVE  SearchedInv'
<1>1. /\ now' = Idle /\ chain' = chain /\ avail' = avail
      /\ now.legs = {} /\ now.node \in Addr /\ now.cp \in Nat
  BY DEF FinishExpansion, Placed, TypeOK
<1>2. ~Idle.exhausted BY DEF Idle
<1>3. UnspentIsHeld'
  <2>1. CASE now.left > 0
    <3>1. Hold(now.node, RestCode, now.cp) BY <2>1 DEF FinishExpansion
    <3>2. RestCode = "unspent" => now.exhausted /\ ~now.satisfied
      BY DEF RestCode, TypeOK
    <3>3. RestCode = "unspent" => Spent(now.node, now.cp, {})
      BY <1>1, <2>1, <3>2 DEF SearchedInv
    <3> QED BY <1>1, <3>1, <3>3, HoldsSpent DEF SearchedInv
  <2>2. CASE ~(now.left > 0)
    <3>1. held' = held BY <2>2 DEF FinishExpansion
    <3> QED BY <3>1, StaysHeld DEF SearchedInv, Next
  <2> QED BY <2>1, <2>2
<1> QED BY <1>1, <1>2, <1>3 DEF SearchedInv

\* What is reported as still held is: no spend of the address since that value
\* arrived has value left to attribute, in any history (STOP_MEANING.unspent).
THEOREM FlowUnspentIsHeld == Spec => []UnspentIsHeld
<1>1. Init => SearchedInv
  BY DEF Init, SearchedInv, UnspentIsHeld, Idle
<1>2. TypeOK /\ Placed /\ SearchedInv /\ [Next]_vars => SearchedInv'
  <2> SUFFICES ASSUME TypeOK, Placed, SearchedInv, [Next]_vars PROVE SearchedInv'
    OBVIOUS
  <2>1. CASE UNCHANGED vars
    BY <2>1 DEF vars, tally, SearchedInv, Spent, UnspentIsHeld
  <2>2. CASE StartBranch
    BY <2>2 DEF StartBranch, tally, SearchedInv, Spent, UnspentIsHeld
  <2> QED
    BY <2>1, <2>2, ExpandNextHolds, TakeLegHolds, FinishExpansionHolds DEF Next
<1>3. SearchedInv => UnspentIsHeld BY DEF SearchedInv
<1> QED BY <1>1, <1>2, <1>3, FlowTypeCorrect, PTL DEF Spec

-----------------------------------------------------------------------------
(* What the start moved is kept.                                           *)

\* The units a ledger and a row of jobs hold.
Entered(l) == SumFunction([c \in Code |-> SumFunction(l[c])])
Waiting(f) == SumFunction(Carried(f))

LEMMA CodeFinite == IsFiniteSet(Code)
<1>1. \A x, y : IsFiniteSet({x, y})
  <2> SUFFICES ASSUME NEW x, NEW y PROVE IsFiniteSet({x, y})
    OBVIOUS
  <2>1. IsFiniteSet({x}) /\ {x, y} = {x} \cup {y}
    BY FS_Singleton
  <2> QED
    BY <2>1, FS_AddElement
<1>2. IsFiniteSet({"sink", "protocol"} \cup {"hub", "read_failed"})
  BY <1>1, FS_Union
<1>3. IsFiniteSet({"budget", "unspent"} \cup {"cycle", "below_threshold"})
  BY <1>1, FS_Union
<1>4. IsFiniteSet({"sink", "protocol"} \cup {"hub", "read_failed"}
                  \cup ({"budget", "unspent"} \cup {"cycle", "below_threshold"}))
  BY <1>2, <1>3, FS_Union
<1>5. IsFiniteSet({"sink", "protocol"} \cup {"hub", "read_failed"}
                  \cup ({"budget", "unspent"} \cup {"cycle", "below_threshold"})
                  \cup {"signer_not_sender", "consumed"})
  BY <1>1, <1>4, FS_Union
<1>6. Code = {"sink", "protocol"} \cup {"hub", "read_failed"}
             \cup ({"budget", "unspent"} \cup {"cycle", "below_threshold"})
             \cup {"signer_not_sender", "consumed"}
  BY DEF Code
<1> QED
  BY <1>5, <1>6

\* An entry adds its units to the ledger, and to nothing else.
LEMMA EndedEnters ==
  ASSUME ledger \in [Code -> [Addr -> Nat]],
         NEW c \in Code, NEW a \in Addr, NEW n \in Nat
  PROVE  /\ Entered(ledger) \in Int
         /\ Entered(Ended(c, a, n)) = Entered(ledger) + n
<1> DEFINE l == Ended(c, a, n)
           f == [d \in Code |-> SumFunction(ledger[d])]
           g == [d \in Code |-> SumFunction(l[d])]
<1>1. l \in [Code -> [Addr -> Nat]]
  BY EndedType
<1>2. \A d \in Code : d # c => l[d] = ledger[d]
  BY DEF Ended
<1>3. /\ l[c][a] = ledger[c][a] + n
      /\ \A b \in Addr : b # a => l[c][b] = ledger[c][b]
  BY DEF Ended
<1>4. IsFiniteSet(Addr) /\ Addr \in SUBSET Addr
  BY FlowAssumption
<1> HIDE DEF l
<1>5. ASSUME NEW k \in [Addr -> Nat]
      PROVE  SumFunction(k) = SumFunctionOnSet(k, Addr) /\ SumFunction(k) \in Int
  <2>1. SumFunction(k) = SumFunctionOnSet(k, Addr)
    BY DEF SumFunction
  <2>2. \A x \in Addr : k[x] \in Int
    OBVIOUS
  <2> QED
    BY <1>4, <2>1, <2>2, SumInt
<1>6. \A d \in Code : f[d] \in Int /\ g[d] \in Int
  BY <1>1, <1>5
<1>7. \A d \in Code : d # c => g[d] = f[d]
  BY <1>2
<1>8. g[c] - f[c] = n
  <2> DEFINE x == ledger[c]
             y == l[c]
  <2>1. x \in [Addr -> Nat] /\ y \in [Addr -> Nat]
    BY <1>1
  <2>2. y[a] = x[a] + n /\ \A b \in Addr : b # a => y[b] = x[b]
    BY <1>3
  <2>3. f[c] = SumFunctionOnSet(x, Addr) /\ g[c] = SumFunctionOnSet(y, Addr)
    BY <1>5, <2>1
  <2> HIDE DEF x, y
  <2>4. \A b \in Addr : x[b] \in Int /\ y[b] \in Int
    BY <2>1
  <2>5. SumFunctionOnSet(y, Addr) - SumFunctionOnSet(x, Addr) = y[a] - x[a]
    BY <1>4, <2>2, <2>4, SumChanges
  <2>6. y[a] - x[a] = n
    <3>1. x[a] \in Int BY <2>4
    <3> QED BY <2>2, <3>1
  <2> HIDE DEF f, g
  <2> QED
    BY <2>3, <2>5, <2>6
<1>9. DOMAIN f = Code /\ DOMAIN g = Code
  OBVIOUS
<1>10. Entered(ledger) = SumFunctionOnSet(f, Code) /\ Entered(l) = SumFunctionOnSet(g, Code)
  BY <1>9 DEF Entered, SumFunction
<1> HIDE DEF f, g
<1>11. /\ SumFunctionOnSet(f, Code) \in Int /\ SumFunctionOnSet(g, Code) \in Int
       /\ SumFunctionOnSet(g, Code) - SumFunctionOnSet(f, Code) = g[c] - f[c]
  BY <1>6, <1>7, CodeFinite, SumChanges
<1>12. Entered(l) = Entered(ledger) + n
  BY <1>8, <1>10, <1>11
<1> QED
  BY <1>10, <1>11, <1>12 DEF l

\* The job of one address changes.
LEMMA JobChanges ==
  ASSUME NEW f \in [Addr -> Job], NEW a \in Addr, NEW j \in Job
  PROVE  /\ Waiting(f) \in Int
         /\ Waiting([f EXCEPT ![a] = j]) = Waiting(f) - f[a].amount + j.amount
<1> DEFINE g == [f EXCEPT ![a] = j]
           x == Carried(f)
           y == Carried(g)
<1>1. g \in [Addr -> Job]
  OBVIOUS
<1>2. IsFiniteSet(Addr)
  BY FlowAssumption
<1>3. DOMAIN x = Addr /\ DOMAIN y = Addr
  BY <1>1 DEF Carried
<1>4. /\ \A b \in Addr : x[b] = f[b].amount /\ y[b] = g[b].amount
      /\ \A b \in Addr : x[b] \in Int /\ y[b] \in Int
  BY <1>1 DEF Carried, Job
<1>5. g[a] = j /\ \A b \in Addr : b # a => g[b] = f[b]
  OBVIOUS
<1>6. Waiting(f) = SumFunctionOnSet(x, Addr) /\ Waiting(g) = SumFunctionOnSet(y, Addr)
  BY <1>3 DEF Waiting, SumFunction
<1> HIDE DEF x, y, g
<1>7. \A b \in Addr : b # a => y[b] = x[b]
  BY <1>4, <1>5
<1>8. /\ SumFunctionOnSet(x, Addr) \in Int /\ SumFunctionOnSet(y, Addr) \in Int
      /\ SumFunctionOnSet(y, Addr) - SumFunctionOnSet(x, Addr) = y[a] - x[a]
  BY <1>2, <1>4, <1>7, SumChanges
<1>9. x[a] = f[a].amount /\ y[a] = j.amount /\ x[a] \in Int /\ y[a] \in Int
  BY <1>4, <1>5
<1> QED
  BY <1>6, <1>8, <1>9 DEF g

\* The first branch of a start leaves the row.
LEMMA BranchLeaves ==
  ASSUME NEW s \in Seq([to : Addr, amount : Nat \ {0}]), s # <<>>
  PROVE  /\ Waiting(s) \in Int /\ Waiting(Tail(s)) \in Int
         /\ Waiting(s) = Head(s).amount + Waiting(Tail(s))
<1> DEFINE n == Len(s) - 1
           f == Carried(s)
           g == Carried(Tail(s))
<1>1. n \in Nat /\ Len(s) = n + 1 /\ Head(s) = s[1]
  OBVIOUS
<1>2. /\ Tail(s) \in Seq([to : Addr, amount : Nat \ {0}])
      /\ Len(Tail(s)) = n /\ \A i \in 1..n : Tail(s)[i] = s[i + 1]
  OBVIOUS
<1>3. DOMAIN f = 1..(n + 1) /\ DOMAIN g = 1..n
  BY <1>1, <1>2 DEF Carried
<1>4. \A i \in 1..(n + 1) : f[i] = s[i].amount /\ f[i] \in Int
  <2>1. \A i \in 1..(n + 1) : s[i] \in [to : Addr, amount : Nat \ {0}]
    BY <1>1, ElementOfSeq
  <2>2. \A i \in 1..(n + 1) : f[i] = s[i].amount
    BY <1>1 DEF Carried
  <2> HIDE DEF f, n
  <2> QED
    BY <2>1, <2>2
<1>5. \A i \in 1..n : g[i] = f[i + 1]
  BY <1>1, <1>2 DEF Carried
<1>6. Waiting(s) = SumFunctionOnSet(f, 1..(n + 1)) /\ Waiting(Tail(s)) = SumFunctionOnSet(g, 1..n)
  BY <1>3 DEF Waiting, SumFunction
<1>7. f[1] = Head(s).amount /\ f[1] \in Int
  BY <1>1, <1>4
<1> HIDE DEF f, g, n
<1>8. SumFunctionOnSet(f, 1..(n + 1)) = f[1] + SumFunctionOnSet(g, 1..n)
  BY <1>1, <1>4, <1>5, SumShift
<1>9. SumFunctionOnSet(g, 1..n) \in Int
  <2> DEFINE R == 1..n
  <2>1. IsFiniteSet(R) /\ R \in SUBSET R
    <3>1. 1 \in Int /\ n \in Int BY <1>1
    <3> QED BY <3>1, FS_Interval
  <2>2. \A i \in R : g[i] \in Int
    <3> SUFFICES ASSUME NEW i \in 1..n PROVE g[i] \in Int
      OBVIOUS
    <3>1. i + 1 \in 1..(n + 1)
      BY <1>1
    <3> QED
      BY <1>4, <1>5, <3>1
  <2> HIDE DEF R
  <2>3. SumFunctionOnSet(g, R) \in Int
    BY <2>1, <2>2, SumInt
  <2> QED
    BY <2>3 DEF R
<1> QED
  BY <1>6, <1>7, <1>8, <1>9

\* Value that is pruned, closes a cycle or is queued is entered or waits.
LEMMA ConnectKeeps ==
  ASSUME TypeOK, NEW a \in Addr, NEW j \in Job, Connect(a, j)
  PROVE  /\ Waiting(frontier) \in Int /\ Entered(ledger) \in Int
         /\ Waiting(frontier') \in Int /\ Entered(ledger') \in Int
         /\ Waiting(frontier') + Entered(ledger')
              = Waiting(frontier) + Entered(ledger) + j.amount
<1>1. /\ frontier \in [Addr -> Job] /\ ledger \in [Code -> [Addr -> Nat]]
      /\ j.amount \in Nat /\ frontier[a].amount \in Nat
  BY DEF TypeOK, Job
<1>2. Waiting(frontier) \in Int /\ Entered(ledger) \in Int
  <2>1. "cycle" \in Code BY DEF Code
  <2> QED BY <1>1, <2>1, JobChanges, EndedEnters
<1>3. ASSUME NEW c \in Code, ledger' = Ended(c, a, j.amount), frontier' = frontier
      PROVE  /\ Waiting(frontier') \in Int /\ Entered(ledger') \in Int
             /\ Waiting(frontier') + Entered(ledger')
                  = Waiting(frontier) + Entered(ledger) + j.amount
  <2>1. Entered(ledger') = Entered(ledger) + j.amount
    BY <1>1, <1>3, EndedEnters
  <2> QED
    BY <1>1, <1>2, <1>3, <2>1
<1>4. CASE Prune(a, j)
  <2>1. "below_threshold" \in Code
    BY DEF Code
  <2>2. ledger' = Ended("below_threshold", a, j.amount) /\ frontier' = frontier
    BY <1>4 DEF Prune
  <2> QED
    BY <1>2, <1>3, <2>1, <2>2
<1>5. CASE CloseCycle(a, j)
  <2>1. "cycle" \in Code
    BY DEF Code
  <2>2. ledger' = Ended("cycle", a, j.amount) /\ frontier' = frontier
    BY <1>5 DEF CloseCycle
  <2> QED
    BY <1>2, <1>3, <2>1, <2>2
<1>6. CASE Queue(a, j)
  <2>1. Joined(a, j) \in Job /\ Joined(a, j).amount = frontier[a].amount + j.amount
    BY <1>1, JoinedType
  <2>2. frontier' = [frontier EXCEPT ![a] = Joined(a, j)] /\ ledger' = ledger
    BY <1>6 DEF Queue
  <2>3. Waiting(frontier') = Waiting(frontier) - frontier[a].amount + Joined(a, j).amount
    BY <1>1, <2>1, <2>2, JobChanges
  <2> QED
    BY <1>1, <1>2, <2>1, <2>2, <2>3
<1> QED
  BY <1>4, <1>5, <1>6 DEF Connect

\* A job that ends is entered whole.
LEMMA EndJobKeeps ==
  ASSUME TypeOK, NEW a \in Addr, NEW c \in Code, EndJob(a, c)
  PROVE  Waiting(frontier') + Entered(ledger') = Waiting(frontier) + Entered(ledger)
<1>1. /\ frontier \in [Addr -> Job] /\ ledger \in [Code -> [Addr -> Nat]]
      /\ frontier[a].amount \in Nat /\ NoJob \in Job /\ NoJob.amount = 0
  BY DEF TypeOK, Job, NoJob
<1>2. /\ frontier' = [frontier EXCEPT ![a] = NoJob]
      /\ ledger' = Ended(c, a, frontier[a].amount)
  BY DEF EndJob, Dequeued
<1>3. Waiting(frontier) \in Int /\ Waiting(frontier') = Waiting(frontier) - frontier[a].amount
  <2>1. /\ Waiting(frontier) \in Int
        /\ Waiting(frontier') = Waiting(frontier) - frontier[a].amount + NoJob.amount
    BY <1>1, <1>2, JobChanges
  <2> QED
    BY <1>1, <2>1
<1>4. Entered(ledger) \in Int /\ Entered(ledger') = Entered(ledger) + frontier[a].amount
  BY <1>1, <1>2, EndedEnters
<1> QED
  BY <1>1, <1>3, <1>4

LEMMA StartBranchKeeps ==
  ASSUME TypeOK, ShareConserved, StartBranch
  PROVE  ShareConserved'
<1> DEFINE h == Head(starts)
           j == [amount |-> h.amount, cp |-> 0, depth |-> 0, via |-> Origin]
<1>1. starts \in Seq([to : Addr, amount : Nat \ {0}]) /\ starts # <<>>
  BY DEF StartBranch, TypeOK
<1>2. h \in [to : Addr, amount : Nat \ {0}]
  BY ONLY <1>1, HeadTailProperties
<1>3. j \in Job /\ h.to \in Addr /\ j.amount = h.amount /\ h.amount \in Nat
  BY <1>2 DEF Job
<1>4. Connect(h.to, j) /\ starts' = Tail(starts) /\ now' = now
  BY DEF StartBranch
<1>5. /\ Waiting(starts) \in Int /\ Waiting(starts') \in Int
      /\ Waiting(starts) = h.amount + Waiting(starts')
  BY <1>1, <1>4, BranchLeaves
<1> HIDE DEF h, j
<1>6. /\ Waiting(frontier) \in Int /\ Entered(ledger) \in Int
      /\ Waiting(frontier') \in Int /\ Entered(ledger') \in Int
      /\ Waiting(frontier') + Entered(ledger')
           = Waiting(frontier) + Entered(ledger) + j.amount
  BY <1>3, <1>4, ConnectKeeps
<1>7. now.left \in Nat /\ Total \in Nat
  BY FlowAssumption DEF TypeOK
<1>8. Waiting(starts) + Waiting(frontier) + now.left + Entered(ledger) = Total
  BY DEF ShareConserved, Waiting, Entered
<1>9. Waiting(frontier') + Entered(ledger') = Waiting(frontier) + Entered(ledger) + h.amount
  BY <1>3, <1>6
<1>10. now'.left = now.left
  BY <1>4
<1>11. Waiting(starts') + Waiting(frontier') + now'.left + Entered(ledger') = Total
  BY <1>3, <1>5, <1>6, <1>7, <1>8, <1>9, <1>10
<1> QED
  BY <1>11 DEF ShareConserved, Waiting, Entered

\* The sums of a state the types hold in.
LEMMA SumsTyped ==
  ASSUME TypeOK
  PROVE  /\ Waiting(starts) \in Int /\ Waiting(frontier) \in Int
         /\ Entered(ledger) \in Int /\ now.left \in Nat /\ Total \in Nat
<1>1. now.left \in Nat /\ Total \in Nat
  BY FlowAssumption DEF TypeOK
<1>2. Waiting(starts) \in Int
  <2>1. CASE starts = <<>>
    <3>1. Carried(<<>>) = <<>> /\ DOMAIN <<>> = {}
      BY DEF Carried
    <3>2. Waiting(<<>>) = SumFunctionOnSet(<<>>, {})
      BY <3>1 DEF Waiting, SumFunction
    <3> QED
      BY <2>1, <3>2, SumEmpty
  <2>2. CASE starts # <<>>
    BY <2>2, BranchLeaves DEF TypeOK
  <2> QED
    BY <2>1, <2>2
<1>3. Waiting(frontier) \in Int
  <2> DEFINE x == Carried(frontier)
  <2>1. DOMAIN x = Addr /\ \A b \in Addr : x[b] \in Int
    BY DEF Carried, TypeOK, Job
  <2>2. Waiting(frontier) = SumFunctionOnSet(x, Addr)
    BY <2>1 DEF Waiting, SumFunction
  <2> HIDE DEF x
  <2>3. IsFiniteSet(Addr) /\ Addr \in SUBSET Addr
    BY FlowAssumption
  <2> QED
    BY <2>1, <2>2, <2>3, SumInt
<1>4. Entered(ledger) \in Int
  <2> DEFINE f == [c \in Code |-> SumFunction(ledger[c])]
  <2>1. \A c \in Code : f[c] \in Int
    <3> SUFFICES ASSUME NEW c \in Code PROVE SumFunction(ledger[c]) \in Int
      OBVIOUS
    <3> DEFINE k == ledger[c]
    <3>1. DOMAIN k = Addr /\ \A b \in Addr : k[b] \in Int
      BY DEF TypeOK
    <3>2. IsFiniteSet(Addr) /\ Addr \in SUBSET Addr
      BY FlowAssumption
    <3> HIDE DEF k
    <3>3. SumFunction(k) \in Int
      BY <3>1, <3>2, SumInt DEF SumFunction
    <3> QED
      BY <3>3 DEF k
  <2>2. DOMAIN f = Code
    OBVIOUS
  <2>3. Entered(ledger) = SumFunctionOnSet(f, Code)
    BY <2>2 DEF Entered, SumFunction
  <2> HIDE DEF f
  <2> QED
    BY <2>1, <2>3, CodeFinite, SumInt
<1> QED
  BY <1>1, <1>2, <1>3, <1>4

LEMMA ExpandNextKeeps ==
  ASSUME TypeOK, ShareConserved, NEW a \in Addr, ExpandNext(a)
  PROVE  ShareConserved'
<1>1. Waiting(starts) + Waiting(frontier) + now.left + Entered(ledger) = Total
  BY DEF ShareConserved, Waiting, Entered
<1> SUFFICES /\ starts' = starts
             /\ Waiting(starts') + Waiting(frontier') + now'.left + Entered(ledger') = Total
  BY DEF ShareConserved, Waiting, Entered
<1>2. /\ Waiting(starts) \in Int /\ Waiting(frontier) \in Int
      /\ Entered(ledger) \in Int /\ now.left \in Nat /\ Total \in Nat
  BY SumsTyped
<1>3. ASSUME NEW c \in Code, EndJob(a, c)
      PROVE  /\ starts' = starts
             /\ Waiting(starts') + Waiting(frontier') + now'.left + Entered(ledger') = Total
  <2>1. starts' = starts /\ now' = now
    BY <1>3 DEF EndJob
  <2>2. Waiting(frontier') + Entered(ledger') = Waiting(frontier) + Entered(ledger)
    BY <1>3, EndJobKeeps
  <2>3. Waiting(frontier') \in Int /\ Entered(ledger') \in Int
    <3>1. /\ frontier \in [Addr -> Job] /\ NoJob \in Job /\ NoJob.amount = 0
          /\ frontier[a].amount \in Nat /\ ledger \in [Code -> [Addr -> Nat]]
      BY DEF TypeOK, Job, NoJob
    <3>2. /\ frontier' = [frontier EXCEPT ![a] = NoJob]
          /\ ledger' = Ended(c, a, frontier[a].amount)
      BY <1>3 DEF EndJob, Dequeued
    <3>3. Waiting(frontier') = Waiting(frontier) - frontier[a].amount + NoJob.amount
      BY <3>1, <3>2, JobChanges
    <3>4. Entered(ledger') = Entered(ledger) + frontier[a].amount
      BY <3>1, <3>2, EndedEnters
    <3> QED
      BY <1>2, <3>1, <3>3, <3>4
  <2> QED
    BY <1>1, <1>2, <2>1, <2>2, <2>3
<1>4. CASE FindSpends(a)
  <2>1. /\ frontier \in [Addr -> Job] /\ NoJob \in Job /\ NoJob.amount = 0
        /\ frontier[a].amount \in Nat
    BY DEF TypeOK, Job, NoJob
  <2>2. /\ starts' = starts /\ ledger' = ledger
        /\ frontier' = [frontier EXCEPT ![a] = NoJob]
        /\ now = Idle /\ now'.left = frontier[a].amount
    BY <1>4 DEF FindSpends, Dequeued, Open, Picked
  <2>3. now.left = 0
    BY <2>2 DEF Idle
  <2>4. Waiting(frontier') = Waiting(frontier) - frontier[a].amount + NoJob.amount
    BY <2>1, <2>2, JobChanges
  <2> QED
    BY <1>1, <1>2, <2>1, <2>2, <2>3, <2>4
<1>5. CASE StopAtNode(a)
  <2>1. EndJob(a, NodeStop(a)) BY <1>5 DEF StopAtNode
  <2>2. NodeStop(a) \in {"sink", "protocol", "hub", "read_failed"}
    BY <1>5, NodeStopCode DEF StopAtNode
  <2> QED BY <1>3, <2>1, <2>2 DEF Code
<1>6. CASE StopAtLimit(a)
  BY <1>3, <1>6 DEF StopAtLimit, Code
<1>7. CASE StopAtHub(a)
  BY <1>3, <1>7 DEF StopAtHub, Code
<1>8. CASE SearchFails(a)
  BY <1>3, <1>8 DEF SearchFails, Code
<1>9. CASE FindNothing(a)
  <2>1. EndJob(a, NoSpendCode(a)) BY <1>9 DEF FindNothing
  <2> QED BY <1>3, <2>1 DEF NoSpendCode, Code
<1> QED
  BY <1>4, <1>5, <1>6, <1>7, <1>8, <1>9 DEF ExpandNext

LEMMA TakeLegKeeps ==
  ASSUME TypeOK, Placed, ShareConserved, NEW t \in Tx, TakeLeg(t)
  PROVE  ShareConserved'
<1> DEFINE n == Share(t)
<1>1. Waiting(starts) + Waiting(frontier) + now.left + Entered(ledger) = Total
  BY DEF ShareConserved, Waiting, Entered
<1> SUFFICES Waiting(starts') + Waiting(frontier') + now'.left + Entered(ledger') = Total
  BY DEF ShareConserved, Waiting, Entered
<1>2. /\ Waiting(starts) \in Int /\ Waiting(frontier) \in Int
      /\ Entered(ledger) \in Int /\ now.left \in Nat /\ Total \in Nat
  BY SumsTyped
<1>3. /\ n \in Nat /\ starts' = starts
      /\ now'.left = now.left - n /\ now.node \in Addr /\ now.depth \in Nat
  <2>1. n \in Nat
    BY ShareType
  <2>2. Draw(t, n) /\ starts' = starts /\ now # Idle
    BY DEF TakeLeg, Idle
  <2>3. now'.left = now.left - n
    BY <2>2, DrawType
  <2>4. now.node \in Addr /\ now.depth \in Nat
    BY <2>2 DEF Placed, TypeOK
  <2> QED
    BY <2>1, <2>2, <2>3, <2>4
<1> HIDE DEF n
<1>4. /\ chain[t] \in Spend /\ ledger \in [Code -> [Addr -> Nat]]
  BY DEF TypeOK
<1>5. CASE EndLeg(t)
  <2> DEFINE code == IF t \in lost THEN "read_failed" ELSE chain[t].ending
  <2>1. code \in Code
    <3>1. CASE t \in lost BY <3>1 DEF Code
    <3>2. CASE t \notin lost
      <4>1. chain[t].ending # "pays" BY <1>5, <3>2 DEF EndLeg
      <4>2. chain[t].ending \in Ending BY <1>4 DEF Spend
      <4> QED BY <3>2, <4>1, <4>2 DEF Code, Ending
    <3> QED BY <3>1, <3>2
  <2>2. ledger' = Ended(code, now.node, n) /\ frontier' = frontier
    BY <1>5 DEF EndLeg, n
  <2> HIDE DEF code
  <2>3. Entered(ledger') = Entered(ledger) + n
    BY <1>3, <1>4, <2>1, <2>2, EndedEnters
  <2> QED
    BY <1>1, <1>2, <1>3, <2>2, <2>3
<1>6. CASE PassOn(t)
  <2> DEFINE j == [amount |-> n, cp |-> chain[t].cp,
                   depth |-> now.depth + 1, via |-> now.node]
  <2>1. j \in Job /\ j.amount = n /\ chain[t].to \in Addr
    <3>1. now.depth + 1 \in Nat BY <1>3
    <3>2. chain[t].cp \in Nat /\ chain[t].to \in Addr BY <1>4 DEF Spend
    <3> QED BY <1>3, <3>1, <3>2 DEF Job
  <2>2. Connect(chain[t].to, j) BY <1>6 DEF PassOn, n
  <2> HIDE DEF j
  <2>3. /\ Waiting(frontier') \in Int /\ Entered(ledger') \in Int
        /\ Waiting(frontier') + Entered(ledger')
             = Waiting(frontier) + Entered(ledger) + n
    BY <2>1, <2>2, ConnectKeeps
  <2> QED
    BY <1>1, <1>2, <1>3, <2>3
<1> QED
  BY <1>5, <1>6 DEF TakeLeg

LEMMA FinishExpansionKeeps ==
  ASSUME TypeOK, Placed, ShareConserved, FinishExpansion
  PROVE  ShareConserved'
<1>1. Waiting(starts) + Waiting(frontier) + now.left + Entered(ledger) = Total
  BY DEF ShareConserved, Waiting, Entered
<1> SUFFICES Waiting(starts') + Waiting(frontier') + now'.left + Entered(ledger') = Total
  BY DEF ShareConserved, Waiting, Entered
<1>2. /\ Waiting(starts) \in Int /\ Waiting(frontier) \in Int
      /\ Entered(ledger) \in Int /\ now.left \in Nat /\ Total \in Nat
  BY SumsTyped
<1>3. /\ now.node \in Addr /\ RestCode \in Code
      /\ ledger \in [Code -> [Addr -> Nat]]
      /\ starts' = starts /\ frontier' = frontier /\ now'.left = 0
  BY DEF FinishExpansion, Placed, RestCode, Code, TypeOK, Idle
<1>4. CASE now.left > 0
  <2>1. ledger' = Ended(RestCode, now.node, now.left)
    BY <1>4 DEF FinishExpansion
  <2>2. Entered(ledger') = Entered(ledger) + now.left
    BY <1>2, <1>3, <2>1, EndedEnters
  <2> QED
    BY <1>1, <1>2, <1>3, <2>2
<1>5. CASE ~(now.left > 0)
  <2>1. ledger' = ledger /\ now.left = 0
    BY <1>2, <1>5 DEF FinishExpansion
  <2> QED
    BY <1>1, <1>2, <1>3, <2>1
<1> QED
  BY <1>4, <1>5

\* What the start moved is never lost or counted twice: the branches not yet
\* followed, the queued jobs, the expansion under way and the ledger add up to
\* it after any number of merges, cycles, refusals and failed reads.
THEOREM FlowShareConserved == Spec => []ShareConserved
<1>1. Init => ShareConserved
  <2> SUFFICES ASSUME Init PROVE ShareConserved
    OBVIOUS
  <2>1. Waiting(starts) = Total
    BY FlowAssumption DEF Init, Waiting
  <2>2. IsFiniteSet(Addr) /\ Addr \in SUBSET Addr
    BY FlowAssumption
  <2> DEFINE zero == [a \in Addr |-> 0]
  <2>3. SumFunction(zero) = 0
    BY <2>2, SumOfZeros DEF SumFunction
  <2>4. Waiting(frontier) = 0
    <3>1. Carried(frontier) = zero
      BY DEF Init, Carried, NoJob
    <3> QED
      BY <2>3, <3>1 DEF Waiting
  <2>5. Entered(ledger) = 0
    <3> DEFINE f == [c \in Code |-> SumFunction(ledger[c])]
    <3>1. \A c \in Code : ledger[c] = zero
      BY DEF Init
    <3>2. DOMAIN f = Code /\ \A c \in Code : f[c] = 0
      BY <2>3, <3>1
    <3>3. Entered(ledger) = SumFunctionOnSet(f, Code)
      BY <3>2 DEF Entered, SumFunction
    <3> HIDE DEF f
    <3> QED
      BY <3>2, <3>3, CodeFinite, SumOfZeros
  <2>6. now.left = 0 /\ Total \in Nat
    BY FlowAssumption DEF Init, Idle
  <2>7. Waiting(starts) + Waiting(frontier) + now.left + Entered(ledger) = Total
    BY <2>1, <2>4, <2>5, <2>6
  <2> QED
    BY <2>7 DEF ShareConserved, Waiting, Entered
<1>2. TypeOK /\ Placed /\ ShareConserved /\ [Next]_vars => ShareConserved'
  <2> SUFFICES ASSUME TypeOK, Placed, ShareConserved, [Next]_vars PROVE ShareConserved'
    OBVIOUS
  <2>1. CASE UNCHANGED vars
    BY <2>1 DEF vars, ShareConserved
  <2> QED
    BY <2>1, StartBranchKeeps, ExpandNextKeeps, TakeLegKeeps, FinishExpansionKeeps
    DEF Next
<1> QED
  BY <1>1, <1>2, FlowTypeCorrect, PTL DEF Spec

-----------------------------------------------------------------------------
(* When the graph says it is partial.                                      *)

\* Every leg of a search has value left, and the legs before it are less than
\* what is still to allocate: each leg takes something.
Before(S, t) == { u \in S : u < t }

LegsWorth ==
  \A t \in now.legs :
    /\ avail[t] > 0
    /\ SumFunctionOnSet(avail, Before(now.legs, t)) < now.left

PartialInv == LegsWorth /\ PartialSaid

\* An entry makes the graph partial exactly when its reason does.
LEMMA EntrySaid ==
  ASSUME TypeOK, PartialSaid, NEW c \in Code, NEW a \in Addr, NEW n \in Nat, n > 0,
         ledger' = Ended(c, a, n),
         truncated' = (truncated \/ c \in {"budget", "read_failed"})
  PROVE  PartialSaid'
<1>1. /\ \A b \in Addr : ledger["budget"][b] \in Nat /\ ledger["read_failed"][b] \in Nat
      /\ truncated \in BOOLEAN
      /\ {"budget", "read_failed"} \subseteq Code
      /\ ledger \in [Code -> [Addr -> Nat]]
  <2>1. ledger \in [Code -> [Addr -> Nat]] /\ truncated \in BOOLEAN
    BY DEF TypeOK
  <2>2. {"budget", "read_failed"} \subseteq Code
    BY DEF Code
  <2> QED
    BY <2>1, <2>2
<1>2. \A d \in Code : \A b \in Addr :
        ledger'[d][b] = IF d = c /\ b = a THEN ledger[d][b] + n ELSE ledger[d][b]
  BY <1>1 DEF Ended
<1>3. CASE c \in {"budget", "read_failed"}
  <2>1. truncated'
    BY <1>3
  <2>2. ledger'["budget"][a] + ledger'["read_failed"][a] > 0
    <3> DEFINE x == ledger["budget"][a]
               y == ledger["read_failed"][a]
    <3>1. \/ ledger'["budget"][a] = x + n /\ ledger'["read_failed"][a] = y
          \/ ledger'["budget"][a] = x /\ ledger'["read_failed"][a] = y + n
      BY <1>1, <1>2, <1>3
    <3>2. x \in Nat /\ y \in Nat
      BY <1>1
    <3> HIDE DEF x, y
    <3> QED
      BY <3>1, <3>2
  <2> QED
    BY <2>1, <2>2 DEF PartialSaid
<1>4. CASE c \notin {"budget", "read_failed"}
  <2>1. truncated' = truncated
    BY <1>1, <1>4
  <2>2. \A b \in Addr : /\ ledger'["budget"][b] = ledger["budget"][b]
                        /\ ledger'["read_failed"][b] = ledger["read_failed"][b]
    BY <1>1, <1>2, <1>4
  <2> QED
    BY <2>1, <2>2 DEF PartialSaid
<1> QED
  BY <1>3, <1>4

\* Value that is pruned, closes a cycle or is queued is not cut.
LEMMA ConnectSaid ==
  ASSUME TypeOK, PartialSaid, NEW a \in Addr, NEW j \in Job, Connect(a, j),
         truncated' = truncated
  PROVE  PartialSaid'
<1>1. /\ ledger \in [Code -> [Addr -> Nat]]
      /\ {"budget", "read_failed", "cycle", "below_threshold"} \subseteq Code
  BY DEF TypeOK, Code
<1>2. \A b \in Addr : /\ ledger'["budget"][b] = ledger["budget"][b]
                      /\ ledger'["read_failed"][b] = ledger["read_failed"][b]
  <2>1. CASE ledger' = ledger
    BY <2>1
  <2>2. CASE ledger' = Ended("below_threshold", a, j.amount)
    BY <1>1, <2>2 DEF Ended
  <2>3. CASE ledger' = Ended("cycle", a, j.amount)
    BY <1>1, <2>3 DEF Ended
  <2> QED
    BY <2>1, <2>2, <2>3 DEF Connect, Prune, CloseCycle, Queue
<1> QED
  BY <1>2 DEF PartialSaid

LEMMA SameWorth ==
  ASSUME LegsWorth, now' = now, avail' = avail PROVE LegsWorth'
BY DEF LegsWorth, Before

LEMMA StartBranchSays ==
  ASSUME TypeOK, PartialInv, StartBranch PROVE PartialInv'
<1> DEFINE h == Head(starts)
           j == [amount |-> h.amount, cp |-> 0, depth |-> 0, via |-> Origin]
<1>1. starts \in Seq([to : Addr, amount : Nat \ {0}]) /\ starts # <<>>
  BY DEF StartBranch, TypeOK
<1>2. h \in [to : Addr, amount : Nat \ {0}]
  BY ONLY <1>1, HeadTailProperties
<1>3. j \in Job /\ h.to \in Addr
  BY <1>2 DEF Job
<1>4. Connect(h.to, j) /\ truncated' = truncated /\ now' = now /\ avail' = avail
  BY DEF StartBranch
<1> HIDE DEF h, j
<1> QED
  BY <1>3, <1>4, ConnectSaid, SameWorth DEF PartialInv

LEMMA EndJobSays ==
  ASSUME TypeOK, PartialInv, NEW a \in Addr, NEW c \in Code, Queued(a), EndJob(a, c)
  PROVE  PartialInv'
<1>1. frontier[a].amount \in Nat /\ frontier[a].amount > 0
  BY DEF TypeOK, Job, Queued
<1>2. /\ ledger' = Ended(c, a, frontier[a].amount)
      /\ truncated' = (truncated \/ c \in {"budget", "read_failed"})
      /\ now' = now /\ avail' = avail
  BY DEF EndJob
<1> QED
  BY <1>1, <1>2, EntrySaid, SameWorth DEF PartialInv

\* A search starts with legs each worth following.
LEMMA FindSpendsSays ==
  ASSUME TypeOK, PartialInv, NEW a \in Addr, FindSpends(a)
  PROVE  PartialInv'
<1> DEFINE n == frontier[a].amount
           L == Spends(a)
<1>1. /\ now'.legs = L /\ now'.left = n /\ avail' = avail
      /\ ledger' = ledger /\ truncated' = truncated
  BY DEF FindSpends
<1>2. PartialSaid'
  BY <1>1 DEF PartialSaid, PartialInv
<1>3. n \in Nat /\ avail \in [Tx -> Nat] /\ IsFiniteSet(Tx) /\ Tx \subseteq Nat
  BY FlowAssumption DEF TypeOK, Job
<1>4. ASSUME NEW t \in L
      PROVE  avail[t] > 0 /\ SumFunctionOnSet(avail, Before(L, t)) < n
  <2> DEFINE H == { u \in Hits(a) : u < t }
             B == Before(L, t)
  <2>1. t \in Hits(a) /\ ~Enough(a, H)
    BY <1>4 DEF Spends
  <2>2. avail[t] > 0
    BY <2>1 DEF Hits
  <2>3. ~(SumFunctionOnSet(avail, H) >= n)
    BY <2>1 DEF Enough
  <2>4. H \in SUBSET Tx /\ B \in SUBSET Tx /\ B \subseteq H
    BY DEF Hits, Page, Sent, Spends, Before
  <2> HIDE DEF H, B, n
  <2>5. SumFunctionOnSet(avail, H) \in Nat /\ SumFunctionOnSet(avail, B) \in Nat
    BY <1>3, <2>4, SumNat
  <2>6. SumFunctionOnSet(avail, B) <= SumFunctionOnSet(avail, H)
    BY <1>3, <2>4, SumPart
  <2>7. SumFunctionOnSet(avail, B) < n
    BY <1>3, <2>3, <2>5, <2>6
  <2> QED
    BY <2>2, <2>7 DEF B
<1> HIDE DEF n, L
<1>5. LegsWorth'
  BY <1>1, <1>4 DEF LegsWorth, Before
<1> QED
  BY <1>2, <1>5 DEF PartialInv

LEMMA ExpandNextSays ==
  ASSUME TypeOK, PartialInv, NEW a \in Addr, ExpandNext(a)
  PROVE  PartialInv'
<1>1. CASE FindSpends(a)
  BY <1>1, FindSpendsSays
<1>2. CASE StopAtNode(a)
  <2>1. EndJob(a, NodeStop(a)) /\ Queued(a) BY <1>2 DEF StopAtNode, Picked
  <2>2. NodeStop(a) \in {"sink", "protocol", "hub", "read_failed"}
    BY <1>2, NodeStopCode DEF StopAtNode
  <2> QED BY <2>1, <2>2, EndJobSays DEF Code
<1>3. CASE StopAtLimit(a)
  <2>1. EndJob(a, "budget") /\ Queued(a) BY <1>3 DEF StopAtLimit, Picked
  <2> QED BY <2>1, EndJobSays DEF Code
<1>4. CASE StopAtHub(a)
  <2>1. PICK c \in {"hub", "read_failed"} : EndJob(a, c)
    BY <1>4 DEF StopAtHub
  <2>2. Queued(a) BY <1>4 DEF StopAtHub, Open, Picked
  <2> QED BY <2>1, <2>2, EndJobSays DEF Code
<1>5. CASE SearchFails(a)
  <2>1. EndJob(a, "read_failed") /\ Queued(a) BY <1>5 DEF SearchFails, Open, Picked
  <2> QED BY <2>1, EndJobSays DEF Code
<1>6. CASE FindNothing(a)
  <2>1. EndJob(a, NoSpendCode(a)) /\ Queued(a) BY <1>6 DEF FindNothing, Open, Picked
  <2>2. NoSpendCode(a) \in Code BY DEF NoSpendCode, Code
  <2> QED BY <2>1, <2>2, EndJobSays
<1> QED
  BY <1>1, <1>2, <1>3, <1>4, <1>5, <1>6 DEF ExpandNext

\* The first leg takes all it has, and what is left covers the legs before any
\* other.
LEMMA DrawLeavesWorth ==
  ASSUME TypeOK, LegsWorth, NEW t \in Tx, t \in now.legs,
         \A u \in now.legs : t <= u, Draw(t, Share(t))
  PROVE  LegsWorth' /\ Share(t) > 0
<1> DEFINE n == Share(t)
<1>1. /\ avail \in [Tx -> Nat] /\ IsFiniteSet(Tx) /\ Tx \subseteq Nat
      /\ now.legs \subseteq Tx /\ now.left \in Nat
  BY FlowAssumption DEF TypeOK
<1>2. n \in Nat /\ n <= avail[t] /\ n \in {avail[t], now.left} /\ n <= now.left
  BY ShareType
<1>3. now.left > 0 /\ avail[t] > 0
  <2>1. avail[t] > 0 /\ SumFunctionOnSet(avail, Before(now.legs, t)) < now.left
    BY DEF LegsWorth
  <2>2. Before(now.legs, t) = {}
    <3> SUFFICES ASSUME NEW u \in now.legs, u < t PROVE FALSE
      BY DEF Before
    <3>1. u \in Nat /\ t \in Nat /\ t <= u
      BY <1>1
    <3> QED
      BY <3>1
  <2> QED
    BY <2>1, <2>2, SumEmpty
<1>4. n > 0
  BY <1>2, <1>3
<1>5. /\ now'.legs = now.legs \ {t} /\ now'.left = now.left - n
      /\ avail' = [avail EXCEPT ![t] = @ - n]
  <2>1. now' = [now EXCEPT !.left = @ - n, !.legs = @ \ {t}]
    BY DEF Draw
  <2>2. now \in [node : Addr \cup {Origin}, cp : Nat, depth : Nat, left : Nat,
                 legs : SUBSET Tx, satisfied : BOOLEAN, exhausted : BOOLEAN]
    BY DEF TypeOK
  <2> HIDE DEF n
  <2>3. now'.legs = now.legs \ {t} /\ now'.left = now.left - n
    BY <2>1, <2>2
  <2> QED
    BY <2>3 DEF Draw, n
<1>6. ASSUME NEW u \in now.legs \ {t}
      PROVE  avail'[u] > 0 /\ SumFunctionOnSet(avail', Before(now'.legs, u)) < now'.left
  <2> DEFINE B == Before(now.legs, u)
             R == Before(now'.legs, u)
  <2>1. avail[u] > 0 /\ SumFunctionOnSet(avail, B) < now.left
    BY <1>6 DEF LegsWorth
  <2>2. t \in Nat /\ u \in Nat /\ t < u /\ u \in Tx
    BY <1>1, <1>6
  <2>3. t \in B /\ R = B \ {t} /\ B \in SUBSET Tx /\ R \in SUBSET Tx
    BY <1>1, <1>5, <2>2 DEF Before
  <2> HIDE DEF B, R, n
  <2>4. avail'[u] = avail[u] /\ \A x \in R : avail'[x] = avail[x]
    BY <1>1, <1>5, <2>2, <2>3
  <2>5. SumFunctionOnSet(avail, B) = avail[t] + SumFunctionOnSet(avail, R)
    <3>1. \A x \in Tx : avail[x] \in Int
      BY <1>1
    <3>2. \A T \in SUBSET Tx : \A x \in T :
            SumFunctionOnSet(avail, T) = avail[x] + SumFunctionOnSet(avail, T \ {x})
      BY <1>1, <3>1, SumTaking
    <3>3. B \in SUBSET Tx /\ t \in B /\ R = B \ {t}
      BY <2>3
    <3> QED
      BY <3>2, <3>3
  <2>6. SumFunctionOnSet(avail', R) = SumFunctionOnSet(avail, R)
    <3>1. IsFiniteSet(R) /\ R \in SUBSET R
      BY <1>1, <2>3, FS_Subset
    <3> QED
      BY <2>4, <3>1, SumSame
  <2>7. SumFunctionOnSet(avail, R) \in Nat /\ avail[t] \in Nat
    BY <1>1, <2>3, SumNat
  <2>8. n = avail[t]
    BY <1>1, <1>2, <2>1, <2>5, <2>7
  <2>9. SumFunctionOnSet(avail, R) < now.left - n
    BY <1>1, <2>1, <2>5, <2>7, <2>8
  <2>10. SumFunctionOnSet(avail', R) < now'.left
    BY <1>5, <2>6, <2>9
  <2> QED
    BY <2>1, <2>4, <2>10 DEF R
<1>7. LegsWorth'
  BY <1>5, <1>6 DEF LegsWorth, Before
<1> QED
  BY <1>4, <1>7

LEMMA TakeLegSays ==
  ASSUME TypeOK, Placed, PartialInv, NEW t \in Tx, TakeLeg(t)
  PROVE  PartialInv'
<1> DEFINE n == Share(t)
<1>1. LegsWorth' /\ n > 0
  BY DrawLeavesWorth DEF TakeLeg, PartialInv
<1>2. n \in Nat /\ now.node \in Addr /\ now.depth \in Nat /\ chain[t] \in Spend
  <2>1. now # Idle
    BY DEF TakeLeg, Idle
  <2> QED
    BY <2>1, ShareType DEF Placed, TypeOK
<1>3. CASE EndLeg(t)
  <2> DEFINE code == IF t \in lost THEN "read_failed" ELSE chain[t].ending
  <2>1. code \in Code /\ code # "budget"
    <3>1. CASE t \in lost BY <3>1 DEF Code
    <3>2. CASE t \notin lost
      <4>1. chain[t].ending # "pays" BY <1>3, <3>2 DEF EndLeg
      <4>2. chain[t].ending \in Ending BY <1>2 DEF Spend
      <4> QED BY <3>2, <4>1, <4>2 DEF Code, Ending
    <3> QED BY <3>1, <3>2
  <2>2. /\ ledger' = Ended(code, now.node, n)
        /\ truncated' = (truncated \/ code = "read_failed")
    BY <1>3 DEF EndLeg
  <2> HIDE DEF code, n
  <2>3. truncated' = (truncated \/ code \in {"budget", "read_failed"})
    BY <2>1, <2>2
  <2>4. PartialSaid'
    BY <1>1, <1>2, <2>1, <2>2, <2>3, EntrySaid DEF PartialInv
  <2> QED
    BY <1>1, <2>4 DEF PartialInv
<1>4. CASE PassOn(t)
  <2> DEFINE j == [amount |-> n, cp |-> chain[t].cp,
                   depth |-> now.depth + 1, via |-> now.node]
  <2>1. j \in Job /\ chain[t].to \in Addr
    <3>1. now.depth + 1 \in Nat BY <1>2
    <3>2. chain[t].cp \in Nat /\ chain[t].to \in Addr BY <1>2 DEF Spend
    <3> QED BY <1>2, <3>1, <3>2 DEF Job
  <2>2. Connect(chain[t].to, j) /\ truncated' = truncated
    BY <1>4 DEF PassOn
  <2> HIDE DEF j
  <2>3. PartialSaid'
    BY <2>1, <2>2, ConnectSaid DEF PartialInv
  <2> QED
    BY <1>1, <2>3 DEF PartialInv
<1> QED
  BY <1>3, <1>4 DEF TakeLeg

LEMMA FinishExpansionSays ==
  ASSUME TypeOK, Placed, PartialInv, FinishExpansion
  PROVE  PartialInv'
<1>1. /\ now.node \in Addr /\ now.left \in Nat /\ RestCode \in {"budget", "unspent"}
      /\ now' = Idle
  BY DEF FinishExpansion, Placed, RestCode, TypeOK
<1>2. LegsWorth'
  BY <1>1 DEF LegsWorth, Idle
<1>3. CASE now.left > 0
  <2>1. /\ ledger' = Ended(RestCode, now.node, now.left)
        /\ truncated' = (truncated \/ RestCode = "budget")
    BY <1>3 DEF FinishExpansion
  <2>2. truncated' = (truncated \/ RestCode \in {"budget", "read_failed"})
    BY <1>1, <2>1
  <2>3. RestCode \in Code
    BY <1>1 DEF Code
  <2>4. PartialSaid'
    BY <1>1, <1>3, <2>1, <2>2, <2>3, EntrySaid DEF PartialInv
  <2> QED
    BY <1>2, <2>4 DEF PartialInv
<1>4. CASE ~(now.left > 0)
  <2>1. ledger' = ledger /\ truncated' = truncated
    BY <1>4 DEF FinishExpansion
  <2> QED
    BY <1>2, <2>1 DEF PartialInv, PartialSaid
<1> QED
  BY <1>3, <1>4

\* The graph says it is partial exactly when a limit or a failed read ended some
\* of the value, for any history: a failed read of a spend that would have taken
\* nothing cannot happen, as every leg of a search takes something.
THEOREM FlowPartialSaid == Spec => []PartialSaid
<1>1. Init => PartialInv
  <2> SUFFICES ASSUME Init PROVE PartialInv
    OBVIOUS
  <2>1. LegsWorth
    BY DEF Init, Idle, LegsWorth
  <2>2. \A a \in Addr : ledger["budget"][a] = 0 /\ ledger["read_failed"][a] = 0
    BY DEF Init, Code
  <2>3. truncated = FALSE
    BY DEF Init
  <2> QED
    BY <2>1, <2>2, <2>3 DEF PartialInv, PartialSaid
<1>2. TypeOK /\ Placed /\ PartialInv /\ [Next]_vars => PartialInv'
  <2> SUFFICES ASSUME TypeOK, Placed, PartialInv, [Next]_vars PROVE PartialInv'
    OBVIOUS
  <2>1. CASE UNCHANGED vars
    BY <2>1, SameWorth DEF vars, PartialInv, PartialSaid
  <2> QED
    BY <2>1, StartBranchSays, ExpandNextSays, TakeLegSays, FinishExpansionSays
    DEF Next
<1>3. PartialInv => PartialSaid
  BY DEF PartialInv
<1> QED
  BY <1>1, <1>2, <1>3, FlowTypeCorrect, PTL DEF Spec

-----------------------------------------------------------------------------
(* Every walk ends.                                                        *)

\* What a walk may still do: expansions its addresses have left, each of which
\* puts a leg for some transactions in hand; branches and jobs to take up; legs
\* to take.
Spare(x) == SumFunctionOnSet([a \in Addr |-> ExpansionsPerNode - x[a]], Addr)
Jobs(f) == { a \in Addr : f[a].amount > 0 }
PerExpansion == 2 * Cardinality(Tx) + 2

Remaining ==
  PerExpansion * Spare(expansions) + 2 * Len(starts) + Cardinality(Jobs(frontier))
    + 2 * Cardinality(now.legs) + IF now = Idle THEN 0 ELSE 1

\* No address is expanded more often than the limit lets it.
Bounded == \A a \in Addr : expansions[a] <= ExpansionsPerNode

LEMMA StepBounded == TypeOK /\ Bounded /\ [Next]_vars => Bounded'
<1> SUFFICES ASSUME TypeOK, Bounded, [Next]_vars PROVE Bounded'
  OBVIOUS
<1>1. ASSUME NEW a \in Addr, MarkExpanded(a), Open(a)
      PROVE  Bounded'
  <2>1. expansions[a] \in Nat /\ ~(expansions[a] >= ExpansionsPerNode)
        /\ ExpansionsPerNode \in Nat
    BY <1>1, FlowAssumption DEF Open, LimitHit, TypeOK
  <2>2. expansions' = [expansions EXCEPT ![a] = @ + 1]
    BY <1>1 DEF MarkExpanded
  <2>3. expansions[a] + 1 <= ExpansionsPerNode
    BY <2>1
  <2> QED
    BY <2>2, <2>3 DEF Bounded, TypeOK
<1>2. CASE UNCHANGED expansions
  BY <1>2 DEF Bounded
<1>3. \/ UNCHANGED expansions
      \/ \E a \in Addr : MarkExpanded(a) /\ Open(a)
  BY DEF Next, ExpandNext, StartBranch, TakeLeg, FinishExpansion, StopAtNode, StopAtLimit,
         StopAtHub, SearchFails, FindNothing, FindSpends, counts, vars
<1> QED
  BY <1>1, <1>2, <1>3

LEMMA SpareNat ==
  ASSUME NEW x \in [Addr -> Nat], \A a \in Addr : x[a] <= ExpansionsPerNode
  PROVE  Spare(x) \in Nat
<1> DEFINE f == [a \in Addr |-> ExpansionsPerNode - x[a]]
<1>1. ExpansionsPerNode \in Nat /\ IsFiniteSet(Addr)
  BY FlowAssumption
<1>2. \A a \in Addr : f[a] \in Nat
  BY <1>1
<1>3. Spare(x) = SumFunctionOnSet(f, Addr)
  BY DEF Spare
<1> HIDE DEF f
<1> QED
  BY <1>1, <1>2, <1>3, SumNat

\* An expansion uses one of those its address has left.
LEMMA SpareDrops ==
  ASSUME TypeOK, NEW a \in Addr, MarkExpanded(a)
  PROVE  Spare(expansions') = Spare(expansions) - 1
<1> DEFINE x == [b \in Addr |-> ExpansionsPerNode - expansions[b]]
           y == [b \in Addr |-> ExpansionsPerNode - expansions'[b]]
<1>1. /\ expansions'[a] = expansions[a] + 1
      /\ \A b \in Addr : b # a => expansions'[b] = expansions[b]
      /\ \A b \in Addr : expansions[b] \in Int
  BY DEF MarkExpanded, TypeOK
<1>2. ExpansionsPerNode \in Int /\ IsFiniteSet(Addr)
  BY FlowAssumption
<1>3. \A b \in Addr : x[b] \in Int /\ y[b] \in Int /\ (b # a => y[b] = x[b])
  BY <1>1, <1>2
<1>4. y[a] - x[a] = -1
  BY <1>1, <1>2
<1>5. Spare(expansions) = SumFunctionOnSet(x, Addr) /\ Spare(expansions') = SumFunctionOnSet(y, Addr)
  BY DEF Spare
<1> HIDE DEF x, y
<1>6. /\ SumFunctionOnSet(x, Addr) \in Int /\ SumFunctionOnSet(y, Addr) \in Int
      /\ SumFunctionOnSet(y, Addr) - SumFunctionOnSet(x, Addr) = y[a] - x[a]
  BY <1>2, <1>3, SumChanges
<1> QED
  BY <1>4, <1>5, <1>6

LEMMA JobsCounted ==
  ASSUME NEW f
  PROVE  IsFiniteSet(Jobs(f)) /\ Cardinality(Jobs(f)) \in Nat
<1>1. IsFiniteSet(Addr) /\ Jobs(f) \in SUBSET Addr
  BY FlowAssumption DEF Jobs
<1>2. IsFiniteSet(Jobs(f))
  BY <1>1, FS_Subset
<1> QED
  BY <1>2, FS_CardinalityType

\* A job that is taken up is gone, one that is queued is one at most.
LEMMA JobGone ==
  ASSUME TypeOK, NEW a \in Addr, Queued(a), frontier' = Dequeued(a)
  PROVE  Cardinality(Jobs(frontier')) = Cardinality(Jobs(frontier)) - 1
<1>1. Jobs(frontier') = Jobs(frontier) \ {a} /\ a \in Jobs(frontier)
  BY DEF Jobs, Queued, Dequeued, NoJob, TypeOK
<1> QED
  BY <1>1, JobsCounted, FS_RemoveElement

LEMMA JobComes ==
  ASSUME TypeOK, NEW a \in Addr, NEW j, Connect(a, j)
  PROVE  Cardinality(Jobs(frontier')) <= Cardinality(Jobs(frontier)) + 1
<1>1. frontier' = frontier \/ frontier' = [frontier EXCEPT ![a] = Joined(a, j)]
  BY DEF Connect, Prune, Queue, CloseCycle
<1>2. Jobs(frontier') \subseteq Jobs(frontier) \cup {a}
  BY <1>1 DEF Jobs, TypeOK
<1> DEFINE J == Jobs(frontier) \cup {a}
<1>3. /\ Jobs(frontier') \in SUBSET J /\ IsFiniteSet(J)
      /\ Cardinality(J) \in Nat /\ Cardinality(J) <= Cardinality(Jobs(frontier)) + 1
  <2> DEFINE I == Jobs(frontier)
  <2>1. IsFiniteSet(I) /\ Cardinality(I) \in Nat
    BY JobsCounted
  <2>2. Jobs(frontier') \in SUBSET J
    BY <1>2
  <2> HIDE DEF I
  <2>3. /\ IsFiniteSet(I \cup {a})
        /\ Cardinality(I \cup {a}) = IF a \in I THEN Cardinality(I) ELSE Cardinality(I) + 1
    BY ONLY <2>1, FS_AddElement
  <2>4. Cardinality(I \cup {a}) \in Nat /\ Cardinality(I \cup {a}) <= Cardinality(I) + 1
    BY <2>1, <2>3
  <2> QED
    BY <2>2, <2>3, <2>4 DEF I
<1>4. Cardinality(Jobs(frontier')) <= Cardinality(J)
  <2> HIDE DEF J
  <2> QED
    BY <1>3, FS_Subset
<1> HIDE DEF J
<1> QED
  BY <1>3, <1>4, JobsCounted

LEMMA LegsCounted ==
  ASSUME NEW legs \in SUBSET Tx
  PROVE  /\ IsFiniteSet(legs) /\ Cardinality(legs) \in Nat /\ Cardinality(Tx) \in Nat
         /\ Cardinality(legs) <= Cardinality(Tx)
BY FlowAssumption, FS_Subset, FS_CardinalityType

LEMMA RemainingNat ==
  ASSUME TypeOK, Bounded
  PROVE  Remaining \in Nat
<1>1. Spare(expansions) \in Nat
  BY SpareNat DEF TypeOK, Bounded
<1>2. PerExpansion \in Nat
  BY LegsCounted DEF PerExpansion
<1>3. Len(starts) \in Nat /\ Cardinality(now.legs) \in Nat
  <2>1. now.legs \in SUBSET Tx
    BY DEF TypeOK
  <2> QED
    BY <2>1, LegsCounted DEF TypeOK
<1>4. Cardinality(Jobs(frontier)) \in Nat
  BY JobsCounted
<1> DEFINE e == PerExpansion * Spare(expansions)
<1>5. e \in Nat
  BY <1>1, <1>2
<1> HIDE DEF e
<1>6. e + 2 * Len(starts) + Cardinality(Jobs(frontier)) + 2 * Cardinality(now.legs)
        + (IF now = Idle THEN 0 ELSE 1) \in Nat
  BY <1>3, <1>4, <1>5
<1> QED
  BY <1>6 DEF Remaining, e

\* The terms of a step, as numbers.
LEMMA TermsDrop ==
  ASSUME NEW e \in Int, NEW f \in Int, NEW s \in Nat, NEW u \in Nat, NEW j \in Nat, NEW k \in Nat,
         NEW l \in Nat, NEW m \in Nat, NEW b \in {0, 1}, NEW c \in {0, 1},
         (f - e) + 2 * (u - s) + (k - j) + 2 * (m - l) + (c - b) < 0
  PROVE  f + 2 * u + k + 2 * m + c < e + 2 * s + j + 2 * l + b
OBVIOUS

LEMMA RemainingDrops ==
  ASSUME TypeOK, TypeOK', Bounded, Bounded',
         LET P == PerExpansion * Spare(expansions)
             Q == PerExpansion * Spare(expansions')
             busy == IF now = Idle THEN 0 ELSE 1
             busy2 == IF now' = Idle THEN 0 ELSE 1
         IN  (Q - P) + 2 * (Len(starts') - Len(starts))
               + (Cardinality(Jobs(frontier')) - Cardinality(Jobs(frontier)))
               + 2 * (Cardinality(now'.legs) - Cardinality(now.legs)) + (busy2 - busy) < 0
  PROVE  Remaining' < Remaining
<1> DEFINE P == PerExpansion * Spare(expansions)
           Q == PerExpansion * Spare(expansions')
           busy == IF now = Idle THEN 0 ELSE 1
           busy2 == IF now' = Idle THEN 0 ELSE 1
<1>1. Spare(expansions) \in Nat
  BY SpareNat DEF TypeOK, Bounded
<1>2. Spare(expansions') \in Nat
  BY SpareNat DEF TypeOK, Bounded
<1>3. PerExpansion \in Nat
  BY LegsCounted DEF PerExpansion
<1>4. P \in Int /\ Q \in Int
  BY <1>1, <1>2, <1>3
<1>5. /\ Len(starts) \in Nat /\ Len(starts') \in Nat
      /\ now.legs \in SUBSET Tx /\ now'.legs \in SUBSET Tx
  <2>1. Len(starts) \in Nat /\ Len(starts') \in Nat
    BY DEF TypeOK
  <2>2. now.legs \in SUBSET Tx
    BY DEF TypeOK
  <2>3. now'.legs \in SUBSET Tx
    BY DEF TypeOK
  <2> QED
    BY <2>1, <2>2, <2>3
<1>6. Cardinality(now.legs) \in Nat /\ Cardinality(now'.legs) \in Nat
  BY <1>5, LegsCounted
<1>7. Cardinality(Jobs(frontier)) \in Nat /\ Cardinality(Jobs(frontier')) \in Nat
  BY JobsCounted
<1>8. busy \in {0, 1} /\ busy2 \in {0, 1}
  OBVIOUS
<1>9. /\ Remaining = P + 2 * Len(starts) + Cardinality(Jobs(frontier))
                       + 2 * Cardinality(now.legs) + busy
      /\ Remaining' = Q + 2 * Len(starts') + Cardinality(Jobs(frontier'))
                        + 2 * Cardinality(now'.legs) + busy2
  BY DEF Remaining, Spare, Jobs, PerExpansion
<1>10. (Q - P) + 2 * (Len(starts') - Len(starts))
         + (Cardinality(Jobs(frontier')) - Cardinality(Jobs(frontier)))
         + 2 * (Cardinality(now'.legs) - Cardinality(now.legs)) + (busy2 - busy) < 0
  OBVIOUS
<1> HIDE DEF P, Q, busy, busy2
<1> QED
  BY <1>4, <1>5, <1>6, <1>7, <1>8, <1>9, <1>10, TermsDrop

\* Jobs end, or are expanded; a branch is queued; a leg is taken; an expansion
\* is finished.
LEMMA StepShortens ==
  ASSUME TypeOK, TypeOK', Placed, Bounded, Bounded', Next
  PROVE  Remaining' < Remaining
<1> DEFINE P == PerExpansion * Spare(expansions)
           Q == PerExpansion * Spare(expansions')
           busy == IF now = Idle THEN 0 ELSE 1
           busy2 == IF now' = Idle THEN 0 ELSE 1
           J == Cardinality(Jobs(frontier))
           J2 == Cardinality(Jobs(frontier'))
           L == Cardinality(now.legs)
           L2 == Cardinality(now'.legs)
<1>1. /\ Spare(expansions) \in Nat /\ Spare(expansions') \in Nat
      /\ PerExpansion = 2 * Cardinality(Tx) + 2 /\ Cardinality(Tx) \in Nat
  BY SpareNat, LegsCounted DEF TypeOK, Bounded, PerExpansion
<1>2. now.legs \in SUBSET Tx
  BY DEF TypeOK
<1>3. now'.legs \in SUBSET Tx
  BY DEF TypeOK
<1>4. J \in Nat /\ J2 \in Nat /\ L \in Nat /\ L2 \in Nat /\ P \in Int /\ Q \in Int
  BY <1>1, <1>2, <1>3, JobsCounted, LegsCounted
<1>5. busy \in {0, 1} /\ busy2 \in {0, 1}
  OBVIOUS
<1>6. Len(starts) \in Nat /\ Len(starts') \in Nat
  <2>1. Len(starts) \in Nat
    BY DEF TypeOK
  <2>2. Len(starts') \in Nat
    BY DEF TypeOK
  <2> QED
    BY <2>1, <2>2
<1>7. SUFFICES (Q - P) + 2 * (Len(starts') - Len(starts)) + (J2 - J) + 2 * (L2 - L)
                 + (busy2 - busy) < 0
  BY RemainingDrops
<1>8. Idle.legs = {} /\ Cardinality({}) = 0
  BY FS_EmptySet DEF Idle
<1>9. expansions' = expansions => P = Q
  OBVIOUS
<1>10. now' = now => L2 = L /\ busy2 = busy
  OBVIOUS
<1>11. ASSUME NEW a \in Addr, MarkExpanded(a)
       PROVE  Q - P = -(2 * Cardinality(Tx) + 2)
  <2>1. Spare(expansions') = Spare(expansions) - 1
    BY <1>11, SpareDrops
  <2> DEFINE n == PerExpansion
             e == Spare(expansions)
  <2>2. n * (e - 1) - n * e = -n
    <3>1. n \in Int /\ e \in Int
      BY <1>1
    <3> HIDE DEF n, e
    <3> QED
      BY ONLY <3>1, HeadTailProperties
  <2> QED
    BY <1>1, <2>1, <2>2
<1> HIDE DEF P, Q, J, J2, L, L2, busy, busy2
<1>12. CASE StartBranch
  <2>1. Len(starts') = Len(starts) - 1
    BY <1>12 DEF StartBranch, TypeOK
  <2>2. J2 <= J + 1
    <3>1. starts \in Seq([to : Addr, amount : Nat \ {0}]) /\ starts # <<>>
      BY <1>12 DEF StartBranch, TypeOK
    <3>2. Head(starts) \in [to : Addr, amount : Nat \ {0}]
      BY ONLY <3>1, HeadTailProperties
    <3>3. Head(starts).to \in Addr
      BY <3>2
    <3> QED
      BY <1>12, <3>3, JobComes DEF StartBranch, J, J2
  <2>3. expansions' = expansions /\ now' = now
    BY <1>12 DEF StartBranch, counts
  <2> QED
    BY <1>4, <1>5, <1>6, <1>9, <1>10, <2>1, <2>2, <2>3
<1>13. ASSUME NEW a \in Addr, ExpandNext(a)
       PROVE  (Q - P) + 2 * (Len(starts') - Len(starts)) + (J2 - J) + 2 * (L2 - L)
                + (busy2 - busy) < 0
  <2>1. Picked(a) /\ frontier' = Dequeued(a) /\ starts' = starts
    BY <1>13 DEF ExpandNext, StopAtNode, StopAtLimit, StopAtHub, SearchFails, FindNothing,
                 FindSpends, Open, EndJob
  <2>2. J2 = J - 1
    BY <2>1, JobGone DEF Picked, J, J2
  <2>3. CASE FindSpends(a)
    <3>1. busy = 0 /\ L = 0
      BY <1>8, <2>1 DEF Picked, busy, L
    <3>2. L2 <= Cardinality(Tx)
      BY <1>3, LegsCounted DEF L2
    <3>3. Q - P = -(2 * Cardinality(Tx) + 2)
      BY <1>11, <2>3 DEF FindSpends
    <3> QED
      BY <1>1, <1>4, <1>5, <1>6, <2>1, <2>2, <3>1, <3>2, <3>3
  <2>4. CASE FindNothing(a)
    <3>1. Q - P = -(2 * Cardinality(Tx) + 2) /\ now' = now
      BY <1>11, <2>4 DEF FindNothing, EndJob
    <3> QED
      BY <1>1, <1>4, <1>5, <1>6, <1>10, <2>1, <2>2, <3>1
  <2>5. CASE ~FindSpends(a) /\ ~FindNothing(a)
    <3>1. expansions' = expansions /\ now' = now
      BY <1>13, <2>5 DEF ExpandNext, StopAtNode, StopAtLimit, StopAtHub, SearchFails, EndJob, counts
    <3> QED
      BY <1>4, <1>5, <1>6, <1>9, <1>10, <2>1, <2>2, <3>1
  <2> QED
    BY <2>3, <2>4, <2>5
<1>14. ASSUME NEW t \in Tx, TakeLeg(t)
       PROVE  (Q - P) + 2 * (Len(starts') - Len(starts)) + (J2 - J) + 2 * (L2 - L)
                + (busy2 - busy) < 0
  <2>1. t \in now.legs /\ now'.legs = now.legs \ {t}
    BY <1>14 DEF TakeLeg, Draw, TypeOK
  <2>2. L2 = L - 1
    BY <1>2, <2>1, LegsCounted, FS_RemoveElement DEF L, L2
  <2>3. busy = 1
    BY <1>8, <2>1 DEF busy
  <2>4. J2 <= J + 1
    <3>1. CASE EndLeg(t)
      BY <1>4, <3>1 DEF EndLeg, J, J2
    <3>2. CASE PassOn(t)
      <4>1. chain[t].to \in Addr
        BY DEF TypeOK, Spend
      <4> QED
        BY <3>2, <4>1, JobComes DEF PassOn, J, J2
    <3> QED
      BY <1>14, <3>1, <3>2 DEF TakeLeg
  <2>5. expansions' = expansions /\ starts' = starts
    BY <1>14 DEF TakeLeg, counts
  <2> QED
    BY <1>4, <1>5, <1>6, <1>9, <2>2, <2>3, <2>4, <2>5
<1>15. CASE FinishExpansion
  <2>1. /\ now # Idle /\ now.legs = {} /\ now' = Idle
        /\ expansions' = expansions /\ starts' = starts /\ frontier' = frontier
    BY <1>15 DEF FinishExpansion, counts
  <2>2. L = 0 /\ L2 = 0 /\ busy = 1 /\ busy2 = 0 /\ J2 = J
    BY <1>8, <2>1 DEF L, L2, busy, busy2, J, J2
  <2> QED
    BY <1>4, <1>6, <1>9, <2>1, <2>2
<1> QED
  BY <1>12, <1>13, <1>14, <1>15 DEF Next

\* Whatever the history, the limits and the failures of reads, each step of a walk
\* uses up some of a number that cannot go below zero: no cycle of the graph, and
\* no merge into an address that was expanded before, keeps a walk going.  At the
\* start it is as many as PerExpansion for each expansion an address may have,
\* and two for each branch.
THEOREM FlowShortens == Spec => [](Remaining \in Nat) /\ [][Remaining' < Remaining]_vars
<1>1. Init => Bounded
  BY FlowAssumption DEF Init, Bounded
<1>2. TypeOK /\ Bounded => Remaining \in Nat
  BY RemainingNat
<1>3. TypeOK /\ Placed /\ TypeOK' /\ Bounded /\ Bounded' /\ [Next]_vars
        => [Remaining' < Remaining]_vars
  BY StepShortens
<1> QED
  BY <1>1, <1>2, <1>3, StepBounded, FlowTypeCorrect, PTL DEF Spec

\* Of the members of a finite set, one has the most.
LEMMA MostOf ==
  ASSUME NEW S \in SUBSET Addr, S # {}, NEW f, \A a \in Addr : f[a] \in Nat
  PROVE  \E a \in S : \A b \in S : f[b] <= f[a]
<1> DEFINE sum == SumFunctionOnSet(f, Addr)
           Short == { sum - f[a] : a \in S }
<1>1. IsFiniteSet(Addr) /\ sum \in Nat
  BY FlowAssumption, SumNat
<1>2. ASSUME NEW a \in S PROVE f[a] <= sum
  <2>1. SumFunctionOnSet(f, {a}) <= SumFunctionOnSet(f, Addr)
    BY <1>1, SumPart
  <2>2. SumFunctionOnSet(f, {a}) = f[a] + SumFunctionOnSet(f, {a} \ {a})
    BY <1>1, SumTaking
  <2>3. {a} \ {a} = {}
    OBVIOUS
  <2>4. SumFunctionOnSet(f, {a}) = f[a] + 0
    BY <2>2, <2>3, SumEmpty
  <2> QED
    BY <2>1, <2>4
<1> HIDE DEF sum
<1>3. Short \in SUBSET Nat /\ Short # {}
  BY <1>1, <1>2
<1> HIDE DEF Short
<1>4. PICK n \in Short : \A m \in Short : n <= m
  BY <1>3, LeastNat
<1>5. PICK a \in S : n = sum - f[a]
  BY <1>4 DEF Short
<1>6. \A b \in S : sum - f[a] <= sum - f[b]
  BY <1>4, <1>5 DEF Short
<1>7. \A b \in S : f[a] \in Nat /\ f[b] \in Nat
  OBVIOUS
<1>8. \A b \in S : f[b] <= f[a]
  BY <1>1, <1>6, <1>7
<1> QED
  BY <1>8

\* And one the least.
LEMMA LeastOf ==
  ASSUME NEW S \in SUBSET Addr, S # {}, NEW f, \A a \in Addr : f[a] \in Nat
  PROVE  \E a \in S : \A b \in S : f[a] <= f[b]
<1> DEFINE T == { f[a] : a \in S }
<1>1. T \in SUBSET Nat /\ T # {}
  OBVIOUS
<1> HIDE DEF T
<1>2. PICK n \in T : \A m \in T : n <= m
  BY <1>1, LeastNat
<1> QED
  BY <1>2 DEF T

\* Among the queued jobs there is one that no other comes before.
LEMMA OnePicked ==
  ASSUME TypeOK, starts = <<>>, now = Idle, NEW x \in Addr, Queued(x)
  PROVE  \E a \in Addr : Picked(a)
<1> DEFINE Q == { a \in Addr : Queued(a) }
           amount == [a \in Addr |-> frontier[a].amount]
           depth == [a \in Addr |-> frontier[a].depth]
<1>1. \A a \in Addr : amount[a] \in Nat /\ depth[a] \in Nat
  BY DEF TypeOK, Job
<1>2. Q \in SUBSET Addr /\ Q # {}
  OBVIOUS
<1>3. \A a \in Addr : amount[a] = frontier[a].amount /\ depth[a] = frontier[a].depth
  OBVIOUS
<1>4. SUFFICES \E a \in Q : \A b \in Q : ~Better(b, a)
  BY DEF Picked
<1> HIDE DEF Q, amount, depth
<1>5. CASE Heaviest
  <2>1. PICK h \in Q : \A b \in Q : amount[b] <= amount[h]
    BY <1>1, <1>2, MostOf
  <2> DEFINE S == { a \in Q : amount[a] = amount[h] }
  <2>2. S \in SUBSET Addr /\ S # {}
    BY <1>2
  <2> HIDE DEF S
  <2>3. PICK a \in S : \A b \in S : depth[a] <= depth[b]
    BY <1>1, <2>2, LeastOf
  <2>4. a \in Q /\ a \in Addr /\ amount[a] = amount[h]
    BY <1>2, <2>3 DEF S
  <2>5. ASSUME NEW b \in Q PROVE ~Better(b, a)
    <3>1. b \in Addr /\ amount[b] <= amount[a] /\ (amount[b] = amount[a] => depth[a] <= depth[b])
      BY <1>2, <2>1, <2>3, <2>4 DEF S
    <3>2. ~(amount[b] > amount[a] \/ (amount[b] = amount[a] /\ depth[b] < depth[a]))
      BY <1>1, <2>4, <3>1
    <3> QED
      BY <1>3, <1>5, <2>4, <3>1, <3>2 DEF Better
  <2> QED
    BY <2>4, <2>5
<1>6. CASE ~Heaviest
  <2>1. PICK h \in Q : \A b \in Q : depth[h] <= depth[b]
    BY <1>1, <1>2, LeastOf
  <2> DEFINE S == { a \in Q : depth[a] = depth[h] }
  <2>2. S \in SUBSET Addr /\ S # {}
    BY <1>2
  <2> HIDE DEF S
  <2>3. PICK a \in S : \A b \in S : amount[b] <= amount[a]
    BY <1>1, <2>2, MostOf
  <2>4. a \in Q /\ a \in Addr /\ depth[a] = depth[h]
    BY <1>2, <2>3 DEF S
  <2>5. ASSUME NEW b \in Q PROVE ~Better(b, a)
    <3>1. b \in Addr /\ depth[a] <= depth[b] /\ (depth[b] = depth[a] => amount[b] <= amount[a])
      BY <1>2, <2>1, <2>3, <2>4 DEF S
    <3>2. ~(depth[b] < depth[a] \/ (depth[b] = depth[a] /\ amount[b] > amount[a]))
      BY <1>1, <2>4, <3>1
    <3> QED
      BY <1>3, <1>6, <2>4, <3>1, <3>2 DEF Better
  <2> QED
    BY <2>4, <2>5
<1> QED
  BY <1>5, <1>6

\* With no branch to start and no expansion under way, a queued job is followed
\* by one that may be taken up: the order of the frontier never leaves all jobs
\* behind each other, when it changes with the node limit too.
THEOREM FlowGoesOn ==
  Spec => [](starts = <<>> /\ now = Idle /\ (\E a \in Addr : Queued(a))
               => \E a \in Addr : Picked(a))
<1>1. TypeOK => (starts = <<>> /\ now = Idle /\ (\E a \in Addr : Queued(a))
                   => \E a \in Addr : Picked(a))
  BY OnePicked
<1> QED
  BY <1>1, FlowTypeCorrect, PTL
=============================================================================
