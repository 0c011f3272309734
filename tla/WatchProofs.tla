---------------------------- MODULE WatchProofs ----------------------------
(***************************************************************************)
(* Theorems about Watch, for any addresses, rows, calls and page sizes.    *)
(***************************************************************************)
EXTENDS Watch, TLAPS, WellFoundedInduction, FiniteSetTheorems

(***************************************************************************)
(* Largest elements: a bounded set of naturals has one.                    *)
(***************************************************************************)
LEMMA MaxIsUpperBound ==
  ASSUME NEW S \in SUBSET Nat, S # {}, NEW b \in Nat, \A x \in S : x <= b
  PROVE  Max(S) \in S /\ \A x \in S : x <= Max(S)
<1> DEFINE Upper == { n \in Nat : \A x \in S : x <= n }
<1>1. PICK m \in Upper : \A n \in Upper : ~(<<n, m>> \in OpToRel(<, Nat))
  <2>1. b \in Upper
    OBVIOUS
  <2> QED
    BY <2>1, NatLessThanWellFounded, WFMin
<1>2. \A n \in Upper : m <= n
  <2>1. ASSUME NEW n \in Upper, n < m PROVE FALSE
    <3>1. <<n, m>> \in OpToRel(<, Nat)
      BY <2>1 DEF OpToRel
    <3> QED
      BY <3>1, <1>1
  <2> QED
    BY <2>1
<1>3. m \in Nat /\ \A x \in S : x <= m
  OBVIOUS
<1>4. m \in S
  <2>1. SUFFICES ASSUME m \notin S PROVE FALSE
    OBVIOUS
  <2>2. \A x \in S : x < m
    BY <2>1, <1>3
  <2>3. m > 0
    <3>1. PICK x \in S : TRUE
      OBVIOUS
    <3>2. x \in Nat /\ x < m
      BY <3>1, <2>2
    <3> QED
      BY <3>2, <1>3
  <2>4. m - 1 \in Upper
    BY <2>2, <2>3, <1>3
  <2> QED
    BY <2>4, <1>2, <1>3
<1> QED
  BY <1>3, <1>4 DEF Max

LEMMA MaxOfTwo ==
  ASSUME NEW x \in Int, NEW y \in Nat
  PROVE  /\ Max({x, y}) \in {x, y}
         /\ Max({x, y}) >= x /\ Max({x, y}) >= y
         /\ Max({x, y}) \in Nat
<1>1. \E m \in {x, y} : \A z \in {x, y} : m >= z
  BY x >= y \/ y >= x
<1>2. Max({x, y}) \in {x, y} /\ \A z \in {x, y} : Max({x, y}) >= z
  BY <1>1 DEF Max
<1> QED
  BY <1>2

LEMMA PollsTyped ==
  ASSUME TypeOK, NEW c \in Call, call[c].op = "poll"
  PROVE  call[c] \in PollType
BY DEF TypeOK, CallType, AddType, ReplyType, PollType, Idle

LEMMA AddsTyped ==
  ASSUME TypeOK, NEW c \in Call, call[c].op = "add"
  PROVE  call[c] \in AddType
BY DEF TypeOK, CallType, AddType, ReplyType, PollType, Idle

LEMMA RepliesTyped ==
  ASSUME TypeOK, NEW c \in Call, call[c].op = "reply"
  PROVE  call[c] \in ReplyType
BY DEF TypeOK, CallType, AddType, ReplyType, PollType, Idle

LEMMA TxTyped ==
  ASSUME TypeOK, NEW a \in Address, NEW i \in DOMAIN chain[a]
  PROVE  i \in Nat /\ chain[a][i] \in Tx /\ chain[a][i].cp \in Nat
<1>1. chain[a] \in Seq(Tx)
  BY DEF TypeOK
<1>2. i \in 1..Len(chain[a]) /\ chain[a][i] \in Tx
  BY <1>1
<1> QED
  BY <1>1, <1>2 DEF Tx

(***************************************************************************)
(* The cursor a poll means to write is a checkpoint that was served.       *)
(***************************************************************************)
LEMMA TargetServed ==
  ASSUME TypeInv, NEW c \in InFlight("poll"), NEW k \in call[c].rows
  PROVE  Target(call[c], k) \in Nat /\ Target(call[c], k) <= head
<1> DEFINE p == call[c]
           a == Norm[k]
           cps == Checkpoints(a, p.page[a])
<1>1. c \in Call /\ call[c].op = "poll"
  BY DEF InFlight
<1>2. p \in PollType
  BY <1>1, PollsTyped DEF TypeInv
<1>3. head \in Nat /\ chain \in [Address -> Seq(Tx)]
  BY DEF TypeInv, TypeOK
<1>4. k \in Key /\ p.cursor[k] \in Nat
  BY <1>2 DEF PollType
<1>5. p.cursor[k] <= head /\ Norm[k] # Malformed
  BY DEF TypeInv, Bounded, PagesVisible
<1>6. a \in Address
  BY <1>4, <1>5, WatchAssumption
<1>7. \A i \in p.page[a] : i \in DOMAIN chain[a] /\ chain[a][i].cp <= head
  BY <1>6 DEF TypeInv, PagesVisible
<1>8. cps \in SUBSET Nat /\ \A x \in cps : x <= head
  <2>1. SUFFICES ASSUME NEW i \in p.page[a] PROVE chain[a][i].cp \in Nat /\ chain[a][i].cp <= head
    BY DEF Checkpoints
  <2> QED
    BY <1>6, <1>7, TxTyped DEF TypeInv
<1>9. CASE cps = {}
  BY <1>3, <1>4, <1>5, <1>9 DEF Target, SafeAdvance
<1>10. CASE cps # {}
  <2>1. Max(cps) \in Nat /\ Max(cps) <= head
    BY <1>3, <1>8, <1>10, MaxIsUpperBound
  <2>2. Max(cps) - 1 \in Int
    BY <2>1
  <2>3. /\ Max({Max(cps) - 1, p.cursor[k]}) \in {Max(cps) - 1, p.cursor[k]}
        /\ Max({Max(cps) - 1, p.cursor[k]}) \in Nat
    BY ONLY <2>2, <1>4, MaxOfTwo, Zenon
  <2>4. Max({Max(cps) - 1, p.cursor[k]}) <= head
    BY <2>1, <2>3, <1>3, <1>4, <1>5
  <2>5. SafeAdvance(cps, a \in p.full, p.cursor[k])
          \in {p.cursor[k], Max(cps), Max({Max(cps) - 1, p.cursor[k]})}
    BY <1>10 DEF SafeAdvance
  <2> QED
    BY <1>3, <1>4, <1>5, <2>1, <2>3, <2>4, <2>5 DEF Target
<1> QED
  BY <1>9, <1>10

(***************************************************************************)
(* Type correctness, one lemma per action that changes more than one part. *)
(***************************************************************************)
LEMMA InitTypeInv == Init => TypeInv
<1> SUFFICES ASSUME Init PROVE TypeInv
  OBVIOUS
<1>1. \A c \in Call : call[c].op = "idle"
  BY DEF Init, Idle
<1>2. InFlight("add") = {} /\ InFlight("poll") = {}
  BY <1>1 DEF InFlight
<1>3. None \in AddressSets
  BY DEF None, AddressSets
<1>4. chain \in [Address -> Seq(Tx)]
  BY DEF Init
<1>5. TypeOK
  BY <1>3, <1>4 DEF Init, TypeOK, CallType
<1> QED
  BY <1>2, <1>5 DEF TypeInv, Bounded, PagesVisible, Init

LEMMA ExecuteTypeInv ==
  ASSUME TypeInv, NEW a \in Address, NEW s \in Sizes, Execute(a, s)
  PROVE  TypeInv'
<1> DEFINE tx == [cp |-> head + 1, small |-> s]
<1>1. tx \in Tx /\ chain[a] \in Seq(Tx)
  BY WatchAssumption DEF TypeInv, TypeOK, Tx
<1>2. chain' = [chain EXCEPT ![a] = Append(chain[a], tx)]
  BY DEF Execute
<1>3. TypeOK'
  BY <1>1, <1>2 DEF TypeInv, TypeOK, Execute, store, history
<1>4. \A b \in Address : \A i \in DOMAIN chain[b] :
        i \in DOMAIN chain'[b] /\ chain'[b][i] = chain[b][i]
  BY <1>1, <1>2 DEF TypeInv, TypeOK
<1>5. PagesVisible'
  BY <1>4 DEF TypeInv, PagesVisible, Execute, InFlight
<1> QED
  BY <1>3, <1>5 DEF TypeInv, Bounded, Execute, store, InFlight

LEMMA FinishAddTypeInv ==
  ASSUME TypeInv, NEW c \in Call, FinishAdd(c)
  PROVE  TypeInv'
<1> DEFINE p == call[c]
<1>1. p \in AddType /\ p.from <= head
  BY AddsTyped DEF TypeInv, FinishAdd, Bounded, InFlight
<1>2. PICK K \in SUBSET { Canon[a] : a \in p.addrs } : SaveWatches(K, p.floor, p.from)
  BY DEF FinishAdd
<1>3. K \subseteq Key /\ p.from \in Nat
  BY <1>1, WatchAssumption DEF AddType
<1>4. call' = [call EXCEPT ![c] = Idle]
  BY DEF FinishAdd
<1>5. TypeOK'
  BY <1>2, <1>3, <1>4 DEF TypeInv, TypeOK, SaveWatches, NewFloor, FinishAdd, CallType, history
<1>6. InFlight("add")' \subseteq InFlight("add") /\ InFlight("poll")' \subseteq InFlight("poll")
  BY <1>4 DEF TypeInv, TypeOK, InFlight, Idle
<1>7. \A d \in Call : d # c => call'[d] = call[d]
  BY <1>4 DEF TypeInv, TypeOK
<1>8. Bounded'
  BY <1>1, <1>2, <1>3, <1>4, <1>6, <1>7
  DEF TypeInv, TypeOK, Bounded, SaveWatches, FinishAdd, InFlight, Idle
<1> QED
  BY <1>4, <1>5, <1>6, <1>7, <1>8 DEF TypeInv, PagesVisible, FinishAdd, InFlight, Idle

\* A step that only replaces one call's record, by one that is sound.
LEMMA CallTypeInv ==
  ASSUME TypeInv, NEW c \in Call, NEW p \in CallType,
         call' = [call EXCEPT ![c] = p],
         UNCHANGED <<chain, head, store, muted, lost>>,
         told' \in AddressSets,
         p.op = "add" => p.from <= head,
         p.op = "poll" =>
           /\ p.todo \subseteq p.rows
           /\ \A k \in p.rows : p.cursor[k] <= head /\ Norm[k] # Malformed
           /\ \A a \in Address : \A i \in p.page[a] : i \in DOMAIN chain[a] /\ chain[a][i].cp <= head
  PROVE  TypeInv'
<1>1. TypeOK'
  BY DEF TypeInv, TypeOK, store
<1>2. call'[c] = p /\ \A d \in Call : d # c => call'[d] = call[d]
  BY DEF TypeInv, TypeOK
<1>3. Bounded'
  BY <1>2 DEF TypeInv, Bounded, InFlight, store
<1>4. PagesVisible'
  BY <1>2 DEF TypeInv, PagesVisible, InFlight
<1> QED
  BY <1>1, <1>3, <1>4 DEF TypeInv

LEMMA IdleIsCall == Idle \in CallType /\ Idle.op = "idle"
BY DEF CallType, Idle

LEMMA BeginAddTypeInv ==
  ASSUME TypeInv, NEW c \in Call, NEW A \in SUBSET Address,
         NEW f \in {"set", "clear", "keep"}, BeginAdd(c, A, f)
  PROVE  TypeInv'
<1>1. AddCall(A, f, head) \in AddType
  BY DEF AddCall, AddType, TypeInv, TypeOK
<1>2. AddCall(A, f, head) \in CallType
  BY <1>1 DEF CallType
<1>3. AddCall(A, f, head).op = "add" /\ AddCall(A, f, head).from <= head
  BY DEF AddCall, TypeInv, TypeOK
<1> QED
  BY <1>2, <1>3, CallTypeInv DEF BeginAdd, TypeInv, TypeOK, history

LEMMA RemoveTypeInv ==
  ASSUME TypeInv, NEW raw \in Key, Remove(raw)
  PROVE  TypeInv'
BY DEF TypeInv, TypeOK, Bounded, PagesVisible, InFlight, Remove, history

LEMMA BeginPollTypeInv ==
  ASSUME TypeInv, NEW c \in Call, NEW m \in Caps, BeginPoll(c, m)
  PROVE  TypeInv'
<1>1. PollCall(m) \in PollType
  BY DEF PollCall, PollType, None, AddressSets, TypeInv, TypeOK
<1>2. \A k \in PollCall(m).rows : PollCall(m).cursor[k] <= head /\ Norm[k] # Malformed
  BY DEF PollCall, TypeInv, TypeOK, Bounded
<1>3. PollCall(m).todo \subseteq PollCall(m).rows /\ PollCall(m).op = "poll"
  BY DEF PollCall
<1>4. \A a \in Address : PollCall(m).page[a] = {}
  BY DEF PollCall, None
<1>5. PollCall(m) \in CallType
  BY <1>1 DEF CallType
<1> QED
  BY <1>2, <1>3, <1>4, <1>5, CallTypeInv DEF BeginPoll, TypeInv, TypeOK, history

LEMMA PageServed ==
  ASSUME NEW a, NEW n, NEW m, NEW i \in Page(a, n, m)
  PROVE  i \in Pending(a, n) /\ i \in DOMAIN chain[a] /\ n < chain[a][i].cp /\ chain[a][i].cp <= head
BY DEF Page, Pending

LEMMA FetchedTyped ==
  ASSUME TypeInv, NEW c \in Call, call[c].op = "poll", NEW B \in SUBSET call[c].todo
  PROVE  /\ Fetched(call[c], B) \in PollType
         /\ Fetched(call[c], B).todo \subseteq Fetched(call[c], B).rows
         /\ Fetched(call[c], B).rows = call[c].rows
         /\ Fetched(call[c], B).cursor = call[c].cursor
         /\ \A a \in Address : \A i \in Fetched(call[c], B).page[a] :
              i \in DOMAIN chain[a] /\ chain[a][i].cp <= head
<1> DEFINE p == call[c]
           q == Fetched(p, B)
<1>1. p \in PollType /\ c \in InFlight("poll")
  BY PollsTyped DEF TypeInv, InFlight
<1>2. \A a \in Address : q.page[a] = IF \E k \in B : Norm[k] = a
                                    THEN Page(a, p.cursor[Winner(B, a)], p.cap) ELSE p.page[a]
  BY <1>1 DEF Fetched, PollType
<1>3. \A a \in Address : \A i \in q.page[a] : i \in DOMAIN chain[a] /\ chain[a][i].cp <= head
  BY <1>1, <1>2, PageServed DEF TypeInv, PagesVisible
<1>4. \A a \in Address : q.page[a] \subseteq Nat
  BY <1>3, TxTyped DEF TypeInv
<1>5. q.page \in AddressSets
  BY <1>1, <1>4 DEF Fetched, PollType, AddressSets
<1>6. B \subseteq p.rows /\ \A k \in B : Norm[k] \in Address
  BY <1>1, WatchAssumption DEF TypeInv, PagesVisible, PollType
<1>7. q.full \subseteq Address
  BY <1>1, <1>6 DEF Fetched, PollType
<1>8. /\ q.op = "poll" /\ q.cap = p.cap /\ q.rows = p.rows /\ q.cursor = p.cursor
      /\ q.floor = p.floor /\ q.todo = p.todo \ B
  BY <1>1 DEF Fetched, PollType
<1>9. q \in PollType
  BY <1>1, <1>5, <1>7, <1>8 DEF Fetched, PollType
<1>10. p.todo \subseteq p.rows
  BY <1>1 DEF TypeInv, PagesVisible
<1> QED
  BY <1>3, <1>8, <1>9, <1>10

LEMMA FetchBatchTypeInv ==
  ASSUME TypeInv, NEW c \in Call, FetchBatch(c)
  PROVE  TypeInv'
<1>1. PICK B \in SUBSET call[c].todo : call' = [call EXCEPT ![c] = Fetched(call[c], B)]
  BY DEF FetchBatch, TypeInv, TypeOK
<1>2. c \in InFlight("poll")
  BY DEF FetchBatch, InFlight
<1>3. \A k \in call[c].rows : call[c].cursor[k] <= head /\ Norm[k] # Malformed
  BY <1>2 DEF TypeInv, Bounded, PagesVisible
<1>4. Fetched(call[c], B) \in PollType
  BY FetchedTyped DEF FetchBatch
<1>5. Fetched(call[c], B).op = "poll"
  BY <1>4 DEF PollType
<1> QED
  BY <1>1, <1>3, <1>4, <1>5, FetchedTyped, CallTypeInv
  DEF FetchBatch, CallType, TypeInv, TypeOK, history

LEMMA CallFailsTypeInv ==
  ASSUME TypeInv, NEW c \in Call, CallFails(c)
  PROVE  TypeInv'
BY IdleIsCall, CallTypeInv DEF CallFails, TypeInv, TypeOK, history

LEMMA DeliverTypeInv ==
  ASSUME TypeInv, NEW c \in Call, Deliver(c)
  PROVE  TypeInv'
<1>1. call[c] \in ReplyType
  BY RepliesTyped DEF TypeInv, Deliver
<1>2. told' \in AddressSets
  BY <1>1 DEF Deliver, TypeInv, TypeOK, AddressSets, ReplyType
<1> QED
  BY <1>2, IdleIsCall, CallTypeInv DEF Deliver, TypeInv, TypeOK

\* Cursors that a finishing poll or a dying process leaves behind.
LEMMA CursorMoved ==
  ASSUME TypeInv, NEW c \in InFlight("poll"), NEW moved \in SUBSET Movers(call[c]),
         \A k \in moved : Advances(call[c], k),
         cursor' = [k \in Key |-> IF k \in moved THEN Target(call[c], k) ELSE cursor[k]]
  PROVE  /\ cursor' \in [Key -> Nat]
         /\ \A k \in Key : start[k] <= cursor'[k] /\ cursor[k] <= cursor'[k] /\ cursor'[k] <= head
<1>1. \A k \in moved : /\ k \in call[c].rows
                       /\ Target(call[c], k) \in Nat /\ Target(call[c], k) <= head
                       /\ cursor[k] < Target(call[c], k)
  BY TargetServed DEF Movers, Advances
<1> QED
  BY <1>1 DEF TypeInv, TypeOK, Bounded

LEMMA ReplyTyped ==
  ASSUME TypeInv, NEW c \in InFlight("poll"), NEW late \in SUBSET Movers(call[c])
  PROVE  Reply(call[c], late) \in ReplyType
<1> DEFINE p == call[c]
<1>1. p \in PollType
  BY PollsTyped DEF TypeInv, InFlight
<1>2. \A k \in p.rows : Norm[k] \in Address
  BY <1>1, WatchAssumption DEF TypeInv, PagesVisible, PollType
<1>3. late \subseteq p.rows
  BY DEF Movers
<1>4. Reply(p, late).hits \in AddressSets
  BY <1>1 DEF Reply, PollType, AddressSets
<1>5. Reply(p, late).stalled \subseteq Address /\ Reply(p, late).lagging \subseteq Address
  BY <1>2, <1>3 DEF Reply
<1> QED
  BY <1>1, <1>4, <1>5 DEF Reply, ReplyType, PollType

LEMMA FinishPollTypeInv ==
  ASSUME TypeInv, NEW c \in Call, FinishPoll(c)
  PROVE  TypeInv'
<1> DEFINE p == call[c]
<1>1. c \in InFlight("poll") /\ p \in PollType
  BY PollsTyped DEF FinishPoll, InFlight, TypeInv
<1>2. PICK written \in SUBSET Movers(p) :
        LET moved == { k \in written : Advances(p, k) }
        IN /\ cursor' = [k \in Key |-> IF k \in moved THEN Target(p, k) ELSE cursor[k]]
           /\ muted' = [a \in Address |-> muted[a] \cup Suppressed(p, a)]
           /\ call' = [call EXCEPT ![c] = Reply(p, Movers(p) \ moved)]
  BY DEF FinishPoll
<1> DEFINE moved == { k \in written : Advances(p, k) }
           r == Reply(p, Movers(p) \ moved)
<1>3. /\ cursor' \in [Key -> Nat]
      /\ \A k \in Key : start[k] <= cursor'[k] /\ cursor'[k] <= head
  BY <1>1, <1>2, CursorMoved
<1>4. r \in ReplyType /\ r.op = "reply"
  BY <1>1, ReplyTyped DEF Reply
<1>5. muted' \in AddressSets
  BY <1>1, <1>2 DEF TypeInv, TypeOK, AddressSets, PollType, Suppressed
<1>6. call' = [call EXCEPT ![c] = r]
  BY <1>2
<1>7. TypeOK'
  BY <1>3, <1>4, <1>5, <1>6 DEF TypeInv, TypeOK, FinishPoll, CallType
<1>8. call'[c] = r /\ \A d \in Call : d # c => call'[d] = call[d]
  BY <1>6 DEF TypeInv, TypeOK
<1>9. Bounded'
  BY <1>3, <1>4, <1>8 DEF TypeInv, Bounded, InFlight, FinishPoll
<1>10. PagesVisible'
  BY <1>4, <1>8 DEF TypeInv, PagesVisible, InFlight, FinishPoll
<1> QED
  BY <1>7, <1>9, <1>10 DEF TypeInv

LEMMA CrashTypeInv ==
  ASSUME TypeInv, Crash
  PROVE  TypeInv'
<1>0. PICK c \in Call : \E moved \in SUBSET Interrupted(call[c]) :
        LET unsent == [a \in Address |->
                         UNION { call[c].page[Norm[k]] : k \in { r \in moved : Norm[r] = a } }]
        IN /\ cursor' = [k \in Key |-> IF k \in moved THEN Target(call[c], k) ELSE cursor[k]]
           /\ lost' = [a \in Address |-> lost[a] \cup unsent[a] \cup Outbox(a)]
  BY DEF Crash
<1>1. PICK moved \in SUBSET Interrupted(call[c]) :
        LET unsent == [a \in Address |->
                         UNION { call[c].page[Norm[k]] : k \in { r \in moved : Norm[r] = a } }]
        IN /\ cursor' = [k \in Key |-> IF k \in moved THEN Target(call[c], k) ELSE cursor[k]]
           /\ lost' = [a \in Address |-> lost[a] \cup unsent[a] \cup Outbox(a)]
  BY <1>0
<1>2. /\ cursor' \in [Key -> Nat]
      /\ \A k \in Key : start[k] <= cursor'[k] /\ cursor'[k] <= head
  <2>1. CASE moved = {}
    BY <1>1, <2>1 DEF TypeInv, TypeOK, Bounded
  <2>2. CASE moved # {}
    <3>1. c \in InFlight("poll") /\ moved \subseteq Movers(call[c])
      BY <2>2 DEF Interrupted, InFlight
    <3>2. \A k \in moved : Advances(call[c], k)
      BY <2>2 DEF Interrupted
    <3> QED
      BY <1>1, <3>1, <3>2, CursorMoved
  <2> QED
    BY <2>1, <2>2
<1>3. \A a \in Address : Outbox(a) \subseteq Nat
  BY RepliesTyped DEF Outbox, InFlight, TypeInv, ReplyType, AddressSets
<1>4. \A k \in moved : call[c].page[Norm[k]] \subseteq Nat
  <2> SUFFICES ASSUME NEW k \in moved PROVE call[c].page[Norm[k]] \subseteq Nat
    OBVIOUS
  <2>1. c \in InFlight("poll") /\ k \in call[c].rows
    BY DEF Interrupted, InFlight, Movers
  <2>2. call[c] \in PollType
    BY <2>1, PollsTyped DEF TypeInv, InFlight
  <2>3. Norm[k] \in Address
    BY <2>1, <2>2, WatchAssumption DEF TypeInv, PagesVisible, PollType
  <2> QED
    BY <2>2, <2>3 DEF PollType, AddressSets
<1>5. lost' \in AddressSets
  BY <1>1, <1>3, <1>4 DEF TypeInv, TypeOK, AddressSets
<1>6. call' = [d \in Call |-> Idle]
  BY DEF Crash
<1>7. InFlight("add")' = {} /\ InFlight("poll")' = {}
  BY <1>6 DEF InFlight, Idle
<1>8. TypeOK'
  BY <1>2, <1>5, <1>6 DEF TypeInv, TypeOK, Crash, CallType
<1> QED
  BY <1>2, <1>7, <1>8 DEF TypeInv, Bounded, PagesVisible, Crash

LEMMA CertifyTypeInv == ASSUME TypeInv, Certify PROVE TypeInv'
<1>1. \A n \in Nat : n <= head => n <= head'
  BY DEF Certify, TypeInv, TypeOK
<1>2. TypeOK' /\ Bounded'
  <2>1. TypeOK'
    BY DEF TypeInv, TypeOK, Certify, store, history
  <2>2. \A c \in InFlight("add") : call[c].from \in Nat
    BY AddsTyped DEF TypeInv, InFlight, AddType
  <2>3. \A c \in InFlight("poll") : \A k \in call[c].rows : call[c].cursor[k] \in Nat
    BY PollsTyped DEF TypeInv, InFlight, PollType
  <2> QED
    BY <1>1, <2>1, <2>2, <2>3 DEF TypeInv, TypeOK, Bounded, Certify, store, InFlight
<1>3. PagesVisible'
  BY <1>1, TxTyped DEF TypeInv, PagesVisible, Certify, InFlight
<1> QED
  BY <1>2, <1>3 DEF TypeInv

LEMMA NextTypeInv == TypeInv /\ [Next]_vars => TypeInv'
<1> SUFFICES ASSUME TypeInv, [Next]_vars PROVE TypeInv'
  OBVIOUS
<1>1. CASE UNCHANGED vars
  BY <1>1 DEF vars, store, history, TypeInv, TypeOK, Bounded, PagesVisible, InFlight
<1>2. CASE Next
  BY <1>2, ExecuteTypeInv, CertifyTypeInv, BeginAddTypeInv, FinishAddTypeInv, RemoveTypeInv,
     BeginPollTypeInv, FetchBatchTypeInv, FinishPollTypeInv, CallFailsTypeInv, DeliverTypeInv,
     CrashTypeInv
  DEF Next
<1> QED
  BY <1>1, <1>2

LEMMA TypeInvariance == Spec => []TypeInv
BY InitTypeInv, NextTypeInv, PTL DEF Spec

\* Every variable of the watch keeps its type: rows, captured calls and pages.
THEOREM TypeCorrect == Spec => []TypeOK
<1>1. TypeInv => TypeOK
  BY DEF TypeInv
<1> QED
  BY <1>1, TypeInvariance, PTL

\* No step moves the cursor of a row that stands back.
LEMMA NextCursor ==
  TypeInv /\ [Next]_vars => \A k \in watched \cap watched' : cursor[k] <= cursor'[k]
<1> SUFFICES ASSUME TypeInv, [Next]_vars, NEW k \in watched \cap watched'
             PROVE  cursor[k] <= cursor'[k]
  OBVIOUS
<1>1. k \in Key /\ cursor[k] \in Nat
  BY DEF TypeInv, TypeOK
<1>2. CASE cursor' = cursor
  BY <1>1, <1>2
<1>3. ASSUME NEW c \in Call, FinishAdd(c) PROVE cursor'[k] = cursor[k]
  BY <1>1, <1>3 DEF FinishAdd, SaveWatches
<1>4. ASSUME NEW raw \in Key, Remove(raw) PROVE cursor'[k] = cursor[k]
  BY <1>1, <1>4 DEF Remove
<1>5. ASSUME NEW c \in Call, FinishPoll(c) PROVE cursor[k] <= cursor'[k]
  <2>1. c \in InFlight("poll")
    BY <1>5 DEF FinishPoll, InFlight
  <2>2. PICK written \in SUBSET Movers(call[c]) :
          LET moved == { q \in written : Advances(call[c], q) }
          IN cursor' = [q \in Key |-> IF q \in moved THEN Target(call[c], q) ELSE cursor[q]]
    BY <1>5 DEF FinishPoll
  <2> QED
    BY <1>1, <2>1, <2>2, CursorMoved
<1>6. ASSUME Crash PROVE cursor[k] <= cursor'[k]
  <2>1. PICK c \in Call : \E moved \in SUBSET Interrupted(call[c]) :
          cursor' = [q \in Key |-> IF q \in moved THEN Target(call[c], q) ELSE cursor[q]]
    BY <1>6 DEF Crash
  <2>2. PICK moved \in SUBSET Interrupted(call[c]) :
          cursor' = [q \in Key |-> IF q \in moved THEN Target(call[c], q) ELSE cursor[q]]
    BY <2>1
  <2>3. CASE moved = {}
    BY <1>1, <2>2, <2>3
  <2>4. CASE moved # {}
    <3>1. /\ c \in InFlight("poll") /\ moved \subseteq Movers(call[c])
          /\ \A q \in moved : Advances(call[c], q)
      BY <2>4 DEF Interrupted, InFlight
    <3> QED
      BY <1>1, <2>2, <3>1, CursorMoved
  <2> QED
    BY <2>3, <2>4
<1>7. CASE UNCHANGED vars
  BY <1>2, <1>7 DEF vars, store
<1>8. CASE Next
  <2>1. ASSUME NEW c \in Call,
               \/ \E A \in SUBSET Address, f \in {"set", "clear", "keep"} : BeginAdd(c, A, f)
               \/ \E m \in Caps : BeginPoll(c, m)
               \/ FetchBatch(c) \/ CallFails(c) \/ Deliver(c)
        PROVE  cursor' = cursor
    BY <2>1 DEF BeginAdd, BeginPoll, FetchBatch, CallFails, Deliver, store
  <2>2. ASSUME Certify \/ \E a \in Address, s \in Sizes : Execute(a, s)
        PROVE  cursor' = cursor
    BY <2>2 DEF Certify, Execute, store
  <2>3. CASE \E c \in Call : FinishAdd(c)
    BY <1>1, <1>3, <2>3
  <2>4. CASE \E raw \in Key : Remove(raw)
    BY <1>1, <1>4, <2>4
  <2> QED
    BY <1>2, <1>5, <1>6, <1>8, <2>1, <2>2, <2>3, <2>4 DEF Next
<1> QED
  BY <1>7, <1>8

\* A row's cursor never moves back while the row stands (advanceWatch).
THEOREM CursorMonotone == Spec => CursorNeverRegresses
<1>1. TypeInv /\ [Next]_vars =>
        [\A k \in watched \cap watched' : cursor[k] <= cursor'[k]]_<<watched, cursor>>
  BY NextCursor
<1> QED
  BY <1>1, TypeInvariance, PTL DEF Spec, CursorNeverRegresses
=============================================================================
