-------------------------- MODULE TransportProofs --------------------------
(***************************************************************************)
(* Theorems about Transport: the limiters, the retry counters, the abort   *)
(* signal and the rate window, and how every request gets on, for any      *)
(* number of requests, slots, attempts and retries and any window.         *)
(***************************************************************************)
EXTENDS Transport, Sums, TLAPS, FiniteSetTheorems, SequenceTheorems

SlotType ==
  /\ active \in [Limiter -> Nat]
  /\ waiting \in [Limiter -> Seq(Call)]
  /\ pc \in [Call -> Place]

\* A limiter's waiters are requests of its own that are asleep, each once.
LinedUp ==
  \A l \in Limiter :
    /\ \A i \in 1..Len(waiting[l]) :
         LimiterOf[waiting[l][i]] = l /\ pc[waiting[l][i]] = "queued"
    /\ \A i, j \in 1..Len(waiting[l]) : waiting[l][i] = waiting[l][j] => i = j

FiniteHolders == \A l \in Limiter : IsFiniteSet(Holders(l))

SlotInv == SlotType /\ LinedUp /\ FiniteHolders /\ SlotsExact /\ NoIdleSlot

LEMMA InitSlotInv == Init => SlotInv
<1> SUFFICES ASSUME Init PROVE SlotInv
  OBVIOUS
<1>1. \A l \in Limiter : Holders(l) = {}
  BY DEF Init, Holders, Holding
<1>2. \A l \in Limiter : IsFiniteSet(Holders(l)) /\ Cardinality(Holders(l)) = 0
  BY <1>1, FS_EmptySet
<1>3. SlotType /\ LinedUp /\ NoIdleSlot
  BY DEF Init, SlotType, LinedUp, NoIdleSlot, Place
<1> QED
  BY <1>2, <1>3, TransportAssumption DEF SlotInv, FiniteHolders, SlotsExact, Init

\* A request that moves without taking or giving up a slot.
LEMMA MoveKeepsSlots ==
  ASSUME SlotInv, NEW c \in Call, NEW place \in Place,
         pc[c] # "queued", place # "queued",
         pc[c] \in Holding <=> place \in Holding,
         pc' = [pc EXCEPT ![c] = place], UNCHANGED slots
  PROVE  SlotInv'
<1>1. SlotType'
  BY DEF SlotInv, SlotType, slots
<1>2. LinedUp'
  BY DEF SlotInv, SlotType, LinedUp, slots
<1>3. \A l \in Limiter : Holders(l)' = Holders(l)
  BY DEF Holders, SlotInv, SlotType
<1> QED
  BY <1>1, <1>2, <1>3 DEF SlotInv, FiniteHolders, SlotsExact, NoIdleSlot, slots

\* acquire() takes a free slot or joins the line.
LEMMA AcquireKeepsSlots ==
  ASSUME SlotInv, NEW c \in Call, pc[c] = "ready", Acquire(c)
  PROVE  SlotInv'
<1> DEFINE l == LimiterOf[c]
<1>1. l \in Limiter /\ active[l] \in Nat /\ waiting[l] \in Seq(Call) /\ Concurrency \in Nat
  BY TransportAssumption DEF SlotInv, SlotType
<1>2. CASE active[l] < Concurrency
  <2>1. /\ active' = [active EXCEPT ![l] = @ + 1]
        /\ pc' = [pc EXCEPT ![c] = "granted"]
        /\ waiting' = waiting
    BY <1>2 DEF Acquire
  <2>2. waiting[l] = <<>>
    BY <1>1, <1>2 DEF SlotInv, NoIdleSlot
  <2>3. SlotType'
    BY <1>1, <2>1 DEF SlotInv, SlotType, Place
  <2>4. LinedUp'
    BY <2>1 DEF SlotInv, SlotType, LinedUp
  <2>5. \A m \in Limiter : Holders(m)' = IF m = l THEN Holders(l) \cup {c} ELSE Holders(m)
    BY <2>1 DEF Holders, Holding, SlotInv, SlotType
  <2>6. c \notin Holders(l)
    BY DEF Holders, Holding
  <2>7. /\ IsFiniteSet(Holders(l) \cup {c})
        /\ Cardinality(Holders(l) \cup {c}) = Cardinality(Holders(l)) + 1
    BY <1>1, <2>6, FS_AddElement DEF SlotInv, FiniteHolders
  <2>8. FiniteHolders'
    BY <2>5, <2>7 DEF SlotInv, FiniteHolders
  <2>9. SlotsExact'
    <3>1. active'[l] = active[l] + 1 /\ \A m \in Limiter : m # l => active'[m] = active[m]
      BY <1>1, <2>1 DEF SlotInv, SlotType
    <3>2. active[l] = Cardinality(Holders(l))
      BY <1>1 DEF SlotInv, SlotsExact
    <3>3. active'[l] = Cardinality(Holders(l)') /\ active'[l] <= Concurrency
      <4>1. Cardinality(Holders(l)') = Cardinality(Holders(l)) + 1
        BY <1>1, <2>5, <2>7
      <4> QED
        BY <1>1, <1>2, <3>1, <3>2, <4>1
    <3>4. \A m \in Limiter : m # l =>
             active'[m] = Cardinality(Holders(m)') /\ active'[m] <= Concurrency
      BY <2>5, <3>1 DEF SlotInv, SlotsExact
    <3> QED
      BY <3>3, <3>4 DEF SlotsExact
  <2>10. NoIdleSlot'
    BY <1>1, <2>1, <2>2 DEF SlotInv, SlotType, NoIdleSlot
  <2> QED
    BY <2>3, <2>4, <2>8, <2>9, <2>10 DEF SlotInv
<1>3. CASE ~(active[l] < Concurrency)
  <2>1. /\ active' = active
        /\ pc' = [pc EXCEPT ![c] = "queued"]
        /\ waiting' = [waiting EXCEPT ![l] = Append(@, c)]
    BY <1>3 DEF Acquire
  <2>2. active[l] = Concurrency
    BY <1>1, <1>3 DEF SlotInv, SlotsExact
  <2>3. SlotType'
    BY <1>1, <2>1 DEF SlotInv, SlotType, Place
  <2>4. \A m \in Limiter : Holders(m)' = Holders(m)
    BY <2>1 DEF Holders, Holding, SlotInv, SlotType
  <2>5. LinedUp'
    <3>0. /\ \A i \in 1..Len(waiting[l]) :
               LimiterOf[waiting[l][i]] = l /\ pc[waiting[l][i]] = "queued"
          /\ \A i, j \in 1..Len(waiting[l]) : waiting[l][i] = waiting[l][j] => i = j
      BY <1>1 DEF SlotInv, LinedUp
    <3>1. \A m \in Limiter : \A i \in 1..Len(waiting[m]) :
             waiting[m][i] \in Call /\ waiting[m][i] # c
      BY DEF SlotInv, SlotType, LinedUp
    <3>2. \A m \in Limiter : m # l => waiting'[m] = waiting[m]
      BY <2>1 DEF SlotInv, SlotType
    <3>3. /\ Len(waiting'[l]) = Len(waiting[l]) + 1
          /\ waiting'[l][Len(waiting[l]) + 1] = c
          /\ \A i \in 1..Len(waiting[l]) : waiting'[l][i] = waiting[l][i]
      BY <1>1, <2>1 DEF SlotInv, SlotType
    <3>4. pc'[c] = "queued" /\ \A d \in Call : d # c => pc'[d] = pc[d]
      BY <2>1 DEF SlotInv, SlotType
    <3>5. ASSUME NEW m \in Limiter, m # l
          PROVE  /\ \A i \in 1..Len(waiting'[m]) :
                      LimiterOf[waiting'[m][i]] = m /\ pc'[waiting'[m][i]] = "queued"
                 /\ \A i, j \in 1..Len(waiting'[m]) : waiting'[m][i] = waiting'[m][j] => i = j
      BY <3>1, <3>2, <3>4, <3>5 DEF SlotInv, LinedUp
    <3>6. \A i \in 1..Len(waiting'[l]) : i = Len(waiting[l]) + 1 \/ i \in 1..Len(waiting[l])
      BY <1>1, <3>3
    <3>7. \A i \in 1..Len(waiting'[l]) : LimiterOf[waiting'[l][i]] = l /\ pc'[waiting'[l][i]] = "queued"
      <4> SUFFICES ASSUME NEW i \in 1..Len(waiting'[l])
                   PROVE  LimiterOf[waiting'[l][i]] = l /\ pc'[waiting'[l][i]] = "queued"
        OBVIOUS
      <4>1. CASE i = Len(waiting[l]) + 1
        BY <3>3, <3>4, <4>1
      <4>2. CASE i \in 1..Len(waiting[l])
        BY <1>1, <3>0, <3>1, <3>3, <3>4, <4>2
      <4> QED
        BY <3>6, <4>1, <4>2
    <3>8. \A i, j \in 1..Len(waiting'[l]) : waiting'[l][i] = waiting'[l][j] => i = j
      <4> SUFFICES ASSUME NEW i \in 1..Len(waiting'[l]), NEW j \in 1..Len(waiting'[l]),
                          waiting'[l][i] = waiting'[l][j]
                   PROVE  i = j
        OBVIOUS
      <4>1. CASE i \in 1..Len(waiting[l]) /\ j \in 1..Len(waiting[l])
        BY <3>0, <3>3, <4>1
      <4>2. CASE i \in 1..Len(waiting[l]) <=> j \notin 1..Len(waiting[l])
        BY <1>1, <3>1, <3>3, <3>6, <4>2
      <4>3. CASE i \notin 1..Len(waiting[l]) /\ j \notin 1..Len(waiting[l])
        BY <3>6, <4>3
      <4> QED
        BY <4>1, <4>2, <4>3
    <3> QED
      BY <3>5, <3>7, <3>8 DEF LinedUp
  <2>6. NoIdleSlot'
    BY <1>1, <2>1, <2>2 DEF SlotInv, SlotType, NoIdleSlot
  <2> QED
    BY <2>1, <2>3, <2>4, <2>5, <2>6 DEF SlotInv, FiniteHolders, SlotsExact
<1> QED
  BY <1>2, <1>3

\* release() hands the slot to the first waiter, or frees it.
LEMMA LeaveKeepsSlots ==
  ASSUME SlotInv, NEW c \in Call, NEW place \in Place,
         pc[c] \in Holding, place \notin Holding, place # "queued",
         Leave(c, place)
  PROVE  SlotInv'
<1> DEFINE l == LimiterOf[c]
<1>1. l \in Limiter /\ active[l] \in Nat /\ waiting[l] \in Seq(Call) /\ Concurrency \in Nat
  BY TransportAssumption DEF SlotInv, SlotType
<1>2. c \in Holders(l) /\ IsFiniteSet(Holders(l)) /\ active[l] = Cardinality(Holders(l))
  BY <1>1 DEF Holders, SlotInv, FiniteHolders, SlotsExact
<1>3. /\ IsFiniteSet(Holders(l) \ {c})
      /\ Cardinality(Holders(l) \ {c}) = Cardinality(Holders(l)) - 1
  BY <1>2, FS_RemoveElement
<1>4. CASE waiting[l] = <<>>
  <2>1. /\ active' = [active EXCEPT ![l] = @ - 1]
        /\ pc' = [pc EXCEPT ![c] = place]
        /\ waiting' = waiting
    BY <1>4 DEF Leave
  <2>2. Cardinality(Holders(l) \ {c}) \in Nat
    BY <1>3, FS_CardinalityType
  <2>3. active[l] - 1 \in Nat
    BY <1>2, <1>3, <2>2
  <2>4. SlotType'
    BY <1>1, <2>1, <2>3 DEF SlotInv, SlotType
  <2>5. LinedUp'
    BY <2>1 DEF SlotInv, SlotType, LinedUp, Holding
  <2>6. \A m \in Limiter : Holders(m)' = IF m = l THEN Holders(l) \ {c} ELSE Holders(m)
    BY <2>1 DEF Holders, SlotInv, SlotType
  <2>7. FiniteHolders'
    BY <1>3, <2>6 DEF SlotInv, FiniteHolders
  <2>8. SlotsExact'
    <3>1. active'[l] = active[l] - 1 /\ \A m \in Limiter : m # l => active'[m] = active[m]
      BY <1>1, <2>1 DEF SlotInv, SlotType
    <3>2. active[l] <= Concurrency
      BY <1>1 DEF SlotInv, SlotsExact
    <3>3. active'[l] = Cardinality(Holders(l)') /\ active'[l] <= Concurrency
      <4>1. Cardinality(Holders(l)') = Cardinality(Holders(l)) - 1
        BY <1>1, <1>3, <2>6
      <4> QED
        BY <1>1, <1>2, <3>1, <3>2, <4>1
    <3>4. \A m \in Limiter : m # l =>
             active'[m] = Cardinality(Holders(m)') /\ active'[m] <= Concurrency
      BY <2>6, <3>1 DEF SlotInv, SlotsExact
    <3> QED
      BY <3>3, <3>4 DEF SlotsExact
  <2>9. NoIdleSlot'
    BY <1>1, <1>4, <2>1 DEF SlotInv, SlotType, NoIdleSlot
  <2> QED
    BY <2>4, <2>5, <2>7, <2>8, <2>9 DEF SlotInv
<1>5. CASE waiting[l] # <<>>
  <2> DEFINE w == Head(waiting[l])
  <2>1. /\ active' = active
        /\ pc' = [pc EXCEPT ![c] = place, ![w] = "granted"]
        /\ waiting' = [waiting EXCEPT ![l] = Tail(@)]
    BY <1>5 DEF Leave
  <2>2. w \in Call /\ w = waiting[l][1] /\ 1 \in 1..Len(waiting[l])
    BY <1>1, <1>5
  <2>3. LimiterOf[w] = l /\ pc[w] = "queued" /\ w # c
    BY <1>1, <2>2 DEF SlotInv, LinedUp, Holding
  <2>4. SlotType'
    <3>1. pc' \in [Call -> Place]
      BY <2>1 DEF SlotInv, SlotType, Place
    <3>2. Tail(waiting[l]) \in Seq(Call)
      BY <1>1, <1>5
    <3>3. waiting' \in [Limiter -> Seq(Call)]
      BY <1>1, <2>1, <3>2 DEF SlotInv, SlotType
    <3> QED
      BY <2>1, <3>1, <3>3 DEF SlotInv, SlotType
  <2>5. pc'[w] = "granted" /\ pc'[c] = place /\ \A d \in Call : d # c /\ d # w => pc'[d] = pc[d]
    BY <2>1, <2>2, <2>3 DEF SlotInv, SlotType
  <2>6. LinedUp'
    <3>1. \A m \in Limiter : \A i \in 1..Len(waiting[m]) :
             waiting[m][i] \in Call /\ waiting[m][i] # c
      BY DEF SlotInv, SlotType, LinedUp, Holding
    <3>2. \A m \in Limiter : m # l => waiting'[m] = waiting[m]
      BY <2>1 DEF SlotInv, SlotType
    <3>3. /\ Len(waiting'[l]) = Len(waiting[l]) - 1
          /\ \A i \in 1..Len(waiting'[l]) :
               i + 1 \in 1..Len(waiting[l]) /\ waiting'[l][i] = waiting[l][i + 1]
      BY <1>1, <1>5, <2>1 DEF SlotInv, SlotType
    <3>4. ASSUME NEW m \in Limiter, m # l
          PROVE  /\ \A i \in 1..Len(waiting'[m]) :
                      LimiterOf[waiting'[m][i]] = m /\ pc'[waiting'[m][i]] = "queued"
                 /\ \A i, j \in 1..Len(waiting'[m]) : waiting'[m][i] = waiting'[m][j] => i = j
      BY <2>3, <2>5, <3>1, <3>2, <3>4 DEF SlotInv, LinedUp
    <3>5. \A i \in 1..Len(waiting'[l]) : waiting'[l][i] # w
      BY <1>1, <2>2, <3>3 DEF SlotInv, LinedUp
    <3>6. \A i \in 1..Len(waiting'[l]) : LimiterOf[waiting'[l][i]] = l /\ pc'[waiting'[l][i]] = "queued"
      <4> SUFFICES ASSUME NEW i \in 1..Len(waiting'[l])
                   PROVE  LimiterOf[waiting'[l][i]] = l /\ pc'[waiting'[l][i]] = "queued"
        OBVIOUS
      <4> DEFINE d == waiting'[l][i]
      <4>1. i + 1 \in 1..Len(waiting[l]) /\ d = waiting[l][i + 1]
        BY <3>3
      <4>2. LimiterOf[d] = l /\ pc[d] = "queued" /\ d \in Call /\ d # c /\ d # w
        BY <1>1, <3>1, <3>5, <4>1 DEF SlotInv, LinedUp
      <4> QED
        BY <2>5, <4>2
    <3>7. \A i, j \in 1..Len(waiting'[l]) : waiting'[l][i] = waiting'[l][j] => i = j
      <4> SUFFICES ASSUME NEW i \in 1..Len(waiting'[l]), NEW j \in 1..Len(waiting'[l]),
                          waiting'[l][i] = waiting'[l][j]
                   PROVE  i = j
        OBVIOUS
      <4>1. i + 1 \in 1..Len(waiting[l]) /\ j + 1 \in 1..Len(waiting[l])
        BY <3>3
      <4>2. waiting[l][i + 1] = waiting[l][j + 1]
        BY <3>3
      <4>3. i + 1 = j + 1
        BY <1>1, <4>1, <4>2 DEF SlotInv, LinedUp
      <4> QED
        BY <4>3
    <3> QED
      BY <3>4, <3>6, <3>7 DEF LinedUp
  <2>7. \A m \in Limiter : Holders(m)' = IF m = l THEN (Holders(l) \ {c}) \cup {w} ELSE Holders(m)
    BY <2>2, <2>3, <2>5 DEF Holders, Holding
  <2>8. w \notin Holders(l) \ {c}
    BY <2>3 DEF Holders, Holding
  <2>9. /\ IsFiniteSet((Holders(l) \ {c}) \cup {w})
        /\ Cardinality((Holders(l) \ {c}) \cup {w}) = Cardinality(Holders(l) \ {c}) + 1
    BY <1>3, <2>8, FS_AddElement
  <2>10. Cardinality(Holders(l)) \in Nat
    BY <1>2, FS_CardinalityType
  <2>11. Cardinality((Holders(l) \ {c}) \cup {w}) = Cardinality(Holders(l))
    BY <1>3, <2>9, <2>10
  <2>12. FiniteHolders'
    BY <2>7, <2>9 DEF SlotInv, FiniteHolders
  <2>13. SlotsExact'
    BY <2>1, <2>7, <2>11 DEF SlotInv, SlotsExact
  <2>14. NoIdleSlot'
    <3>1. active[l] = Concurrency
      BY <1>1, <1>5 DEF SlotInv, NoIdleSlot
    <3> QED
      BY <2>1, <3>1 DEF SlotInv, SlotType, NoIdleSlot
  <2> QED
    BY <2>4, <2>6, <2>12, <2>13, <2>14 DEF SlotInv
<1> QED
  BY <1>4, <1>5

LEMMA StepKeepsSlots ==
  ASSUME SlotInv, NEW c \in Call, Step(c)
  PROVE  SlotInv'
<1> USE DEF Place, Holding
<1>1. CASE Ask(c)
  BY <1>1, AcquireKeepsSlots DEF Ask
<1>2. CASE Enter(c)
  BY <1>2, MoveKeepsSlots DEF Enter, Fetch
<1>3. CASE Take(c)
  <2>1. CASE c \in aborted
    BY <1>3, <2>1, LeaveKeepsSlots DEF Take
  <2>2. CASE c \notin aborted
    BY <1>3, <2>2, MoveKeepsSlots DEF Take, Fetch
  <2> QED
    BY <2>1, <2>2
<1>4. CASE Answer(c)
  BY <1>4, LeaveKeepsSlots DEF Answer
<1>5. CASE Busy(c)
  BY <1>5, LeaveKeepsSlots DEF Busy
<1>6. CASE Reset(c)
  BY <1>6, MoveKeepsSlots DEF Reset
<1>7. CASE Fail(c)
  BY <1>7, LeaveKeepsSlots DEF Fail
<1>8. CASE Retry(c)
  BY <1>8, LeaveKeepsSlots, MoveKeepsSlots DEF Retry
<1>9. CASE BadBody(c)
  BY <1>9, MoveKeepsSlots DEF BadBody
<1>10. CASE Finish(c)
  BY <1>10, MoveKeepsSlots DEF Finish
<1>11. CASE Transient(c)
  BY <1>11, MoveKeepsSlots DEF Transient
<1>12. CASE Requery(c)
  BY <1>12, MoveKeepsSlots DEF Requery
<1>13. CASE Cancel(c)
  BY <1>13, LeaveKeepsSlots, MoveKeepsSlots DEF Cancel
<1> QED
  BY <1>1, <1>2, <1>3, <1>4, <1>5, <1>6, <1>7, <1>8, <1>9, <1>10, <1>11, <1>12, <1>13 DEF Step

LEMMA NextSlotInv == SlotInv /\ [Next]_vars => SlotInv'
<1> SUFFICES ASSUME SlotInv, [Next]_vars PROVE SlotInv'
  OBVIOUS
<1>1. ASSUME UNCHANGED <<slots, pc>> PROVE SlotInv'
  BY <1>1 DEF slots, SlotInv, SlotType, LinedUp, FiniteHolders, SlotsExact, NoIdleSlot, Holders
<1>2. CASE UNCHANGED vars
  BY <1>1, <1>2 DEF vars
<1>3. CASE \E c \in Call : Begin(c)
  BY <1>3, MoveKeepsSlots DEF Begin, Place, Holding
<1>4. CASE \E c \in Call : Step(c)
  BY <1>4, StepKeepsSlots
<1>5. CASE \E c \in Call : Abort(c)
  BY <1>1, <1>5 DEF Abort
<1>6. CASE Tick \/ AllDone
  BY <1>1, <1>6 DEF Tick, AllDone, vars
<1> QED
  BY <1>2, <1>3, <1>4, <1>5, <1>6 DEF Next

LEMMA SlotInvariance == Spec => []SlotInv
BY InitSlotInv, NextSlotInv, PTL DEF Spec

\* Every way out of an attempt gives its slot back exactly once, so a limiter's
\* count is the number of requests that hold its slots.
THEOREM SlotsAreExact == Spec => []SlotsExact
<1>1. SlotInv => SlotsExact
  BY DEF SlotInv
<1> QED
  BY <1>1, SlotInvariance, PTL

\* release() never frees a slot beside a request that waits for one.
THEOREM NoSlotIdles == Spec => []NoIdleSlot
<1>1. SlotInv => NoIdleSlot
  BY DEF SlotInv
<1> QED
  BY <1>1, SlotInvariance, PTL

-----------------------------------------------------------------------------
(* Types: the counters of the two retry loops, the line for the window.    *)

Counted ==
  /\ turns \in Seq(Call)
  /\ attempt \in [Call -> 1..Attempts]
  /\ retry \in [Call -> 0..TransientRetries]
  /\ aborted \subseteq Call

\* A request that waits to try again has a try left; one that waits for the
\* window stands in its line.
Underway ==
  \A c \in Call :
    /\ pc[c] \in {"backoff", "holding"} => attempt[c] < Attempts
    /\ pc[c] = "pause" => retry[c] < TransientRetries
    /\ pc[c] = "metered" => \E i \in 1..Len(turns) : turns[i] = c

CountInv == Counted /\ Underway

\* What a step makes of `pc`: a request moves, and may hand its slot on.
Moves(c, place) ==
  /\ pc'[c] = place
  /\ \A d \in Call : d # c => pc'[d] \in {pc[d], "granted"}

LEMMA SetMoves ==
  ASSUME SlotInv, NEW c \in Call, NEW place, pc' = [pc EXCEPT ![c] = place]
  PROVE  Moves(c, place)
BY DEF SlotInv, SlotType, Moves

LEMMA LeaveMoves ==
  ASSUME SlotInv, NEW c \in Call, pc[c] \in Holding, NEW place, Leave(c, place)
  PROVE  Moves(c, place)
<1> DEFINE l == LimiterOf[c]
<1>1. l \in Limiter /\ waiting[l] \in Seq(Call)
  BY TransportAssumption DEF SlotInv, SlotType
<1>2. CASE waiting[l] = <<>>
  BY <1>2, SetMoves DEF Leave
<1>3. CASE waiting[l] # <<>>
  <2> DEFINE w == Head(waiting[l])
  <2>1. pc' = [pc EXCEPT ![c] = place, ![w] = "granted"]
    BY <1>3 DEF Leave
  <2>2. w = waiting[l][1] /\ 1 \in 1..Len(waiting[l]) /\ w \in Call
    BY <1>1, <1>3
  <2>3. pc[w] = "queued" /\ w # c
    BY <1>1, <2>2 DEF SlotInv, LinedUp, Holding
  <2> HIDE DEF w
  <2> QED
    BY <2>1, <2>2, <2>3 DEF SlotInv, SlotType, Moves
<1> QED
  BY <1>2, <1>3

\* A request that moves where its counters allow keeps them.
LEMMA MoveCounts ==
  ASSUME CountInv, NEW c \in Call, NEW place, Moves(c, place),
         place \in {"backoff", "holding"} => attempt[c] < Attempts,
         place = "pause" => retry[c] < TransientRetries,
         place # "metered",
         UNCHANGED <<turns, counters, aborted>>
  PROVE  CountInv'
<1>1. Counted'
  BY DEF CountInv, Counted, counters
<1>2. Underway'
  BY DEF CountInv, Underway, Moves, counters
<1> QED
  BY <1>1, <1>2 DEF CountInv

LEMMA EnterCounts ==
  ASSUME SlotInv, CountInv, NEW c \in Call, Enter(c)
  PROVE  CountInv'
<1>1. CASE RateLimit = 0 \/ c \in Json
  <2>1. Moves(c, "sent") /\ UNCHANGED <<turns, counters, aborted>>
    BY <1>1, SetMoves DEF Enter, Fetch
  <2> QED
    BY <2>1, MoveCounts
<1>2. CASE ~(RateLimit = 0 \/ c \in Json)
  <2>1. /\ turns' = Append(turns, c) /\ Moves(c, "metered")
        /\ UNCHANGED <<counters, aborted>>
    BY <1>2, SetMoves DEF Enter
  <2>2. Counted'
    BY <2>1 DEF CountInv, Counted, counters
  <2>3. /\ turns \in Seq(Call) /\ Len(turns') = Len(turns) + 1
        /\ turns'[Len(turns) + 1] = c
        /\ \A i \in 1..Len(turns) : turns'[i] = turns[i]
    BY <2>1 DEF CountInv, Counted
  <2>4. ASSUME NEW d \in Call, pc'[d] = "metered"
        PROVE  \E i \in 1..Len(turns') : turns'[i] = d
    <3>1. CASE d = c
      BY <2>3, <3>1
    <3>2. CASE d # c
      <4>1. pc[d] = "metered"
        BY <2>1, <2>4, <3>2 DEF Moves
      <4>2. PICK i \in 1..Len(turns) : turns[i] = d
        BY <4>1 DEF CountInv, Underway
      <4> QED
        BY <2>3, <4>2
    <3> QED
      BY <3>1, <3>2
  <2>5. Underway'
    BY <2>1, <2>4 DEF CountInv, Underway, Moves, counters
  <2> QED
    BY <2>2, <2>5 DEF CountInv
<1> QED
  BY <1>1, <1>2

LEMMA TakeCounts ==
  ASSUME SlotInv, CountInv, NEW c \in Call, Take(c)
  PROVE  CountInv'
<1>1. /\ turns' = Tail(turns) /\ c = Head(turns) /\ pc[c] = "metered"
      /\ UNCHANGED <<counters, aborted>>
  BY DEF Take
<1>2. PICK place \in {"sent", "done"} : Moves(c, place)
  <2>1. CASE c \in aborted
    <3>1. Leave(c, "done")
      BY <2>1 DEF Take
    <3> QED
      BY <1>1, <3>1, LeaveMoves DEF Holding
  <2>2. CASE c \notin aborted
    <3>1. pc' = [pc EXCEPT ![c] = "sent"]
      BY <2>2 DEF Take, Fetch
    <3> QED
      BY <3>1, SetMoves
  <2> QED
    BY <2>1, <2>2
<1>3. turns \in Seq(Call) /\ turns # <<>>
  BY <1>1 DEF CountInv, Counted, Underway
<1>4. /\ turns' \in Seq(Call) /\ Len(turns') = Len(turns) - 1 /\ c = turns[1]
      /\ \A i \in 1..Len(turns') : turns'[i] = turns[i + 1]
  BY <1>1, <1>3
<1>5. Counted'
  BY <1>1, <1>4 DEF CountInv, Counted, counters
<1>6. ASSUME NEW d \in Call, pc'[d] = "metered"
      PROVE  \E i \in 1..Len(turns') : turns'[i] = d
  <2>1. d # c /\ pc[d] = "metered"
    BY <1>2, <1>6 DEF Moves
  <2>2. PICK i \in 1..Len(turns) : turns[i] = d
    BY <2>1 DEF CountInv, Underway
  <2>3. i # 1
    BY <1>4, <2>1, <2>2
  <2>4. i - 1 \in 1..Len(turns') /\ turns'[i - 1] = d
    BY <1>3, <1>4, <2>2, <2>3
  <2> QED
    BY <2>4
<1>7. Underway'
  BY <1>1, <1>2, <1>6 DEF CountInv, Underway, Moves, counters
<1> QED
  BY <1>5, <1>7 DEF CountInv

LEMMA RetryCounts ==
  ASSUME SlotInv, CountInv, NEW c \in Call, Retry(c) \/ Requery(c)
  PROVE  CountInv'
<1>1. Moves(c, "ready") /\ turns' = turns /\ aborted' = aborted
  BY SetMoves, LeaveMoves DEF Retry, Requery, window, Holding
<1>2. Attempts \in Nat \ {0} /\ TransientRetries \in Nat
  BY TransportAssumption
<1>3. /\ attempt' \in [Call -> 1..Attempts]
      /\ \A d \in Call : d # c => attempt'[d] = attempt[d]
  <2>1. CASE Retry(c)
    <3>1. attempt' = [attempt EXCEPT ![c] = @ + 1] /\ attempt[c] < Attempts
      BY <2>1 DEF Retry, CountInv, Underway
    <3>2. attempt \in [Call -> 1..Attempts]
      BY DEF CountInv, Counted
    <3>3. attempt[c] + 1 \in 1..Attempts
      BY <1>2, <3>1, <3>2
    <3> QED
      BY <3>1, <3>2, <3>3
  <2>2. CASE Requery(c)
    BY <1>2, <2>2 DEF Requery, CountInv, Counted
  <2> QED
    BY <2>1, <2>2
<1>4. /\ retry' \in [Call -> 0..TransientRetries]
      /\ \A d \in Call : d # c => retry'[d] = retry[d]
  <2>1. CASE Retry(c)
    BY <2>1 DEF Retry, CountInv, Counted
  <2>2. CASE Requery(c)
    <3>1. retry' = [retry EXCEPT ![c] = @ + 1] /\ retry[c] < TransientRetries
      BY <2>2 DEF Requery, CountInv, Underway
    <3>2. retry \in [Call -> 0..TransientRetries]
      BY DEF CountInv, Counted
    <3>3. retry[c] + 1 \in 0..TransientRetries
      BY <1>2, <3>1, <3>2
    <3> QED
      BY <3>1, <3>2, <3>3
  <2> QED
    BY <2>1, <2>2
<1>5. Counted'
  BY <1>1, <1>3, <1>4 DEF CountInv, Counted
<1>6. Underway'
  BY <1>1, <1>3, <1>4 DEF CountInv, Underway, Moves
<1> QED
  BY <1>5, <1>6 DEF CountInv

LEMMA StepCounts ==
  ASSUME SlotInv, CountInv, NEW c \in Call, Step(c)
  PROVE  CountInv'
<1>1. CASE Ask(c)
  <2>1. PICK place \in {"granted", "queued"} : Moves(c, place)
    BY <1>1, SetMoves DEF Ask, Acquire
  <2> QED
    BY <1>1, <2>1, MoveCounts DEF Ask, window
<1>2. CASE Answer(c)
  <2>1. Moves(c, "reading")
    BY <1>2, LeaveMoves DEF Answer, Holding
  <2> QED
    BY <1>2, <2>1, MoveCounts DEF Answer, window
<1>3. CASE Busy(c)
  <2>1. Moves(c, "backoff")
    BY <1>3, LeaveMoves DEF Busy, Holding
  <2>2. attempt[c] < Attempts
    BY <1>3, TransportAssumption DEF Busy, Last, CountInv, Counted
  <2> QED
    BY <1>3, <2>1, <2>2, MoveCounts DEF Busy, window
<1>4. CASE Reset(c)
  <2>1. Moves(c, "holding")
    BY <1>4, SetMoves DEF Reset
  <2>2. attempt[c] < Attempts
    BY <1>4, TransportAssumption DEF Reset, Last, CountInv, Counted
  <2> QED
    BY <1>4, <2>1, <2>2, MoveCounts DEF Reset, window
<1>5. CASE Fail(c)
  <2>1. Moves(c, "done")
    BY <1>5, LeaveMoves DEF Fail, Holding
  <2> QED
    BY <1>5, <2>1, MoveCounts DEF Fail, window
<1>6. CASE BadBody(c)
  <2>1. Moves(c, "backoff")
    BY <1>6, SetMoves DEF BadBody
  <2>2. attempt[c] < Attempts
    BY <1>6, TransportAssumption DEF BadBody, Last, CountInv, Counted
  <2> QED
    BY <1>6, <2>1, <2>2, MoveCounts DEF BadBody, window
<1>7. CASE Finish(c)
  <2>1. Moves(c, "done")
    BY <1>7, SetMoves DEF Finish
  <2> QED
    BY <1>7, <2>1, MoveCounts DEF Finish, window
<1>8. CASE Transient(c)
  <2>1. Moves(c, "pause") /\ retry[c] < TransientRetries
    BY <1>8, SetMoves DEF Transient
  <2> QED
    BY <1>8, <2>1, MoveCounts DEF Transient, window
<1>9. CASE Cancel(c)
  <2>1. Moves(c, "done")
    BY <1>9, SetMoves, LeaveMoves DEF Cancel, Holding
  <2> QED
    BY <1>9, <2>1, MoveCounts DEF Cancel, window
<1> QED
  BY <1>1, <1>2, <1>3, <1>4, <1>5, <1>6, <1>7, <1>8, <1>9,
     EnterCounts, TakeCounts, RetryCounts DEF Step

LEMMA NextCounts == SlotInv /\ CountInv /\ [Next]_vars => CountInv'
<1> SUFFICES ASSUME SlotInv, CountInv, [Next]_vars PROVE CountInv'
  OBVIOUS
<1>1. ASSUME UNCHANGED <<turns, pc, counters>>, aborted' \subseteq Call PROVE CountInv'
  BY <1>1 DEF CountInv, Counted, Underway, counters
<1>2. CASE UNCHANGED vars
  BY <1>1, <1>2 DEF vars, window, CountInv, Counted
<1>3. ASSUME NEW c \in Call, Begin(c)
      PROVE  CountInv'
  <2>1. Moves(c, "ready")
    BY <1>3, SetMoves DEF Begin
  <2> QED
    BY <1>3, <2>1, MoveCounts DEF Begin, window
<1>4. ASSUME NEW c \in Call, Abort(c)
      PROVE  CountInv'
  BY <1>1, <1>4 DEF Abort, window, CountInv, Counted
<1>5. CASE Tick \/ AllDone
  BY <1>1, <1>5 DEF Tick, AllDone, vars, window, CountInv, Counted
<1> QED
  BY <1>2, <1>3, <1>4, <1>5, StepCounts DEF Next

LEMMA CountInvariance == Spec => []CountInv
<1>1. Init => CountInv
  <2> SUFFICES ASSUME Init PROVE CountInv
    OBVIOUS
  <2>1. Counted
    BY TransportAssumption DEF Init, Counted
  <2>2. Underway
    BY DEF Init, Underway
  <2> QED
    BY <2>1, <2>2 DEF CountInv
<1> QED
  BY <1>1, NextCounts, SlotInvariance, PTL DEF Spec

-----------------------------------------------------------------------------
(* The rate window.                                                        *)

\* What is shifted off is a prefix: the rest keeps its place from the end.
LEMMA YoungerIs ==
  ASSUME NEW S \in SUBSET Int, NEW s \in Seq(S), NEW w \in Int
  PROVE  \E d \in 0..Len(s) :
           /\ Younger(s, w) \in Seq(S)
           /\ Len(Younger(s, w)) = Len(s) - d
           /\ \A i \in 1..(Len(s) - d) : Younger(s, w)[i] = s[i + d]
           /\ d < Len(s) => s[d + 1] < w
           /\ \A i \in 1..d : ~(s[i] < w)
<1> DEFINE n == Len(s)
           K == { i \in 1..(n + 1) : i > n \/ s[i] < w }
           k == Min(K)
           d == k - 1
<1>1. n \in Nat /\ n + 1 \in K /\ K \in SUBSET Nat
  OBVIOUS
<1>2. \E i \in K : \A j \in K : i <= j
  <2> HIDE DEF K
  <2> QED
    BY <1>1, LeastNat
<1>3. k \in K /\ \A j \in K : k <= j
  <2> HIDE DEF K
  <2> QED
    BY <1>2 DEF Min
<1> HIDE DEF k
<1>4. k \in 1..(n + 1) /\ (k > n \/ s[k] < w) /\ d \in 0..n /\ k = d + 1
  BY <1>1, <1>3
<1>5. \A i \in 1..d : ~(s[i] < w)
  <2> SUFFICES ASSUME NEW i \in 1..d, s[i] < w PROVE FALSE
    OBVIOUS
  <2>1. i \in K
    BY <1>1, <1>4
  <2>2. k <= i
    BY <1>3, <2>1
  <2> QED
    BY <1>4, <2>2
<1>6. Younger(s, w) = SubSeq(s, k, n)
  BY DEF Younger, k
<1>7. /\ SubSeq(s, k, n) \in Seq(S)
      /\ Len(SubSeq(s, k, n)) = IF k <= n THEN n - k + 1 ELSE 0
      /\ \A i \in 1 .. n - k + 1 : SubSeq(s, k, n)[i] = s[k + i - 1]
  <2>1. k \in Int /\ n \in Int /\ \A i \in k..n : s[i] \in S
    BY <1>1, <1>4
  <2> HIDE DEF n
  <2> QED
    BY <2>1, SubSeqProperties
<1> HIDE DEF K
<1>8. Len(SubSeq(s, k, n)) = n - d
  BY <1>1, <1>4, <1>7
<1>9. \A i \in 1..(n - d) : SubSeq(s, k, n)[i] = s[i + d]
  <2> SUFFICES ASSUME NEW i \in 1..(n - d) PROVE SubSeq(s, k, n)[i] = s[i + d]
    OBVIOUS
  <2>1. i \in 1..(n - k + 1) /\ k + i - 1 = i + d
    BY <1>1, <1>4
  <2> QED
    BY <1>7, <2>1
<1> QED
  <2> DEFINE y == Younger(s, w)
  <2>1. /\ y \in Seq(S)
        /\ Len(y) = n - d
        /\ \A i \in 1..(n - d) : y[i] = s[i + d]
    BY <1>6, <1>7, <1>8, <1>9
  <2>2. d < n => s[d + 1] < w
    BY <1>1, <1>4
  <2> HIDE DEF y, d
  <2> QED
    BY <1>4, <1>5, <2>1, <2>2 DEF y

LEMMA AgedIs ==
  ASSUME NEW s \in Seq(0..WindowMs)
  PROVE  /\ Aged(s) \in Seq(0..WindowMs) /\ Len(Aged(s)) = Len(s)
         /\ \A i \in 1..Len(s) : Aged(s)[i] = IF s[i] < WindowMs THEN s[i] + 1 ELSE s[i]
<1>1. WindowMs \in Nat /\ DOMAIN s = 1..Len(s) /\ Len(s) \in Nat
  BY TransportAssumption
<1>2. \A i \in 1..Len(s) : (IF s[i] < WindowMs THEN s[i] + 1 ELSE s[i]) \in 0..WindowMs
  BY <1>1
<1>3. Aged(s) = [i \in 1..Len(s) |-> IF s[i] < WindowMs THEN s[i] + 1 ELSE s[i]]
  BY <1>1 DEF Aged
<1>4. Aged(s) \in [1..Len(s) -> 0..WindowMs]
  BY <1>2, <1>3
<1>5. Aged(s) \in Seq(0..WindowMs) /\ Len(Aged(s)) = Len(s)
  BY <1>1, <1>4
<1> QED
  BY <1>3, <1>5

\* The ages of the fetches fall from the oldest to the latest.
Sorted == \A i, j \in 1..Len(sent) : i <= j => sent[i] >= sent[j]

WindowInv ==
  /\ starts \in Seq(0..WindowMs)
  /\ sent \in Seq(0..(WindowMs - 1))
  /\ Sorted

LEMMA FetchSorted ==
  ASSUME WindowInv, sent' = Append(sent, 0), starts' \in Seq(0..WindowMs)
  PROVE  WindowInv'
<1>1. WindowMs \in Nat \ {0}
  BY TransportAssumption
<1>2. /\ sent' \in Seq(0..(WindowMs - 1)) /\ Len(sent') = Len(sent) + 1
      /\ sent'[Len(sent) + 1] = 0
      /\ \A i \in 1..Len(sent) : sent'[i] = sent[i] /\ sent[i] \in Nat
  BY <1>1 DEF WindowInv
<1>3. ASSUME NEW i \in 1..Len(sent'), NEW j \in 1..Len(sent'), i <= j
      PROVE  sent'[i] >= sent'[j]
  <2>1. CASE j = Len(sent) + 1
    <3>1. i = Len(sent) + 1 \/ i \in 1..Len(sent)
      BY <1>2, <2>1
    <3>2. sent'[i] \in Nat
      BY <1>2, <3>1
    <3> QED
      BY <1>2, <2>1, <3>2
  <2>2. CASE j \in 1..Len(sent)
    <3>1. i \in 1..Len(sent)
      BY <1>3, <2>2
    <3> QED
      BY <1>2, <1>3, <2>2, <3>1 DEF WindowInv, Sorted
  <2>3. Len(sent) \in Nat
    BY DEF WindowInv
  <2> QED
    BY <1>2, <2>1, <2>2, <2>3
<1> QED
  BY <1>2, <1>3 DEF WindowInv, Sorted

LEMMA RecentTyped ==
  ASSUME starts \in Seq(0..WindowMs)
  PROVE  Recent(starts) \in Seq(0..WindowMs)
<1>1. 0..WindowMs \in SUBSET Int /\ WindowMs \in Int
  BY TransportAssumption
<1> QED
  BY <1>1, YoungerIs DEF Recent

\* A tick: the history keeps what is still inside the window, in order.
LEMMA TickSent ==
  ASSUME WindowInv, Tick
  PROVE  \E d \in 0..Len(sent) :
           /\ sent' \in Seq(0..(WindowMs - 1))
           /\ Len(sent') = Len(sent) - d
           /\ \A i \in 1..Len(sent') : sent'[i] = sent[i + d] + 1 /\ sent'[i] < WindowMs
<1> DEFINE W == WindowMs
           A == Aged(sent)
           All == 0..W
           In == 0..(W - 1)
<1>1. W \in Nat \ {0} /\ All \in SUBSET Int /\ W \in Int
  BY TransportAssumption
<1>2. sent \in Seq(In) /\ Len(sent) \in Nat /\ \A i \in 1..Len(sent) : sent[i] \in In
  <2>1. sent \in Seq(In)
    BY DEF WindowInv
  <2> HIDE DEF In
  <2> QED
    BY <2>1
<1>3. sent \in Seq(All)
  <2>1. In \subseteq All
    BY <1>1
  <2> HIDE DEF In, All
  <2> QED
    BY <1>2, <2>1
<1>4. /\ A \in Seq(All) /\ Len(A) = Len(sent)
      /\ \A i \in 1..Len(sent) : A[i] = sent[i] + 1
  <2>1. /\ A \in Seq(All) /\ Len(A) = Len(sent)
        /\ \A i \in 1..Len(sent) : A[i] = IF sent[i] < W THEN sent[i] + 1 ELSE sent[i]
    BY <1>3, AgedIs
  <2>2. \A i \in 1..Len(sent) : sent[i] < W
    BY <1>1, <1>2
  <2> QED
    BY <2>1, <2>2
<1>5. sent' = Younger(A, W)
  BY DEF Tick
<1> HIDE DEF A, All
<1>6. PICK d \in 0..Len(A) :
        /\ Younger(A, W) \in Seq(All)
        /\ Len(Younger(A, W)) = Len(A) - d
        /\ \A i \in 1..(Len(A) - d) : Younger(A, W)[i] = A[i + d]
        /\ d < Len(A) => A[d + 1] < W
        /\ \A i \in 1..d : ~(A[i] < W)
  BY <1>1, <1>4, YoungerIs
<1>7. Len(sent') = Len(sent) - d /\ d \in 0..Len(sent)
  BY <1>4, <1>5, <1>6
<1>8. ASSUME NEW i \in 1..Len(sent')
      PROVE  sent'[i] = sent[i + d] + 1 /\ sent'[i] < W /\ sent'[i] \in In
  <2>1. i + d \in 1..Len(sent) /\ d + 1 \in 1..Len(sent) /\ d + 1 <= i + d /\ d < Len(sent)
    BY <1>2, <1>7
  <2>2. sent'[i] = A[i + d]
    BY <1>4, <1>5, <1>6, <1>7
  <2>3. sent'[i] = sent[i + d] + 1
    BY <1>4, <2>1, <2>2
  <2>4. sent[d + 1] >= sent[i + d]
    BY <2>1 DEF WindowInv, Sorted
  <2>5. A[d + 1] < W /\ A[d + 1] = sent[d + 1] + 1
    BY <1>4, <1>6, <2>1
  <2>6. sent[d + 1] \in In /\ sent[i + d] \in In
    BY <1>2, <2>1
  <2> QED
    BY <1>1, <2>3, <2>4, <2>5, <2>6
<1>9. sent' \in Seq(In)
  <2>1. sent' \in Seq(All)
    BY <1>5, <1>6
  <2>2. \A i \in 1..Len(sent') : sent'[i] \in In
    BY <1>8
  <2> HIDE DEF In
  <2> QED
    BY <2>1, <2>2
<1> QED
  BY <1>7, <1>8, <1>9

LEMMA TickWindow ==
  ASSUME WindowInv, Tick PROVE WindowInv'
<1>1. PICK d \in 0..Len(sent) :
        /\ sent' \in Seq(0..(WindowMs - 1))
        /\ Len(sent') = Len(sent) - d
        /\ \A i \in 1..Len(sent') : sent'[i] = sent[i + d] + 1 /\ sent'[i] < WindowMs
  BY TickSent
<1>2. starts' \in Seq(0..WindowMs)
  BY AgedIs DEF Tick, WindowInv
<1>3. ASSUME NEW i \in 1..Len(sent'), NEW j \in 1..Len(sent'), i <= j
      PROVE  sent'[i] >= sent'[j]
  <2>1. /\ Len(sent) \in Nat /\ \A k \in 1..Len(sent) : sent[k] \in Int
        /\ \A k, m \in 1..Len(sent) : k <= m => sent[k] >= sent[m]
    <3>1. sent \in Seq(0..(WindowMs - 1)) /\ WindowMs - 1 \in Int
      BY TransportAssumption DEF WindowInv
    <3>2. \A k \in 1..Len(sent) : sent[k] \in 0..(WindowMs - 1)
      BY <3>1
    <3>3. \A k \in 1..Len(sent) : sent[k] \in Int
      BY <3>2
    <3> QED
      BY <3>1, <3>3 DEF WindowInv, Sorted
  <2>2. i + d \in 1..Len(sent) /\ j + d \in 1..Len(sent) /\ i + d <= j + d
    BY <1>1, <1>3, <2>1
  <2>3. sent[i + d] >= sent[j + d] /\ sent[i + d] \in Int /\ sent[j + d] \in Int
    BY <2>1, <2>2
  <2> QED
    BY <1>1, <2>3
<1> QED
  BY <1>1, <1>2, <1>3 DEF WindowInv, Sorted

LEMMA NextWindow == WindowInv /\ [Next]_vars => WindowInv'
<1> SUFFICES ASSUME WindowInv, [Next]_vars PROVE WindowInv'
  OBVIOUS
<1>1. ASSUME UNCHANGED <<starts, sent>> PROVE WindowInv'
  BY <1>1 DEF WindowInv, Sorted
<1>2. CASE UNCHANGED vars
  BY <1>1, <1>2 DEF vars, window
<1>3. ASSUME NEW c \in Call, Enter(c)
      PROVE  WindowInv'
  <2>1. starts' = starts /\ sent' \in {sent, Append(sent, 0)}
    BY <1>3 DEF Enter, Fetch
  <2> QED
    BY <1>1, <2>1, FetchSorted DEF WindowInv
<1>4. ASSUME NEW c \in Call, Take(c)
      PROVE  WindowInv'
  <2>1. sent' \in {sent, Append(sent, 0)} /\ starts' = Append(Recent(starts), 0)
    BY <1>4 DEF Take, Fetch
  <2>2. starts' \in Seq(0..WindowMs)
    <3>1. Recent(starts) \in Seq(0..WindowMs) /\ 0 \in 0..WindowMs
      BY RecentTyped, TransportAssumption DEF WindowInv
    <3> HIDE DEF Recent
    <3> QED
      BY <2>1, <3>1
  <2> QED
    BY <2>1, <2>2, FetchSorted DEF WindowInv, Sorted
<1>5. ASSUME NEW c \in Call, Begin(c) \/ Abort(c)
      PROVE  WindowInv'
  BY <1>1, <1>5 DEF Begin, Abort, window
<1>6. ASSUME NEW c \in Call,
             Ask(c) \/ Answer(c) \/ Busy(c) \/ Reset(c) \/ Fail(c) \/ Retry(c) \/ BadBody(c)
               \/ Finish(c) \/ Transient(c) \/ Requery(c) \/ Cancel(c)
      PROVE  WindowInv'
  BY <1>1, <1>6
  DEF Ask, Answer, Busy, Reset, Fail, Retry, BadBody, Finish, Transient, Requery, Cancel, window
<1>7. CASE AllDone
  BY <1>1, <1>7 DEF AllDone, vars, window
<1> QED
  BY <1>2, <1>3, <1>4, <1>5, <1>6, <1>7, TickWindow DEF Next, Step

\* Types, with the counters of the two nested retry loops within their limits:
\* a request that goes back to try again always has a try left.
THEOREM TransportTypeCorrect == Spec => []TypeOK
<1>1. Init => WindowInv
  BY TransportAssumption DEF Init, WindowInv, Sorted
<1>2. SlotInv /\ CountInv /\ WindowInv => TypeOK
  BY DEF SlotInv, SlotType, CountInv, Counted, WindowInv, TypeOK
<1> QED
  BY <1>1, <1>2, NextWindow, SlotInvariance, CountInvariance, PTL DEF Spec

-----------------------------------------------------------------------------
(* What is sent.                                                           *)


\* A step moves one request, to "sent" only while its caller is there.
LEMMA StepMoves ==
  ASSUME SlotInv, NEW c \in Call, Step(c)
  PROVE  \E place : Moves(c, place) /\ (place = "sent" => c \notin aborted)
<1>1. CASE Ask(c)
  BY <1>1, SetMoves DEF Ask, Acquire
<1>2. CASE Enter(c)
  BY <1>2, SetMoves DEF Enter, Fetch
<1>3. CASE Take(c)
  <2>1. CASE c \in aborted
    <3>1. Leave(c, "done") /\ pc[c] \in Holding
      BY <1>3, <2>1 DEF Take, Holding
    <3> QED
      BY <3>1, LeaveMoves
  <2>2. CASE c \notin aborted
    BY <1>3, <2>2, SetMoves DEF Take, Fetch
  <2> QED
    BY <2>1, <2>2
<1>4. CASE Answer(c)
  BY <1>4, LeaveMoves DEF Answer, Holding
<1>5. CASE Busy(c)
  BY <1>5, LeaveMoves DEF Busy, Holding
<1>6. CASE Reset(c)
  <2>1. Moves(c, "holding")
    BY <1>6, SetMoves DEF Reset
  <2> QED
    BY <2>1
<1>7. CASE Fail(c)
  BY <1>7, LeaveMoves DEF Fail, Holding
<1>8. CASE Retry(c)
  BY <1>8, SetMoves, LeaveMoves DEF Retry, Holding
<1>9. CASE BadBody(c)
  <2>1. Moves(c, "backoff")
    BY <1>9, SetMoves DEF BadBody
  <2> QED
    BY <2>1
<1>10. CASE Finish(c)
  <2>1. Moves(c, "done")
    BY <1>10, SetMoves DEF Finish
  <2> QED
    BY <2>1
<1>11. CASE Transient(c)
  BY <1>11, SetMoves DEF Transient
<1>12. CASE Requery(c)
  <2>1. Moves(c, "ready")
    BY <1>12, SetMoves DEF Requery
  <2> QED
    BY <2>1
<1>13. CASE Cancel(c)
  BY <1>13, SetMoves, LeaveMoves DEF Cancel, Holding
<1> QED
  BY <1>1, <1>2, <1>3, <1>4, <1>5, <1>6, <1>7, <1>8, <1>9, <1>10, <1>11, <1>12, <1>13 DEF Step

\* A request whose caller has gone is not sent, from whatever it waited for.
THEOREM AbortedAreSilent == Spec => AbortedSendNothing
<1>1. SlotInv /\ CountInv /\ [Next]_vars
        => [\A c \in aborted : pc'[c] = "sent" => pc[c] = "sent"]_<<pc, aborted>>
  <2> SUFFICES ASSUME SlotInv, CountInv, [Next]_vars,
                      NEW c \in aborted, pc'[c] = "sent"
               PROVE  pc[c] = "sent"
    OBVIOUS
  <2>1. c \in Call
    BY DEF CountInv, Counted
  <2>2. CASE pc' = pc
    BY <2>2
  <2>3. ASSUME NEW d \in Call, Begin(d)
        PROVE  pc[c] = "sent"
    BY <2>1, <2>3 DEF Begin, SlotInv, SlotType
  <2>4. ASSUME NEW d \in Call, Step(d)
        PROVE  pc[c] = "sent"
    <3>1. PICK place : Moves(d, place) /\ (place = "sent" => d \notin aborted)
      BY <2>4, StepMoves
    <3> QED
      BY <2>1, <3>1 DEF Moves
  <2> QED
    BY <2>2, <2>3, <2>4 DEF Next, Abort, Tick, AllDone, vars
<1> QED
  BY <1>1, SlotInvariance, CountInvariance, PTL DEF Spec, AbortedSendNothing

-----------------------------------------------------------------------------
(* The rate.                                                               *)

\* The latest fetches are no younger than the latest starts, one by one from the
\* end, so as many of those are still inside the window.
Matched ==
  /\ Len(starts) <= RateLimit
  /\ Len(sent) <= Len(starts)
  /\ \A j \in 0..(Len(sent) - 1) : starts[Len(starts) - j] <= sent[Len(sent) - j]

RateInv == RateLimit > 0 => Matched

\* What WindowInv says of single starts and fetches.
LEMMA AgesTyped ==
  ASSUME WindowInv
  PROVE  /\ Len(starts) \in Nat /\ \A i \in 1..Len(starts) : starts[i] \in 0..WindowMs
         /\ Len(sent) \in Nat /\ \A i \in 1..Len(sent) : sent[i] \in 0..(WindowMs - 1)
         /\ WindowMs \in Nat \ {0} /\ RateLimit \in Nat
<1> DEFINE All == 0..WindowMs
           In == 0..(WindowMs - 1)
<1>1. starts \in Seq(All) /\ sent \in Seq(In)
  BY DEF WindowInv
<1> HIDE DEF All, In
<1>2. /\ Len(starts) \in Nat /\ \A i \in 1..Len(starts) : starts[i] \in All
      /\ Len(sent) \in Nat /\ \A i \in 1..Len(sent) : sent[i] \in In
  BY <1>1
<1> QED
  BY <1>2, TransportAssumption DEF All, In

LEMMA TakeMatched ==
  ASSUME WindowInv, Matched, RateLimit > 0, NEW c \in Call, Take(c)
  PROVE  Matched'
<1> DEFINE Ls == Len(sent)
           Lt == Len(starts)
           R == Recent(starts)
           All == 0..WindowMs
<1>1. /\ Lt \in Nat /\ \A i \in 1..Lt : starts[i] \in All
      /\ Ls \in Nat /\ \A i \in 1..Ls : sent[i] \in 0..(WindowMs - 1)
      /\ WindowMs \in Nat \ {0} /\ RateLimit \in Nat
  BY AgesTyped
<1>2. PICK d \in 0..Lt :
        /\ R \in Seq(All)
        /\ Len(R) = Lt - d
        /\ \A i \in 1..(Lt - d) : R[i] = starts[i + d]
        /\ d < Lt => starts[d + 1] < WindowMs
        /\ \A i \in 1..d : ~(starts[i] < WindowMs)
  <2>1. All \in SUBSET Int /\ WindowMs \in Int /\ starts \in Seq(All)
    BY <1>1 DEF WindowInv
  <2> HIDE DEF All
  <2> QED
    BY <2>1, YoungerIs DEF Recent
<1>3. Ls <= Lt - d
  <2>1. CASE Ls = 0
    BY <1>1, <1>2, <2>1
  <2>2. CASE Ls > 0
    <3> DEFINE i == Lt - (Ls - 1)
    <3>1. Ls - 1 \in 0..(Ls - 1) /\ Ls - (Ls - 1) = 1 /\ 1 \in 1..Ls
      BY <1>1, <2>2
    <3>2. starts[i] <= sent[1]
      BY <3>1 DEF Matched
    <3>3. i \in 1..Lt
      BY <1>1, <2>2 DEF Matched
    <3>4. starts[i] \in All /\ sent[1] \in 0..(WindowMs - 1)
      BY <1>1, <3>1, <3>3
    <3>5. starts[i] < WindowMs
      BY <1>1, <3>2, <3>4
    <3>6. ~(i \in 1..d)
      BY <1>2, <3>5
    <3> QED
      BY <1>1, <1>2, <3>3, <3>6
  <2> QED
    BY <1>1, <2>1, <2>2
<1>4. /\ Len(R) < RateLimit /\ starts' = Append(R, 0)
      /\ sent' = sent \/ sent' = Append(sent, 0)
  BY DEF Take, Fetch
<1>0. 0 \in All
  BY <1>1
<1> HIDE DEF R, All
<1>5. /\ Len(starts') = Lt - d + 1 /\ starts'[Lt - d + 1] = 0
      /\ \A i \in 1..(Lt - d) : starts'[i] = starts[i + d]
  <2>1. R \in Seq(All) /\ 0 \in All
    BY <1>0, <1>2
  <2>2. /\ Len(Append(R, 0)) = Len(R) + 1
        /\ \A i \in 1..Len(R) : Append(R, 0)[i] = R[i]
        /\ Append(R, 0)[Len(R) + 1] = 0
    BY ONLY <2>1, AppendProperties
  <2> QED
    BY <1>2, <1>4, <2>2
<1>6. Len(starts') <= RateLimit
  BY <1>1, <1>2, <1>4, <1>5
\* The place of a start, counted from the end.
<1>7. ASSUME NEW j \in 1..Ls
      PROVE  starts'[Len(starts') - j] = starts[Lt - (j - 1)]
  <2>1. Len(starts') - j \in 1..(Lt - d) /\ (Len(starts') - j) + d = Lt - (j - 1)
    BY <1>1, <1>2, <1>3, <1>5
  <2> QED
    BY <1>5, <2>1
<1>8. ASSUME NEW j \in 1..Ls
      PROVE  starts[Lt - (j - 1)] <= sent[Ls - (j - 1)]
  <2>1. j - 1 \in 0..(Ls - 1)
    BY <1>1
  <2> QED
    BY <2>1 DEF Matched
<1> HIDE DEF Ls, Lt
<1>9. CASE sent' = sent
  <2>1. Len(sent') <= Len(starts')
    BY <1>1, <1>2, <1>3, <1>5, <1>9 DEF Ls
  <2>2. ASSUME NEW j \in 0..(Len(sent') - 1)
        PROVE  starts'[Len(starts') - j] <= sent'[Len(sent') - j]
    <3>1. j \in 0..(Ls - 1) /\ sent'[Len(sent') - j] = sent[Ls - j]
      BY <1>9 DEF Ls
    <3>2. Ls - j \in 1..Ls
      BY <1>1, <3>1
    <3>3. CASE j = 0
      <4>1. starts'[Len(starts') - j] = 0
        BY <1>1, <1>2, <1>5, <3>3
      <4>2. sent[Ls - j] \in 0..(WindowMs - 1)
        BY <1>1, <3>2
      <4> QED
        BY <1>1, <3>1, <4>1, <4>2
    <3>4. CASE j # 0
      <4>1. j \in 1..Ls /\ Ls - (j - 1) \in 1..Ls /\ Ls - j <= Ls - (j - 1)
        BY <1>1, <3>1, <3>4
      <4>2. starts'[Len(starts') - j] <= sent[Ls - (j - 1)]
        BY <1>7, <1>8, <4>1
      <4>3. sent[Ls - j] >= sent[Ls - (j - 1)]
        BY <3>2, <4>1 DEF WindowInv, Sorted, Ls
      <4>4. /\ sent[Ls - j] \in Int /\ sent[Ls - (j - 1)] \in Int
            /\ starts'[Len(starts') - j] \in Int
        <5>1. sent[Ls - j] \in 0..(WindowMs - 1) /\ sent[Ls - (j - 1)] \in 0..(WindowMs - 1)
          BY <1>1, <3>2, <4>1
        <5>2. starts'[Len(starts') - j] = starts[Lt - (j - 1)] /\ Lt - (j - 1) \in 1..Lt
          BY <1>1, <1>2, <1>3, <1>7, <4>1
        <5>3. starts[Lt - (j - 1)] \in 0..WindowMs
          BY <1>1, <5>2 DEF All
        <5> QED
          BY <1>1, <5>1, <5>2, <5>3
      <4> QED
        BY <3>1, <4>2, <4>3, <4>4
    <3> QED
      BY <3>3, <3>4
  <2> QED
    BY <1>6, <2>1, <2>2 DEF Matched
<1>10. CASE sent' = Append(sent, 0)
  <2>1. /\ Len(sent') = Ls + 1 /\ sent'[Ls + 1] = 0
        /\ \A i \in 1..Ls : sent'[i] = sent[i]
    BY <1>10 DEF Ls, WindowInv
  <2>2. Len(sent') <= Len(starts')
    BY <1>1, <1>2, <1>3, <1>5, <2>1
  <2>3. ASSUME NEW j \in 0..(Len(sent') - 1)
        PROVE  starts'[Len(starts') - j] <= sent'[Len(sent') - j]
    <3>1. CASE j = 0
      BY <1>1, <1>2, <1>5, <2>1, <3>1
    <3>2. CASE j # 0
      <4>1. j \in 1..Ls /\ Len(sent') - j = Ls - (j - 1) /\ Ls - (j - 1) \in 1..Ls
        BY <1>1, <2>1, <3>2
      <4>2. sent'[Len(sent') - j] = sent[Ls - (j - 1)]
        BY <2>1, <4>1
      <4> QED
        BY <1>7, <1>8, <4>1, <4>2
    <3> QED
      BY <3>1, <3>2
  <2> QED
    BY <1>6, <2>2, <2>3 DEF Matched
<1> QED
  BY <1>4, <1>9, <1>10

LEMMA TickMatched ==
  ASSUME WindowInv, Matched, Tick
  PROVE  Matched'
<1> DEFINE Ls == Len(sent)
           Lt == Len(starts)
<1>1. /\ Lt \in Nat /\ \A i \in 1..Lt : starts[i] \in 0..WindowMs
      /\ Ls \in Nat /\ \A i \in 1..Ls : sent[i] \in 0..(WindowMs - 1)
      /\ WindowMs \in Nat \ {0} /\ RateLimit \in Nat
  BY AgesTyped
<1>2. PICK d \in 0..Ls :
        /\ Len(sent') = Ls - d
        /\ \A i \in 1..Len(sent') : sent'[i] = sent[i + d] + 1
  BY TickSent
<1>3. /\ Len(starts') = Lt
      /\ \A i \in 1..Lt : starts'[i] = IF starts[i] < WindowMs THEN starts[i] + 1 ELSE starts[i]
  BY AgedIs DEF Tick, WindowInv
<1>4. Len(starts') <= RateLimit /\ Len(sent') <= Len(starts')
  BY <1>1, <1>2, <1>3 DEF Matched
<1>5. ASSUME NEW j \in 0..(Len(sent') - 1)
      PROVE  starts'[Len(starts') - j] <= sent'[Len(sent') - j]
  <2> DEFINE i == Lt - j
             k == Ls - j
  <2>1. j \in 0..(Ls - 1) /\ k \in 1..Ls /\ Len(sent') - j \in 1..Len(sent')
        /\ (Len(sent') - j) + d = k
    BY <1>1, <1>2
  <2>2. i \in 1..Lt
    BY <1>1, <1>2, <2>1 DEF Matched
  <2>3. starts[i] <= sent[k]
    BY <2>1 DEF Matched
  <2>4. sent'[Len(sent') - j] = sent[k] + 1
    BY <1>2, <2>1
  <2>5. starts[i] \in 0..WindowMs /\ sent[k] \in 0..(WindowMs - 1)
    BY <1>1, <2>1, <2>2
  <2> HIDE DEF i, k
  <2>6. starts'[i] = starts[i] + 1
    <3>1. starts[i] < WindowMs
      BY <1>1, <2>3, <2>5
    <3>2. starts'[i] = IF starts[i] < WindowMs THEN starts[i] + 1 ELSE starts[i]
      BY <1>3, <2>2
    <3> QED
      BY <3>1, <3>2
  <2>7. starts'[i] <= sent[k] + 1
    BY <1>1, <2>3, <2>5, <2>6
  <2> QED
    BY <1>3, <2>4, <2>7 DEF i
<1> QED
  BY <1>4, <1>5 DEF Matched

LEMMA NextRate ==
  ASSUME RateLimit > 0 => Json = {}
  PROVE  WindowInv /\ RateInv /\ [Next]_vars => RateInv'
<1> SUFFICES ASSUME WindowInv, Matched, RateLimit > 0, [Next]_vars PROVE Matched'
  BY DEF RateInv
<1>1. ASSUME UNCHANGED <<starts, sent>> PROVE Matched'
  BY <1>1 DEF Matched
<1>2. CASE UNCHANGED vars
  BY <1>1, <1>2 DEF vars, window
<1>3. ASSUME NEW c \in Call, Enter(c)
      PROVE  Matched'
  <2>1. ~(RateLimit = 0 \/ c \in Json)
    BY TransportAssumption
  <2>2. UNCHANGED <<starts, sent>>
    BY <1>3, <2>1 DEF Enter
  <2> QED
    BY <1>1, <2>2
<1>4. ASSUME NEW c \in Call, Begin(c) \/ Abort(c)
      PROVE  Matched'
  BY <1>1, <1>4 DEF Begin, Abort, window
<1>5. ASSUME NEW c \in Call,
             Ask(c) \/ Answer(c) \/ Busy(c) \/ Reset(c) \/ Fail(c) \/ Retry(c) \/ BadBody(c)
               \/ Finish(c) \/ Transient(c) \/ Requery(c) \/ Cancel(c)
      PROVE  Matched'
  BY <1>1, <1>5
  DEF Ask, Answer, Busy, Reset, Fail, Retry, BadBody, Finish, Transient, Requery, Cancel, window
<1>6. CASE AllDone
  BY <1>1, <1>6 DEF AllDone, vars, window
<1> QED
  BY <1>2, <1>3, <1>4, <1>5, <1>6, TakeMatched, TickMatched DEF Next, Step

\* Where a metered endpoint serves no price requests, as none does (they go to
\* hosts of their own, past the window), no window holds more fetches than the
\* limit, whoever aborts in line.
THEOREM RateIsKept ==
  ASSUME RateLimit > 0 => Json = {}
  PROVE  Spec => []RateKept
<1>1. Init => WindowInv /\ RateInv
  BY TransportAssumption DEF Init, WindowInv, Sorted, RateInv, Matched
<1>2. WindowInv /\ RateInv => RateKept
  <2> SUFFICES ASSUME WindowInv, Matched, RateLimit > 0 PROVE Len(sent) <= RateLimit
    BY DEF RateInv, RateKept
  <2> QED
    BY AgesTyped DEF Matched
<1> QED
  BY <1>1, <1>2, NextWindow, NextRate, PTL DEF Spec

-----------------------------------------------------------------------------
(* Every request gets on.                                                  *)

\* What a step does to the requests beside the one it is of.
Wakes(c, place) ==
  /\ pc'[c] = place
  /\ \A d \in Call : d # c => pc'[d] = pc[d] \/ (pc[d] = "queued" /\ pc'[d] = "granted")

LEMMA SetWakes ==
  ASSUME SlotInv, NEW c \in Call, NEW place, pc' = [pc EXCEPT ![c] = place]
  PROVE  Wakes(c, place)
BY DEF SlotInv, SlotType, Wakes

LEMMA LeaveWakes ==
  ASSUME SlotInv, NEW c \in Call, pc[c] \in Holding, NEW place, Leave(c, place)
  PROVE  Wakes(c, place)
<1> DEFINE l == LimiterOf[c]
<1>1. l \in Limiter /\ waiting[l] \in Seq(Call)
  BY TransportAssumption DEF SlotInv, SlotType
<1>2. CASE waiting[l] = <<>>
  BY <1>2, SetWakes DEF Leave
<1>3. CASE waiting[l] # <<>>
  <2> DEFINE w == Head(waiting[l])
  <2>1. pc' = [pc EXCEPT ![c] = place, ![w] = "granted"]
    BY <1>3 DEF Leave
  <2>2. w = waiting[l][1] /\ 1 \in 1..Len(waiting[l]) /\ w \in Call
    BY <1>1, <1>3
  <2>3. pc[w] = "queued" /\ w # c
    BY <1>1, <2>2 DEF SlotInv, LinedUp, Holding
  <2> HIDE DEF w
  <2> QED
    BY <2>1, <2>2, <2>3 DEF SlotInv, SlotType, Wakes
<1> QED
  BY <1>2, <1>3

\* How far a request has come: the tries it has used up, of both loops, and how
\* far it is in this one.
Rank == [idle |-> 0, ready |-> 1, queued |-> 2, granted |-> 3, metered |-> 4, sent |-> 5,
         holding |-> 6, reading |-> 6, backoff |-> 7, pause |-> 8, done |-> 9]
Tries(c) == retry[c] * Attempts + attempt[c]
Work(c) == 10 * Tries(c) + Rank[pc[c]]
MostWork == 10 * (TransientRetries * Attempts + Attempts) + 9

LEMMA TriesBounded ==
  ASSUME Counted, NEW c \in Call
  PROVE  Tries(c) \in 0..(TransientRetries * Attempts + Attempts)
<1>1. /\ Attempts \in Nat /\ TransientRetries \in Nat
      /\ retry[c] \in 0..TransientRetries /\ attempt[c] \in 1..Attempts
  BY TransportAssumption DEF Counted
<1> DEFINE r == retry[c]
           A == Attempts
           T == TransientRetries
<1>2. r * A \in Nat /\ r * A <= T * A
  <2>1. r \in Nat /\ A \in Nat /\ T \in Nat /\ r <= T
    BY <1>1
  <2> HIDE DEF r, A, T
  <2>2. T * A = r * A + (T - r) * A
    BY <2>1
  <2>3. T - r \in Nat
    BY <2>1
  <2>4. (T - r) * A \in Nat /\ r * A \in Nat
    BY <2>1, <2>3
  <2> QED
    BY <2>2, <2>4
<1>3. T * A \in Nat
  BY <1>1
<1> DEFINE x == r * A
           y == T * A
<1>4. Tries(c) = x + attempt[c]
  BY DEF Tries
<1> HIDE DEF x, y
<1>5. x + attempt[c] \in 0..(y + Attempts)
  BY <1>1, <1>2, <1>3 DEF x, y
<1> QED
  BY <1>4, <1>5 DEF y

LEMMA RankIs ==
  ASSUME NEW place \in Place
  PROVE  Rank[place] \in 0..9
BY DEF Rank, Place

\* A request goes on to a later place of the same try, or to a new one.
Onward(c) ==
  \/ retry'[c] = retry[c] /\ attempt'[c] = attempt[c] /\ Rank[pc'[c]] > Rank[pc[c]]
  \/ retry'[c] = retry[c] /\ attempt'[c] = attempt[c] + 1
  \/ retry'[c] = retry[c] + 1 /\ attempt'[c] = 1
Stays(c) == pc'[c] = pc[c] /\ retry'[c] = retry[c] /\ attempt'[c] = attempt[c]

LEMMA OnwardWorks ==
  ASSUME SlotInv, SlotInv', CountInv, CountInv', NEW c \in Call, Onward(c)
  PROVE  Work(c)' > Work(c)
<1> DEFINE t == Tries(c)
           u == retry'[c] * Attempts + attempt'[c]
<1>1. /\ Attempts \in Nat /\ retry[c] \in Nat /\ attempt[c] \in 1..Attempts
      /\ retry'[c] \in Nat /\ attempt'[c] \in 1..Attempts
  <2>1. Attempts \in Nat /\ retry[c] \in Nat /\ attempt[c] \in 1..Attempts
    BY TransportAssumption DEF CountInv, Counted
  <2>2. retry'[c] \in Nat /\ attempt'[c] \in 1..Attempts
    BY TransportAssumption DEF CountInv, Counted
  <2> QED
    BY <2>1, <2>2
<1>2. Rank[pc[c]] \in 0..9 /\ Rank[pc'[c]] \in 0..9
  <2>1. pc[c] \in Place /\ pc'[c] \in Place
    BY DEF SlotInv, SlotType
  <2> QED
    BY <2>1, RankIs
<1>3. t \in Int /\ u \in Int
  BY <1>1 DEF Tries
<1>4. \/ u = t /\ Rank[pc'[c]] > Rank[pc[c]]
      \/ u >= t + 1
  <2>1. CASE retry'[c] = retry[c] /\ attempt'[c] = attempt[c] /\ Rank[pc'[c]] > Rank[pc[c]]
    BY <2>1 DEF Tries
  <2>2. CASE retry'[c] = retry[c] /\ attempt'[c] = attempt[c] + 1
    <3> DEFINE x == retry[c] * Attempts
    <3>1. x \in Int /\ t = x + attempt[c] /\ u = x + (attempt[c] + 1)
      BY <1>1, <2>2 DEF Tries
    <3> HIDE DEF x
    <3> QED
      BY <1>1, <3>1
  <2>3. CASE retry'[c] = retry[c] + 1 /\ attempt'[c] = 1
    <3> DEFINE r == retry[c]
               A == Attempts
               a == attempt[c]
               x == r * A
    <3>1. r \in Nat /\ A \in Nat /\ a \in 1..A
      BY <1>1
    <3>2. t = x + a /\ u = (r + 1) * A + 1
      BY <2>3 DEF Tries
    <3>3. (r + 1) * A = r * A + A
      <4> HIDE DEF r, A
      <4> QED
        BY <3>1
    <3>4. x \in Int
      BY <3>1
    <3>5. u = x + A + 1
      BY <3>2, <3>3
    <3> HIDE DEF r, A, a, x
    <3> QED
      BY <3>1, <3>2, <3>4, <3>5
  <2> QED
    BY <2>1, <2>2, <2>3 DEF Onward
<1>5. Work(c) = 10 * t + Rank[pc[c]] /\ Work(c)' = 10 * u + Rank[pc'[c]]
  BY DEF Work, Tries, Rank
<1> HIDE DEF t, u
<1>6. 10 * u + Rank[pc'[c]] > 10 * t + Rank[pc[c]]
  BY <1>2, <1>3, <1>4
<1> QED
  BY <1>5, <1>6

\* In each step, its request goes on; the others go on, or stay.
LEMMA StepOnward ==
  ASSUME SlotInv, CountInv, NEW c \in Call, Step(c) \/ Begin(c)
  PROVE  \A d \in Call : Onward(d) \/ Stays(d)
<1>0. /\ retry \in [Call -> 0..TransientRetries] /\ attempt \in [Call -> 1..Attempts]
      /\ pc \in [Call -> Place]
  BY DEF SlotInv, SlotType, CountInv, Counted
<1>1. ASSUME NEW place, Wakes(c, place), Rank[place] > Rank[pc[c]], UNCHANGED counters
      PROVE  \A d \in Call : Onward(d) \/ Stays(d)
  BY <1>1 DEF Wakes, Onward, Stays, counters, Rank
<1>2. CASE Ask(c)
  <2>1. \E place \in {"granted", "queued"} : pc' = [pc EXCEPT ![c] = place]
    BY <1>2 DEF Ask, Acquire
  <2>2. pc[c] = "ready" /\ UNCHANGED counters
    BY <1>2 DEF Ask
  <2>3. \E place \in {"granted", "queued"} : Wakes(c, place)
    BY <2>1, SetWakes
  <2> QED
    BY <1>1, <2>2, <2>3 DEF Rank
<1>3. CASE Enter(c)
  <2>1. \E place \in {"sent", "metered"} : pc' = [pc EXCEPT ![c] = place]
    BY <1>3 DEF Enter, Fetch
  <2>2. pc[c] = "granted" /\ UNCHANGED counters
    BY <1>3 DEF Enter
  <2>3. \E place \in {"sent", "metered"} : Wakes(c, place)
    BY <2>1, SetWakes
  <2> QED
    BY <1>1, <2>2, <2>3 DEF Rank
<1>4. CASE Take(c)
  <2>1. pc[c] = "metered" /\ UNCHANGED counters
    BY <1>4 DEF Take
  <2>2. Leave(c, "done") \/ pc' = [pc EXCEPT ![c] = "sent"]
    BY <1>4 DEF Take, Fetch
  <2>3. Wakes(c, "done") \/ Wakes(c, "sent")
    BY <2>1, <2>2, LeaveWakes, SetWakes DEF Holding
  <2> QED
    BY <1>1, <2>1, <2>3 DEF Rank
<1>5. CASE Answer(c) \/ Busy(c) \/ Reset(c) \/ Fail(c)
  <2>1. pc[c] = "sent" /\ UNCHANGED counters
    BY <1>5 DEF Answer, Busy, Reset, Fail
  <2>2. (\E place \in {"reading", "backoff", "done"} : Leave(c, place))
        \/ pc' = [pc EXCEPT ![c] = "holding"]
    BY <1>5 DEF Answer, Busy, Reset, Fail
  <2>3. \E place \in {"reading", "backoff", "done", "holding"} : Wakes(c, place)
    BY <2>1, <2>2, LeaveWakes, SetWakes DEF Holding
  <2> QED
    BY <1>1, <2>1, <2>3 DEF Rank
<1>6. CASE BadBody(c) \/ Finish(c) \/ Transient(c)
  <2>1. pc[c] = "reading" /\ UNCHANGED counters
    BY <1>6 DEF BadBody, Finish, Transient
  <2>2. \E place \in {"backoff", "done", "pause"} : pc' = [pc EXCEPT ![c] = place]
    BY <1>6 DEF BadBody, Finish, Transient
  <2>3. \E place \in {"backoff", "done", "pause"} : Wakes(c, place)
    BY <2>2, SetWakes
  <2> QED
    BY <1>1, <2>1, <2>3 DEF Rank
<1>7. CASE Retry(c)
  <2>1. Wakes(c, "ready")
    BY <1>7, SetWakes, LeaveWakes DEF Retry, Holding
  <2>2. attempt' = [attempt EXCEPT ![c] = @ + 1] /\ retry' = retry
    BY <1>7 DEF Retry
  <2>3. Onward(c)
    BY <1>0, <2>2 DEF Onward
  <2>4. \A d \in Call : d # c => Onward(d) \/ Stays(d)
    BY <1>0, <2>1, <2>2 DEF Wakes, Onward, Stays, Rank
  <2> QED
    BY <2>3, <2>4
<1>8. CASE Requery(c)
  <2>1. pc' = [pc EXCEPT ![c] = "ready"]
        /\ attempt' = [attempt EXCEPT ![c] = 1] /\ retry' = [retry EXCEPT ![c] = @ + 1]
    BY <1>8 DEF Requery
  <2>2. Onward(c)
    BY <1>0, <2>1 DEF Onward
  <2>3. \A d \in Call : d # c => Stays(d)
    BY <1>0, <2>1 DEF Stays
  <2> QED
    BY <2>2, <2>3
<1>9. CASE Cancel(c)
  <2>1. /\ pc[c] \in {"ready", "backoff", "reading", "pause", "granted", "sent", "holding"}
        /\ UNCHANGED counters
    BY <1>9 DEF Cancel
  <2>2. Wakes(c, "done")
    BY <1>9, SetWakes, LeaveWakes DEF Cancel, Holding
  <2> QED
    BY <1>1, <2>1, <2>2 DEF Rank
<1>10. CASE Begin(c)
  <2>1. pc[c] = "idle" /\ pc' = [pc EXCEPT ![c] = "ready"] /\ UNCHANGED counters
    BY <1>10 DEF Begin
  <2>2. Wakes(c, "ready")
    BY <2>1, SetWakes
  <2> QED
    BY <1>1, <2>1, <2>2 DEF Rank
<1> QED
  BY <1>2, <1>3, <1>4, <1>5, <1>6, <1>7, <1>8, <1>9, <1>10 DEF Step

\* Through both retry loops, slots handed over and aborts, a request only ever goes
\* on: whenever it moves it has used up some of a fixed amount, so none is sent
\* round for ever, and none takes more than MostWork steps.
THEOREM RequestsGoOn ==
  Spec => /\ [](\A c \in Call : Work(c) \in 0..MostWork)
          /\ [][\A c \in Call : pc'[c] # pc[c] => Work(c)' > Work(c)]_vars
<1>1. SlotInv /\ CountInv => \A c \in Call : Work(c) \in 0..MostWork
  <2> SUFFICES ASSUME SlotInv, CountInv, NEW c \in Call PROVE Work(c) \in 0..MostWork
    OBVIOUS
  <2> DEFINE m == TransientRetries * Attempts + Attempts
             t == Tries(c)
  <2>1. t \in 0..m
    BY TriesBounded DEF CountInv
  <2>2. Rank[pc[c]] \in 0..9
    BY RankIs DEF SlotInv, SlotType
  <2>3. m \in Nat
    BY TransportAssumption
  <2> HIDE DEF m, t
  <2>4. 10 * t + Rank[pc[c]] \in 0..(10 * m + 9)
    BY <2>1, <2>2, <2>3
  <2> QED
    BY <2>4 DEF Work, MostWork, m, t
<1>2. SlotInv /\ CountInv /\ SlotInv' /\ CountInv' /\ [Next]_vars
        => [\A c \in Call : pc'[c] # pc[c] => Work(c)' > Work(c)]_vars
  <2> SUFFICES ASSUME SlotInv, CountInv, SlotInv', CountInv', Next, NEW c \in Call, pc'[c] # pc[c]
               PROVE  Work(c)' > Work(c)
    OBVIOUS
  <2>1. PICK d \in Call : Begin(d) \/ Step(d)
    BY DEF Next, Abort, Tick, AllDone, vars
  <2>2. Onward(c)
    BY <2>1, StepOnward DEF Stays
  <2> QED
    BY <2>2, OnwardWorks
<1> QED
  BY <1>1, <1>2, SlotInvariance, CountInvariance, PTL DEF Spec

\* A request that sleeps is in the line of its limiter.
Asleep ==
  \A c \in Call : pc[c] = "queued" =>
    \E i \in 1..Len(waiting[LimiterOf[c]]) : waiting[LimiterOf[c]][i] = c

LEMMA MoveSleeps ==
  ASSUME Asleep, NEW c \in Call, NEW place, place # "queued", Wakes(c, place), UNCHANGED waiting
  PROVE  Asleep'
BY DEF Asleep, Wakes

LEMMA LeaveSleeps ==
  ASSUME SlotInv, Asleep, NEW c \in Call, pc[c] \in Holding, NEW place, place # "queued",
         Leave(c, place)
  PROVE  Asleep'
<1> DEFINE l == LimiterOf[c]
<1>1. l \in Limiter /\ waiting[l] \in Seq(Call)
  BY TransportAssumption DEF SlotInv, SlotType
<1>2. Wakes(c, place)
  BY LeaveWakes
<1>3. CASE waiting[l] = <<>>
  <2>1. UNCHANGED waiting
    BY <1>3 DEF Leave
  <2> QED
    BY <1>2, <2>1, MoveSleeps
<1>4. CASE waiting[l] # <<>>
  <2> DEFINE w == Head(waiting[l])
             n == Len(waiting[l])
  <2>1. pc' = [pc EXCEPT ![c] = place, ![w] = "granted"]
        /\ waiting' = [waiting EXCEPT ![l] = Tail(@)]
    BY <1>4 DEF Leave
  <2>2. w = waiting[l][1] /\ w \in Call /\ n \in Nat /\ n > 0
    BY <1>1, <1>4
  <2>3. /\ waiting'[l] = Tail(waiting[l])
        /\ \A m \in Limiter : m # l => waiting'[m] = waiting[m]
    BY <1>1, <2>1 DEF SlotInv, SlotType
  <2>4. Len(Tail(waiting[l])) = n - 1 /\ \A i \in 1..(n - 1) : Tail(waiting[l])[i] = waiting[l][i + 1]
    BY <1>1, <1>4
  <2>5. pc'[w] = "granted"
    BY <2>1, <2>2 DEF SlotInv, SlotType
  <2> HIDE DEF w
  <2>6. ASSUME NEW d \in Call, pc'[d] = "queued"
        PROVE  \E i \in 1..Len(waiting'[LimiterOf[d]]) : waiting'[LimiterOf[d]][i] = d
    <3>1. d # c /\ d # w /\ pc[d] = "queued" /\ LimiterOf[d] \in Limiter
      BY <1>2, <2>5, <2>6, TransportAssumption DEF Wakes
    <3>2. PICK i \in 1..Len(waiting[LimiterOf[d]]) : waiting[LimiterOf[d]][i] = d
      BY <3>1 DEF Asleep
    <3>3. CASE LimiterOf[d] # l
      BY <2>3, <3>1, <3>2, <3>3
    <3>4. CASE LimiterOf[d] = l
      <4>1. i \in 1..n /\ i # 1
        BY <2>2, <3>1, <3>2, <3>4
      <4>2. i - 1 \in 1..(n - 1) /\ (i - 1) + 1 = i
        BY <2>2, <4>1
      <4>3. Tail(waiting[l])[i - 1] = d
        BY <2>4, <3>2, <3>4, <4>2
      <4> HIDE DEF n, l
      <4> QED
        BY <2>3, <2>4, <3>4, <4>2, <4>3
    <3> QED
      BY <3>3, <3>4
  <2> QED
    BY <2>6 DEF Asleep
<1> QED
  BY <1>3, <1>4

LEMMA AskSleeps ==
  ASSUME SlotInv, Asleep, NEW c \in Call, Ask(c)
  PROVE  Asleep'
<1> DEFINE l == LimiterOf[c]
<1>1. l \in Limiter /\ waiting[l] \in Seq(Call)
  BY TransportAssumption DEF SlotInv, SlotType
<1>2. CASE active[l] < Concurrency
  <2>1. pc' = [pc EXCEPT ![c] = "granted"] /\ waiting' = waiting
    BY <1>2 DEF Ask, Acquire
  <2>2. Wakes(c, "granted")
    BY <2>1, SetWakes
  <2> QED
    BY <2>1, <2>2, MoveSleeps
<1>3. CASE ~(active[l] < Concurrency)
  <2>1. pc' = [pc EXCEPT ![c] = "queued"] /\ waiting' = [waiting EXCEPT ![l] = Append(@, c)]
    BY <1>3 DEF Ask, Acquire
  <2> DEFINE n == Len(waiting[l])
  <2>2. /\ n \in Nat /\ Len(waiting'[l]) = n + 1 /\ waiting'[l][n + 1] = c
        /\ \A i \in 1..n : waiting'[l][i] = waiting[l][i]
        /\ \A m \in Limiter : m # l => waiting'[m] = waiting[m]
    BY <1>1, <2>1 DEF SlotInv, SlotType
  <2>3. \A d \in Call : d # c => pc'[d] = pc[d]
    BY <2>1 DEF SlotInv, SlotType
  <2> HIDE DEF n
  <2>4. ASSUME NEW d \in Call, pc'[d] = "queued"
        PROVE  \E i \in 1..Len(waiting'[LimiterOf[d]]) : waiting'[LimiterOf[d]][i] = d
    <3>1. CASE d = c
      <4>1. n + 1 \in 1..(n + 1)
        BY <2>2
      <4> QED
        BY <2>2, <3>1, <4>1
    <3>2. CASE d # c
      <4>1. PICK i \in 1..Len(waiting[LimiterOf[d]]) : waiting[LimiterOf[d]][i] = d
        BY <2>3, <2>4, <3>2 DEF Asleep
      <4>2. LimiterOf[d] \in Limiter
        BY TransportAssumption
      <4>3. CASE LimiterOf[d] = l
        <5>1. i \in 1..n /\ i \in 1..(n + 1)
          BY <2>2, <4>1, <4>3 DEF n
        <5>2. waiting'[l][i] = d
          BY <2>2, <4>1, <4>3, <5>1
        <5> HIDE DEF l
        <5> QED
          BY <2>2, <4>3, <5>1, <5>2
      <4>4. CASE LimiterOf[d] # l
        BY <2>2, <4>1, <4>2, <4>4
      <4> QED
        BY <4>3, <4>4
    <3> QED
      BY <3>1, <3>2
  <2> QED
    BY <2>4 DEF Asleep
<1> QED
  BY <1>2, <1>3

LEMMA StepSleeps ==
  ASSUME SlotInv, Asleep, [Next]_vars
  PROVE  Asleep'
<1>1. ASSUME NEW c \in Call, NEW place, place # "queued", pc' = [pc EXCEPT ![c] = place], UNCHANGED waiting
      PROVE  Asleep'
  BY <1>1, SetWakes, MoveSleeps
<1>2. ASSUME NEW c \in Call, Begin(c) \/ Enter(c) \/ Reset(c) \/ BadBody(c) \/ Finish(c)
                               \/ Transient(c) \/ Requery(c)
      PROVE  Asleep'
  <2>1. /\ \E place \in {"ready", "sent", "metered", "holding", "backoff", "done", "pause"} :
             pc' = [pc EXCEPT ![c] = place]
        /\ UNCHANGED waiting
    BY <1>2 DEF Begin, Enter, Fetch, Reset, BadBody, Finish, Transient, Requery, slots
  <2> QED
    BY <1>1, <2>1
<1>3. ASSUME NEW c \in Call, Take(c) \/ Answer(c) \/ Busy(c) \/ Fail(c) \/ Retry(c) \/ Cancel(c)
      PROVE  Asleep'
  <2>1. \/ /\ \E place \in {"sent", "ready", "done"} : pc' = [pc EXCEPT ![c] = place]
           /\ UNCHANGED waiting
        \/ /\ \E place \in {"reading", "backoff", "done", "ready"} : Leave(c, place)
           /\ pc[c] \in Holding
    BY <1>3 DEF Take, Fetch, Answer, Busy, Fail, Retry, Cancel, slots, Holding
  <2> QED
    BY <1>1, <2>1, LeaveSleeps
<1>4. CASE UNCHANGED <<pc, waiting>>
  BY <1>4 DEF Asleep
<1> QED
  BY <1>2, <1>3, <1>4, AskSleeps DEF Next, Step, Abort, Tick, AllDone, vars, slots

\* Whoever sleeps for a slot sleeps for a request that has one, and that is neither
\* asleep itself nor done: requests never all wait for each other, and none is
\* forgotten in a line whose slots have come free.
THEOREM SleepersAreHeard ==
  Spec => [](\A c \in Call : pc[c] = "queued" =>
               \E d \in Call : LimiterOf[d] = LimiterOf[c] /\ pc[d] \in Holding)
<1>1. Init => Asleep
  BY DEF Init, Asleep
<1>2. SlotInv /\ Asleep =>
        \A c \in Call : pc[c] = "queued" =>
          \E d \in Call : LimiterOf[d] = LimiterOf[c] /\ pc[d] \in Holding
  <2> SUFFICES ASSUME SlotInv, Asleep, NEW c \in Call, pc[c] = "queued"
               PROVE  \E d \in Call : LimiterOf[d] = LimiterOf[c] /\ pc[d] \in Holding
    OBVIOUS
  <2> DEFINE l == LimiterOf[c]
  <2>1. l \in Limiter /\ Concurrency \in Nat \ {0}
    BY TransportAssumption
  <2>2. waiting[l] \in Seq(Call) /\ \E i \in 1..Len(waiting[l]) : waiting[l][i] = c
    BY <2>1 DEF Asleep, SlotInv, SlotType
  <2>3. waiting[l] # <<>>
    BY <2>2
  <2>4. Cardinality(Holders(l)) = Concurrency /\ IsFiniteSet(Holders(l))
    BY <2>1, <2>3 DEF SlotInv, SlotsExact, NoIdleSlot, FiniteHolders
  <2>5. Holders(l) # {}
    BY <2>1, <2>4, FS_EmptySet
  <2> QED
    BY <2>5 DEF Holders
<1> QED
  BY <1>1, <1>2, StepSleeps, SlotInvariance, PTL DEF Spec
=============================================================================
