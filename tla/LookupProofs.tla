---------------------------- MODULE LookupProofs ----------------------------
(***************************************************************************)
(* Proofs about the three shared lookups, CoinSearch, ObjectBatch and      *)
(* PriceReads: for any readers, tool calls, networks and objects, for any  *)
(* calls, samples and bounds, and for any coins, pages and callers.        *)
(***************************************************************************)
EXTENDS CoinSearch, ObjectBatch, PriceReads, TLAPS, FiniteSetTheorems, SequenceTheorems,
        Sums

-----------------------------------------------------------------------------
(* Object reads: who fails, and what the memo keeps. *)

Fields == {"read", "reader", "own", "from", "got", "refused"}

\* A read has failed only by a request of its own, a reader only by such a read,
\* and the memo names only reads that have not failed.
Answerable ==
  /\ memo \in [MemoCall -> [Object -> Reader \cup {NoReader}]]
  /\ DOMAIN reads = Reader
  /\ \A r \in Reader : DOMAIN reads[r] = Fields
  /\ \A r \in Reader : reads[r].read = "failed" => reads[r].refused
  /\ \A r \in Reader : reads[r].reader # "idle" =>
       \A i \in DOMAIN reads[r].from : reads[r].from[i] \in Reader
  /\ FailureIsOwn
  /\ FailureIsForgotten

LEMMA InitAnswerable == BatchInit => Answerable
<1> SUFFICES ASSUME BatchInit PROVE Answerable
  OBVIOUS
<1>1. memo \in [MemoCall -> [Object -> Reader \cup {NoReader}]]
  BY DEF BatchInit
<1>2. \A r \in Reader : reads[r] = NewRead
  BY DEF BatchInit
<1>3. DOMAIN reads = Reader
  BY DEF BatchInit
<1>4. NewRead.read = "none" /\ NewRead.reader = "idle"
  BY DEF NewRead
<1>5. FailureIsForgotten
  BY DEF BatchInit, FailureIsForgotten
<1> QED
  <2>1. DOMAIN NewRead = Fields
    BY DEF NewRead, Fields
  <2> QED
    BY <1>1, <1>2, <1>3, <1>4, <1>5, <2>1 DEF Answerable, FailureIsOwn

\* What a step may do for the invariant to hold on: the reads in `failing` are
\* refused and leave the memo, no other read fails, and readers go on awaiting
\* the reads they awaited.
LEMMA Answered ==
  ASSUME Answerable, NEW failing \in SUBSET Reader,
         memo' \in [MemoCall -> [Object -> Reader \cup {NoReader}]],
         DOMAIN reads' = Reader,
         \A r \in Reader : DOMAIN reads'[r] = Fields,
         \A r \in Reader : reads[r].refused \/ r \in failing => reads'[r].refused,
         \A r \in Reader : reads'[r].read = "failed" => r \in failing \/ reads[r].read = "failed",
         \A r \in Reader : reads'[r].reader # "idle" =>
           \A i \in DOMAIN reads'[r].from : reads'[r].from[i] \in Reader,
         \A r \in Reader : reads'[r].reader = "failed" =>
           /\ reads[r].reader # "idle" /\ reads'[r].from = reads[r].from
           /\ \E i \in DOMAIN reads[r].from : reads[reads[r].from[i]].refused,
         \A c \in MemoCall, o \in Object :
           memo'[c][o] # NoReader => reads'[memo'[c][o]].read # "failed"
  PROVE  Answerable'
<1>1. \A r \in Reader : reads'[r].read = "failed" => reads'[r].refused
  BY DEF Answerable
<1>2. FailureIsOwn'
  <2> SUFFICES ASSUME NEW r \in Reader, reads'[r].reader = "failed"
               PROVE  \E i \in DOMAIN reads'[r].from : reads'[reads'[r].from[i]].refused
    BY DEF FailureIsOwn
  <2>1. PICK i \in DOMAIN reads[r].from : reads[reads[r].from[i]].refused
    OBVIOUS
  <2>2. reads[r].from[i] \in Reader
    BY DEF Answerable
  <2>3. reads'[reads[r].from[i]].refused
    BY <2>1, <2>2
  <2> QED
    BY <2>3
<1>3. FailureIsForgotten'
  BY DEF FailureIsForgotten
<1> QED
  BY <1>1, <1>2, <1>3 DEF Answerable

\* A read of its own that is refused leaves the memo.
LEMMA RefusedAnswered ==
  ASSUME Answerable, NEW r \in Reader, Refused(r)
  PROVE  Answerable'
<1>1. reads' = [reads EXCEPT ![r].read = "failed", ![r].refused = TRUE]
  BY DEF Refused
<1>2. \A q \in Reader : reads'[q].reader = reads[q].reader /\ reads'[q].from = reads[q].from
  BY <1>1 DEF Answerable, Fields
<1>3. DOMAIN reads' = Reader /\ \A q \in Reader : DOMAIN reads'[q] = Fields
  BY <1>1 DEF Answerable, Fields
<1>4. reads'[r].refused /\ \A q \in Reader : q # r => reads'[q] = reads[q]
  BY <1>1 DEF Answerable, Fields
<1>5. /\ memo' \in [MemoCall -> [Object -> Reader \cup {NoReader}]]
      /\ \A c \in MemoCall, o \in Object :
           memo'[c][o] # NoReader => memo'[c][o] # r /\ memo'[c][o] = memo[c][o]
  BY DEF Refused, Forgotten, Answerable
<1>6. \A q \in Reader : reads'[q].reader = "failed" =>
        /\ reads[q].reader # "idle" /\ reads'[q].from = reads[q].from
        /\ \E i \in DOMAIN reads[q].from : reads[reads[q].from[i]].refused
  BY <1>2 DEF Answerable, FailureIsOwn
<1>7. \A c \in MemoCall, o \in Object :
        memo'[c][o] # NoReader => reads'[memo'[c][o]].read # "failed"
  BY <1>4, <1>5 DEF Answerable, FailureIsForgotten
<1>8. \A q \in Reader : reads'[q].reader # "idle" =>
        \A i \in DOMAIN reads'[q].from : reads'[q].from[i] \in Reader
  BY <1>2 DEF Answerable
<1>9. \A q \in Reader :
        /\ reads[q].refused \/ q \in {r} => reads'[q].refused
        /\ reads'[q].read = "failed" => q \in {r} \/ reads[q].read = "failed"
  BY <1>4
<1> QED
  <2>1. {r} \in SUBSET Reader
    OBVIOUS
  <2> QED
    BY <1>3, <1>5, <1>6, <1>7, <1>8, <1>9, <2>1, Answered

\* A step that fails no read, and keeps what is refused.
LEMMA Unrefused ==
  ASSUME Answerable, UNCHANGED memo,
         DOMAIN reads' = Reader,
         \A q \in Reader :
           /\ DOMAIN reads'[q] = Fields
           /\ reads'[q].refused = reads[q].refused
           /\ reads'[q].read = "failed" => reads[q].read = "failed"
           /\ reads'[q].from = reads[q].from
           /\ reads'[q].reader # "idle" => reads[q].reader # "idle"
           /\ reads'[q].reader = "failed" =>
                \/ reads[q].reader = "failed"
                \/ \E i \in DOMAIN reads[q].from : reads[reads[q].from[i]].refused
  PROVE  Answerable'
<1>1. \A q \in Reader : reads'[q].reader = "failed" =>
        /\ reads[q].reader # "idle" /\ reads'[q].from = reads[q].from
        /\ \E i \in DOMAIN reads[q].from : reads[reads[q].from[i]].refused
  BY DEF Answerable, FailureIsOwn
<1>2. \A c \in MemoCall, o \in Object :
        memo'[c][o] # NoReader => reads'[memo'[c][o]].read # "failed"
  BY DEF Answerable, FailureIsForgotten
<1>3. \A q \in Reader : reads'[q].reader # "idle" =>
        \A i \in DOMAIN reads'[q].from : reads'[q].from[i] \in Reader
  BY DEF Answerable
<1>4. memo' \in [MemoCall -> [Object -> Reader \cup {NoReader}]]
  BY DEF Answerable
<1>5. {} \in SUBSET Reader
  OBVIOUS
<1>6. \A q \in Reader :
        /\ reads[q].refused \/ q \in {} => reads'[q].refused
        /\ reads'[q].read = "failed" => q \in {} \/ reads[q].read = "failed"
  OBVIOUS
<1> QED
  BY <1>1, <1>2, <1>3, <1>4, <1>5, <1>6, Answered

\* What may be in a request: readers with the keys the memo lacked.
KeySeqs == { Lacking(r, known) : r \in Reader, known \in [Object -> Reader \cup {NoReader}] }
Entry == [reader : Reader, keys : KeySeqs]
Batched ==
  /\ pending \in Seq(Entry)
  /\ \A b \in batches : b.entries \in Seq(Entry) /\ b.entries # <<>>

LEMMA StepBatched ==
  ASSUME Answerable, Batched, [BatchNext]_batchVars
  PROVE  Batched'
<1>1. ASSUME NEW r \in Reader, AskObjects(r)
      PROVE  Batched'
  <2> DEFINE known == memo[CallOf[r]]
             own == Lacking(r, known)
  <2>1. known \in [Object -> Reader \cup {NoReader}]
    BY DEF Answerable, MemoCall
  <2>2. own \in KeySeqs
    BY <2>1 DEF KeySeqs
  <2>3. /\ pending' = pending \/ pending' = Append(pending, [reader |-> r, keys |-> own])
        /\ batches' = batches
    BY <1>1 DEF AskObjects
  <2> HIDE DEF known, own
  <2>4. [reader |-> r, keys |-> own] \in Entry
    BY <2>2 DEF Entry
  <2> QED
    BY <2>3, <2>4 DEF Batched
<1>2. CASE Drain
  <2>1. /\ pending' = <<>> /\ pending # <<>>
        /\ \A b \in batches' : b \in batches \/ b.entries = pending
    BY <1>2 DEF Drain
  <2> QED
    BY <2>1 DEF Batched
<1>3. ASSUME NEW b \in batches, BatchFails(b)
      PROVE  Batched'
  <2>1. /\ pending' = pending
        /\ \A c \in batches' :
             c \in batches \/ \E i \in DOMAIN b.entries : c.entries = <<b.entries[i]>>
    BY <1>3 DEF BatchFails
  <2>2. \A i \in DOMAIN b.entries : b.entries[i] \in Entry
    BY DEF Batched
  <2>3. \A i \in DOMAIN b.entries : <<b.entries[i]>> \in Seq(Entry) /\ <<b.entries[i]>> # <<>>
    BY <2>2
  <2> QED
    BY <2>1, <2>3 DEF Batched
<1>4. ASSUME NEW b \in batches, BatchAnswers(b) \/ RetryFails(b)
      PROVE  Batched'
  BY <1>4 DEF BatchAnswers, RetryFails, Batched
<1>5. ASSUME NEW r \in Reader, ReadLatest(r) \/ FinishReader(r)
      PROVE  Batched'
  BY <1>5 DEF ReadLatest, FinishReader, Batched
<1>6. CASE UNCHANGED batchVars
  BY <1>6 DEF batchVars, Batched
<1> QED
  BY <1>1, <1>2, <1>3, <1>4, <1>5, <1>6 DEF BatchNext

LEMMA StepAnswerable ==
  ASSUME Answerable, Batched, [BatchNext]_batchVars
  PROVE  Answerable'
<1>0. /\ memo \in [MemoCall -> [Object -> Reader \cup {NoReader}]]
      /\ DOMAIN reads = Reader
      /\ \A q \in Reader : DOMAIN reads[q] = Fields
  BY DEF Answerable
<1>1. ASSUME NEW r \in Reader, AskObjects(r)
      PROVE  Answerable'
  <2> DEFINE known == memo[CallOf[r]]
             own == Lacking(r, known)
             source == [o \in Object |->
                          IF o \in ToSet(Wanted[r]) /\ known[o] = NoReader THEN r ELSE known[o]]
             read == IF own = <<>> THEN "none" ELSE "asked"
             from == [i \in DOMAIN Wanted[r] |-> source[Wanted[r][i]]]
  <2>1. /\ memo' = [memo EXCEPT ![CallOf[r]] = source]
        /\ reads' = [reads EXCEPT ![r].reader = "waiting", ![r].read = read, ![r].own = own,
                                  ![r].from = from]
        /\ reads[r].reader = "idle"
    BY <1>1 DEF AskObjects
  <2>2. CallOf[r] \in MemoCall /\ \A i \in DOMAIN Wanted[r] : Wanted[r][i] \in Object
    BY DEF MemoCall, Object, ToSet
  <2>3. known \in [Object -> Reader \cup {NoReader}]
    BY <1>0, <2>2
  <2>4. \A i \in DOMAIN Wanted[r] : Wanted[r][i] \in ToSet(Wanted[r])
    BY DEF ToSet
  <2>5. \A i \in DOMAIN from : from[i] \in Reader
    BY <2>2, <2>3, <2>4
  <2>6. /\ memo' \in [MemoCall -> [Object -> Reader \cup {NoReader}]]
        /\ \A c \in MemoCall, o \in Object :
             memo'[c][o] = memo[c][o] \/ memo'[c][o] = r
    <3> HIDE DEF source
    <3>1. source \in [Object -> Reader \cup {NoReader}]
      BY <2>3 DEF source
    <3>2. \A o \in Object : source[o] = memo[CallOf[r]][o] \/ source[o] = r
      BY DEF source
    <3> QED
      BY <1>0, <2>1, <2>2, <3>1, <3>2
  <2> HIDE DEF known, own, source, from
  <2>7. /\ read \in {"none", "asked"}
        /\ reads'[r].read = read /\ reads'[r].from = from /\ reads'[r].reader = "waiting"
        /\ reads'[r].refused = reads[r].refused
        /\ DOMAIN reads'[r] = Fields
        /\ DOMAIN reads' = Reader
        /\ \A q \in Reader : q # r => reads'[q] = reads[q]
    BY <1>0, <2>1 DEF Fields
  <2>8. \A c \in MemoCall, o \in Object :
          memo'[c][o] # NoReader => reads'[memo'[c][o]].read # "failed"
    BY <1>0, <2>6, <2>7 DEF Answerable, FailureIsForgotten
  <2>9. FailureIsForgotten'
    BY <2>8 DEF FailureIsForgotten
  <2>10. FailureIsOwn'
    <3> SUFFICES ASSUME NEW q \in Reader, reads'[q].reader = "failed"
                 PROVE  \E i \in DOMAIN reads'[q].from : reads'[reads'[q].from[i]].refused
      BY DEF FailureIsOwn
    <3>1. q # r /\ reads'[q] = reads[q] /\ reads[q].reader # "idle"
      BY <2>7
    <3>2. PICK i \in DOMAIN reads[q].from : reads[reads[q].from[i]].refused
      BY <3>1 DEF Answerable, FailureIsOwn
    <3>3. reads[q].from[i] \in Reader
      BY <3>1 DEF Answerable
    <3>4. reads'[reads[q].from[i]].refused
      BY <2>7, <3>2, <3>3
    <3> QED
      BY <3>1, <3>4
  <2>11. \A q \in Reader : reads'[q].reader # "idle" =>
           \A i \in DOMAIN reads'[q].from : reads'[q].from[i] \in Reader
    BY <2>5, <2>7 DEF Answerable
  <2>12. \A q \in Reader :
           DOMAIN reads'[q] = Fields /\ (reads'[q].read = "failed" => reads'[q].refused)
    BY <1>0, <2>7 DEF Answerable
  <2> QED
    BY <2>6, <2>7, <2>9, <2>10, <2>11, <2>12 DEF Answerable
<1>2. ASSUME NEW r \in Reader, ReadLatest(r)
      PROVE  Answerable'
  <2>1. CASE Refused(r)
    BY <2>1, RefusedAnswered
  <2>2. CASE UNCHANGED memo /\ ~Refused(r)
    <3>1. PICK got : reads' = [reads EXCEPT ![r].read = "read", ![r].got = got]
      BY <1>2, <2>2 DEF ReadLatest
    <3> QED
      BY <1>0, <2>2, <3>1, Unrefused DEF Fields
  <2> QED
    BY <1>2, <2>1, <2>2 DEF ReadLatest
<1>3. ASSUME NEW r \in Reader, FinishReader(r)
      PROVE  Answerable'
  <2>1. UNCHANGED memo /\ reads[r].reader = "waiting"
    BY <1>3 DEF FinishReader
  <2>2. CASE reads' = [reads EXCEPT ![r].reader = "answered"]
    BY <1>0, <2>1, <2>2, Unrefused DEF Fields
  <2>3. ASSUME NEW i \in DOMAIN reads[r].from, reads[reads[r].from[i]].read = "failed",
               reads' = [reads EXCEPT ![r].reader = "failed"]
        PROVE  Answerable'
    <3>1. reads[reads[r].from[i]].refused
      BY <2>1, <2>3 DEF Answerable
    <3> QED
      BY <1>0, <2>1, <2>3, <3>1, Unrefused DEF Fields
  <2> QED
    BY <1>3, <2>2, <2>3 DEF FinishReader
<1>4. CASE Drain
  BY <1>0, <1>4, Unrefused DEF Drain
<1>5. ASSUME NEW b \in batches, BatchAnswers(b)
      PROVE  Answerable'
  <2>1. UNCHANGED memo /\ DOMAIN reads' = Reader
    BY <1>5 DEF BatchAnswers
  <2>2. \A q \in Reader :
          \/ reads'[q] = reads[q]
          \/ \E answer : reads'[q] = Received(reads[q], answer)
    BY <1>5 DEF BatchAnswers
  <2>3. ASSUME NEW q \in Reader, NEW answer
        PROVE  LET new == Received(reads[q], answer)
               IN  /\ DOMAIN new = Fields
                   /\ new.refused = reads[q].refused /\ new.from = reads[q].from
                   /\ new.reader = reads[q].reader /\ new.read # "failed"
    BY <1>0 DEF Received, Fields
  <2>4. \A q \in Reader :
          /\ DOMAIN reads'[q] = Fields
          /\ reads'[q].refused = reads[q].refused /\ reads'[q].from = reads[q].from
          /\ reads'[q].reader = reads[q].reader
          /\ reads'[q].read = "failed" => reads[q].read = "failed"
    BY <1>0, <2>2, <2>3
  <2> QED
    BY <2>1, <2>4, Unrefused
<1>6. ASSUME NEW b \in batches, BatchFails(b)
      PROVE  Answerable'
  BY <1>0, <1>6, Unrefused DEF BatchFails
<1>7. ASSUME NEW b \in batches, RetryFails(b)
      PROVE  Answerable'
  <2>1. b.entries[1].reader \in Reader
    <3>1. b.entries \in Seq(Entry) /\ b.entries # <<>>
      BY DEF Batched
    <3>2. b.entries[1] \in Entry
      BY <3>1
    <3> QED
      BY <3>2 DEF Entry
  <2> QED
    BY <1>7, <2>1, RefusedAnswered DEF RetryFails
<1>8. CASE UNCHANGED batchVars
  BY <1>0, <1>8, Unrefused DEF batchVars
<1> QED
  BY <1>1, <1>2, <1>3, <1>4, <1>5, <1>6, <1>7, <1>8 DEF BatchNext

LEMMA BatchInvariant == BatchSpec => [](Answerable /\ Batched)
<1>1. BatchInit => Answerable /\ Batched
  BY InitAnswerable DEF BatchInit, Batched
<1>2. Answerable /\ Batched /\ [BatchNext]_batchVars => (Answerable /\ Batched)'
  BY StepAnswerable, StepBatched
<1> QED
  BY <1>1, <1>2, PTL DEF BatchSpec

\* For any readers, calls and objects, a reader fails only where a request for
\* one of its objects was refused that no stranger's keys were in.
THEOREM ReadersFailAlone == BatchSpec => []FailureIsOwn
<1>1. Answerable => FailureIsOwn
  BY DEF Answerable
<1> QED
  BY <1>1, BatchInvariant, PTL

\* For any readers, calls and objects, a read that failed is in no memo.
THEOREM FailedReadsAreForgotten == BatchSpec => []FailureIsForgotten
<1>1. Answerable => FailureIsForgotten
  BY DEF Answerable
<1> QED
  BY <1>1, BatchInvariant, PTL

-----------------------------------------------------------------------------
(* Object reads: whose the answers are.                                    *)

\* The keys of a request, one reader's after another's.
IsFlat(seqs, k, g) ==
  g = [i \in 1..k |-> IF i = 1 THEN seqs[i] ELSE g[i - 1] \o seqs[i]]

LEMMA FlatExists ==
  ASSUME NEW seqs, NEW n \in Nat
  PROVE  \E g : IsFlat(seqs, n, g)
<1> DEFINE Bad == { k \in Nat : ~ \E g : IsFlat(seqs, k, g) }
<1> SUFFICES ASSUME Bad # {} PROVE FALSE
  OBVIOUS
<1>1. PICK k \in Bad : \A j \in Bad : k <= j
  <2>1. Bad \in SUBSET Nat
    OBVIOUS
  <2> HIDE DEF Bad
  <2> QED
    BY <2>1, LeastNat
<1>2. CASE k = 0
  <2>1. [i \in 1..k |-> 0] = [i \in 1..k |-> IF i = 1 THEN seqs[i] ELSE [j \in 1..k |-> 0][i - 1] \o seqs[i]]
    BY <1>2
  <2> QED
    BY <2>1 DEF IsFlat
<1>3. CASE k # 0
  <2>1. k \in Nat /\ k - 1 \in Nat /\ k - 1 \notin Bad
    BY <1>1, <1>3
  <2>2. PICK h : IsFlat(seqs, k - 1, h)
    BY <2>1
  <2> DEFINE g == [i \in 1..k |-> IF i < k THEN h[i]
                                  ELSE IF i = 1 THEN seqs[i] ELSE h[i - 1] \o seqs[i]]
  <2>3. ASSUME NEW i \in 1..k
        PROVE  g[i] = IF i = 1 THEN seqs[i] ELSE g[i - 1] \o seqs[i]
    <3>1. h = [j \in 1..(k - 1) |-> IF j = 1 THEN seqs[j] ELSE h[j - 1] \o seqs[j]]
      BY <2>2 DEF IsFlat
    <3>2. i # 1 => i - 1 \in 1..k /\ i - 1 < k
      BY <2>1
    <3>3. i # 1 => g[i - 1] = h[i - 1]
      BY <3>2
    <3>4. CASE i < k
      <4>1. i \in 1..(k - 1)
        BY <2>1, <3>4
      <4>2. h[i] = IF i = 1 THEN seqs[i] ELSE h[i - 1] \o seqs[i]
        BY <3>1, <4>1
      <4> QED
        BY <3>3, <3>4, <4>2
    <3>5. CASE ~(i < k)
      BY <3>3, <3>5
    <3> QED
      BY <3>4, <3>5
  <2>4. g = [i \in 1..k |-> g[i]]
    OBVIOUS
  <2> HIDE DEF g
  <2>5. g = [i \in 1..k |-> IF i = 1 THEN seqs[i] ELSE g[i - 1] \o seqs[i]]
    BY <2>3, <2>4
  <2> QED
    BY <1>1, <2>1, <2>5 DEF IsFlat
<1> QED
  BY <1>2, <1>3

\* Where the part of each begins.
Lens(seqs) == [j \in DOMAIN seqs |-> Len(seqs[j])]
Offset(seqs, i) == SumFunctionOnSet(Lens(seqs), 1..i - 1)

LEMMA OffsetIs ==
  ASSUME NEW S, NEW seqs \in Seq(Seq(S))
  PROVE  /\ Offset(seqs, 1) = 0
         /\ \A i \in 1..Len(seqs) :
              /\ Offset(seqs, i) \in Nat /\ Len(seqs[i]) \in Nat
              /\ Offset(seqs, i + 1) = Offset(seqs, i) + Len(seqs[i])
<1> DEFINE n == Len(seqs)
           f == Lens(seqs)
<1>1. /\ n \in Nat /\ DOMAIN seqs = 1..n
      /\ \A i \in 1..n : seqs[i] \in Seq(S)
  OBVIOUS
<1>2. \A i \in 1..n : f[i] = Len(seqs[i]) /\ f[i] \in Nat
  BY <1>1 DEF Lens
<1> HIDE DEF f, n
<1>3. ASSUME NEW i \in 1..n
      PROVE  /\ SumFunctionOnSet(f, 1..i - 1) \in Nat
             /\ SumFunctionOnSet(f, 1..i) = f[i] + SumFunctionOnSet(f, 1..i - 1)
  <2>1. i - 1 \in Nat /\ (i - 1) + 1 = i /\ \A j \in 1..i : j \in 1..n
    BY <1>1
  <2>2. \A j \in 1..i : f[j] \in Nat
    BY <1>2, <2>1
  <2>3. SumFunctionOnSet(f, 1..i) = f[i] + SumFunctionOnSet(f, 1..i - 1)
    <3>1. \A j \in 1..((i - 1) + 1) : f[j] \in Int
      BY <2>1, <2>2
    <3>2. SumFunctionOnSet(f, 1..((i - 1) + 1)) = f[(i - 1) + 1] + SumFunctionOnSet(f, 1..(i - 1))
      BY <2>1, <3>1, SumUpTo
    <3> QED
      BY <2>1, <3>2
  <2>4. SumFunctionOnSet(f, 1..i - 1) \in Nat
    <3>1. IsFiniteSet(1..i) /\ 1..(i - 1) \in SUBSET (1..i)
      <4>1. 1 \in Int /\ i \in Int
        BY <2>1
      <4> QED
        BY <2>1, <4>1, FS_Interval
    <3> QED
      BY <2>2, <3>1, SumNat
  <2> QED
    BY <2>3, <2>4
<1>4. SumFunctionOnSet(f, 1..1 - 1) = 0
  <2>1. 1..1 - 1 = {}
    OBVIOUS
  <2> QED
    BY <2>1, SumEmpty
<1>5. \A i \in 1..n : Offset(seqs, i + 1) = SumFunctionOnSet(f, 1..i)
  <2> SUFFICES ASSUME NEW i \in 1..n PROVE Offset(seqs, i + 1) = SumFunctionOnSet(f, 1..i)
    OBVIOUS
  <2>1. (i + 1) - 1 = i
    BY <1>1
  <2> QED
    BY <2>1 DEF Offset, f
<1> QED
  <2>1. Offset(seqs, 1) = 0
    BY <1>4 DEF Offset, f
  <2>2. ASSUME NEW i \in 1..n
        PROVE  /\ Offset(seqs, i) \in Nat /\ Len(seqs[i]) \in Nat
               /\ Offset(seqs, i + 1) = Offset(seqs, i) + Len(seqs[i])
    <3>1. Offset(seqs, i) = SumFunctionOnSet(f, 1..i - 1)
      BY DEF Offset, f
    <3>2. /\ Offset(seqs, i) \in Nat /\ f[i] = Len(seqs[i]) /\ f[i] \in Nat
          /\ Offset(seqs, i + 1) = f[i] + Offset(seqs, i)
      BY <1>2, <1>3, <1>5, <3>1
    <3> QED
      BY <3>2
  <2> QED
    BY <2>1, <2>2 DEF n

LEMMA FlatIs ==
  ASSUME NEW S, NEW seqs \in Seq(Seq(S)), seqs # <<>>
  PROVE  /\ FlattenSeq(seqs) \in Seq(S)
         /\ \A j \in 1..Len(seqs) : \A m \in 1..Len(seqs[j]) :
              /\ Offset(seqs, j) + m \in 1..Len(FlattenSeq(seqs))
              /\ FlattenSeq(seqs)[Offset(seqs, j) + m] = seqs[j][m]
<1> DEFINE n == Len(seqs)
           g == CHOOSE g : IsFlat(seqs, n, g)
           Good(i) == /\ g[i] \in Seq(S) /\ Len(g[i]) = Offset(seqs, i + 1)
                      /\ \A j \in 1..i : \A m \in 1..Len(seqs[j]) :
                           /\ Offset(seqs, j) + m \in 1..Len(g[i])
                           /\ g[i][Offset(seqs, j) + m] = seqs[j][m]
           Bad == { i \in 1..n : ~Good(i) }
<1>1. /\ n \in Nat \ {0} /\ DOMAIN seqs = 1..n
      /\ \A i \in 1..n : seqs[i] \in Seq(S)
  OBVIOUS
<1>2. FlattenSeq(seqs) = g[n]
  BY <1>1 DEF FlattenSeq, IsFlat
<1>3. \A i \in 1..n : g[i] = IF i = 1 THEN seqs[i] ELSE g[i - 1] \o seqs[i]
  <2>1. IsFlat(seqs, n, g)
    BY <1>1, FlatExists
  <2> HIDE DEF g
  <2> QED
    BY <2>1 DEF IsFlat
<1>4. /\ Offset(seqs, 1) = 0
      /\ \A i \in 1..n : /\ Offset(seqs, i) \in Nat /\ Len(seqs[i]) \in Nat
                         /\ Offset(seqs, i + 1) = Offset(seqs, i) + Len(seqs[i])
  BY OffsetIs
<1> HIDE DEF g, n
<1>5. Bad = {}
  <2> SUFFICES ASSUME Bad # {} PROVE FALSE
    OBVIOUS
  <2>1. PICK i \in Bad : \A k \in Bad : i <= k
    <3>1. Bad \in SUBSET Nat
      BY <1>1
    <3> HIDE DEF Bad
    <3> QED
      BY <3>1, LeastNat
  <2>2. i \in 1..n /\ ~Good(i) /\ \A k \in 1..n : k < i => Good(k)
    BY <1>1, <2>1
  <2>3. CASE i = 1
    <3>1. g[1] = seqs[1] /\ g[1] \in Seq(S) /\ \A j \in 1..1 : j = 1
      BY <1>1, <1>3, <2>2, <2>3
    <3>2. Offset(seqs, 1 + 1) = Len(seqs[1]) /\ Len(seqs[1]) \in Nat
      BY <1>4, <2>2, <2>3
    <3>3. \A m \in 1..Len(seqs[1]) : Offset(seqs, 1) + m = m
      BY <1>4
    <3> QED
      BY <2>2, <2>3, <3>1, <3>2, <3>3
  <2>4. CASE i # 1
    <3> DEFINE p == i - 1
    <3>0. p \in 1..n /\ p < i /\ p + 1 = i
      BY <1>1, <2>2, <2>4
    <3>1. p \in 1..n /\ Good(p) /\ p + 1 = i
      <4> HIDE DEF Good, p
      <4> QED
        BY <2>2, <3>0
    <3>2. g[i] = g[p] \o seqs[i]
      BY <1>3, <2>2, <2>4
    <3> HIDE DEF p
    <3>3. /\ g[p] \in Seq(S) /\ seqs[i] \in Seq(S)
          /\ Len(g[p]) = Offset(seqs, i) /\ Offset(seqs, i) \in Nat /\ Len(seqs[i]) \in Nat
          /\ Offset(seqs, i + 1) = Offset(seqs, i) + Len(seqs[i])
      BY <1>1, <1>4, <2>2, <3>1
    <3>4. /\ g[p] \o seqs[i] \in Seq(S)
          /\ Len(g[p] \o seqs[i]) = Len(g[p]) + Len(seqs[i])
          /\ \A k \in 1..(Len(g[p]) + Len(seqs[i])) : (g[p] \o seqs[i])[k] =
               IF k <= Len(g[p]) THEN g[p][k] ELSE seqs[i][k - Len(g[p])]
      BY ONLY <3>3, ConcatProperties
    <3>5. /\ g[i] \in Seq(S) /\ Len(g[i]) = Offset(seqs, i) + Len(seqs[i])
          /\ \A k \in 1..(Offset(seqs, i) + Len(seqs[i])) : g[i][k] =
               IF k <= Offset(seqs, i) THEN g[p][k] ELSE seqs[i][k - Offset(seqs, i)]
      BY <3>2, <3>3, <3>4
    <3>6. ASSUME NEW j \in 1..i, NEW m \in 1..Len(seqs[j])
          PROVE  /\ Offset(seqs, j) + m \in 1..Len(g[i])
                 /\ g[i][Offset(seqs, j) + m] = seqs[j][m]
      <4>1. CASE j = i
        <5> DEFINE a == Offset(seqs, i)
                   l == Len(seqs[i])
        <5>1. a \in Nat /\ l \in Nat /\ m \in 1..l
          BY <3>3, <4>1
        <5> HIDE DEF a, l
        <5>2. a + m \in 1..(a + l) /\ ~(a + m <= a) /\ (a + m) - a = m
          BY <5>1
        <5> QED
          BY <3>5, <4>1, <5>2 DEF a, l
      <4>2. CASE j # i
        <5>1. j \in 1..p
          BY <1>1, <2>2, <3>1, <4>2
        <5>2. Offset(seqs, j) + m \in 1..Len(g[p]) /\ g[p][Offset(seqs, j) + m] = seqs[j][m]
          BY <3>1, <5>1
        <5>3. /\ Offset(seqs, j) + m \in 1..(Offset(seqs, i) + Len(seqs[i]))
              /\ Offset(seqs, j) + m <= Offset(seqs, i)
          BY <3>3, <5>2
        <5> QED
          BY <3>5, <5>2, <5>3
      <4> QED
        BY <4>1, <4>2
    <3>7. Good(i)
      BY <3>3, <3>5, <3>6
    <3> QED
      BY <2>2, <3>7
  <2> QED
    BY <2>3, <2>4
<1>6. Good(n)
  <2>1. n \in 1..n
    BY <1>1
  <2> HIDE DEF Good
  <2> QED
    BY <1>5, <2>1
<1> QED
  BY <1>2, <1>6 DEF n

\* The objects a memo lacks: those, and no others.
LEMMA LackingIs ==
  ASSUME NEW r \in Reader, NEW known
  PROVE  /\ Lacking(r, known) \in Seq(Object)
         /\ ToSet(Lacking(r, known)) = { o \in ToSet(Wanted[r]) : known[o] = NoReader }
<1> DEFINE n == Len(Wanted[r])
           I == { i \in DOMAIN Wanted[r] : known[Wanted[r][i]] = NoReader }
           C(m) == Cardinality(I \cap 1..m)
           Nth(k) == CHOOSE i \in I : C(i) = k
           N == Cardinality(I)
<1>1. n \in Nat /\ DOMAIN Wanted[r] = 1..n
  BY BatchAssumption
<1>2. \A i \in 1..n : Wanted[r][i] \in ToSet(Wanted[r]) /\ Wanted[r][i] \in Object
  BY <1>1 DEF Object, ToSet
<1>3. Lacking(r, known) = [k \in 1..N |-> Wanted[r][Nth(k)]]
  BY DEF Lacking
<1>4. IsFiniteSet(I) /\ I \subseteq 1..n /\ N \in Nat
  <2>1. 1 \in Int /\ n \in Int
    BY <1>1
  <2>2. IsFiniteSet(1..n) /\ I \in SUBSET (1..n)
    BY <1>1, <2>1, FS_Interval
  <2> HIDE DEF n, I
  <2> QED
    BY <2>2, FS_Subset, FS_CardinalityType
<1>5. I = { i \in 1..n : known[Wanted[r][i]] = NoReader }
  BY <1>1
<1> HIDE DEF n, I
<1>6. ASSUME NEW m \in Nat
      PROVE  IsFiniteSet(I \cap 1..m) /\ C(m) \in Nat
  <2>1. I \cap 1..m \in SUBSET I
    OBVIOUS
  <2> QED
    BY <1>4, <2>1, FS_Subset, FS_CardinalityType
<1>7. ASSUME NEW m \in Nat
      PROVE  C(m + 1) = IF m + 1 \in I THEN C(m) + 1 ELSE C(m)
  <2>1. m + 1 \notin I \cap 1..m
    OBVIOUS
  <2>2. CASE m + 1 \in I
    <3>1. I \cap 1..(m + 1) = (I \cap 1..m) \cup {m + 1}
      BY <2>2
    <3> QED
      BY <1>6, <2>1, <2>2, <3>1, FS_AddElement
  <2>3. CASE m + 1 \notin I
    <3>1. I \cap 1..(m + 1) = I \cap 1..m
      BY <2>3
    <3> QED
      BY <2>3, <3>1
  <2> QED
    BY <2>2, <2>3
<1>8. C(0) = 0 /\ C(n) = N
  <2>1. I \cap 1..0 = {}
    OBVIOUS
  <2>2. I \cap 1..n = I
    BY <1>4
  <2> QED
    BY <2>1, <2>2, FS_EmptySet
\* The k-th is one of them,
<1>9. ASSUME NEW k \in 1..N
      PROVE  \E i \in I : C(i) = k
  <2> DEFINE M == { m \in Nat : C(m) >= k }
  <2>1. n \in M
    BY <1>1, <1>4, <1>8
  <2>2. PICK m \in M : \A j \in M : m <= j
    <3>1. M \in SUBSET Nat /\ M # {}
      BY <2>1
    <3> HIDE DEF M
    <3> QED
      BY <3>1, LeastNat
  <2>3. m # 0
    BY <1>4, <1>8, <2>2
  <2> DEFINE l == m - 1
  <2>4. l \in Nat /\ l + 1 = m /\ l \notin M
    BY <2>2, <2>3
  <2>5. C(l) \in Nat /\ ~(C(l) >= k) /\ C(l + 1) >= k
    BY <1>6, <2>2, <2>4
  <2>6. C(l + 1) = IF l + 1 \in I THEN C(l) + 1 ELSE C(l)
    BY <1>7, <2>4
  <2> HIDE DEF C, l
  <2>7. l + 1 \in I /\ C(l + 1) = k
    BY <1>4, <2>5, <2>6
  <2> QED
    BY <2>7
\* and each of them is the k-th for one k.
<1>10. ASSUME NEW i \in I, NEW j \in I, i < j
       PROVE  C(i) < C(j)
  <2>1. i \in Nat /\ j \in Nat
    BY <1>1, <1>4
  <2>2. I \cap 1..i \in SUBSET (I \cap 1..j) /\ j \in I \cap 1..j /\ j \notin I \cap 1..i
    BY <1>4, <1>10, <2>1
  <2>3. I \cap 1..i # I \cap 1..j
    BY <2>2
  <2>4. C(i) <= C(j) /\ C(i) # C(j)
    BY <1>6, <2>1, <2>2, <2>3, FS_Subset
  <2>5. C(i) \in Nat /\ C(j) \in Nat
    BY <1>6, <2>1
  <2> QED
    BY <2>4, <2>5
<1>11. ASSUME NEW i \in I
       PROVE  C(i) \in 1..N
  <2>1. i \in Nat /\ i # 0 /\ i \in I \cap 1..i
    BY <1>1, <1>4
  <2>2. I \cap 1..i \in SUBSET I /\ I \cap 1..i # {}
    BY <2>1
  <2>3. C(i) <= N /\ C(i) \in Nat /\ C(i) # 0
    BY <1>4, <1>6, <2>1, <2>2, FS_Subset, FS_EmptySet
  <2> HIDE DEF C, N
  <2> QED
    BY <1>4, <2>3
<1>12. \A k \in 1..N : Nth(k) \in I /\ C(Nth(k)) = k
  BY <1>9
<1>13. \A i \in I : Nth(C(i)) = i
  <2> SUFFICES ASSUME NEW i \in I PROVE Nth(C(i)) = i
    OBVIOUS
  <2> DEFINE j == Nth(C(i))
  <2>1. j \in I /\ C(j) = C(i)
    BY <1>11, <1>12
  <2> HIDE DEF j
  <2>2. i \in Nat /\ j \in Nat
    BY <1>1, <1>4, <2>1
  <2>5. C(i) \in Nat
    BY <1>6, <2>2
  <2> HIDE DEF C
  <2>3. ~(i < j) /\ ~(j < i)
    BY <1>10, <2>1, <2>5
  <2>4. i = j
    BY <2>2, <2>3
  <2> QED
    BY <2>4 DEF j
<1> HIDE DEF Nth, C, N
<1>14. Lacking(r, known) \in [1..N -> Object]
  BY <1>2, <1>3, <1>4, <1>12
<1>15. ToSet(Lacking(r, known)) = { Wanted[r][i] : i \in I }
  <2>1. ToSet(Lacking(r, known)) = { Wanted[r][Nth(k)] : k \in 1..N }
    BY <1>3 DEF ToSet
  <2>2. \A k \in 1..N : Nth(k) \in I
    BY <1>12
  <2>3. \A i \in I : C(i) \in 1..N /\ Nth(C(i)) = i
    BY <1>11, <1>13
  <2> QED
    BY <2>1, <2>2, <2>3
<1>16. { Wanted[r][i] : i \in I } = { o \in ToSet(Wanted[r]) : known[o] = NoReader }
  BY <1>1, <1>5 DEF ToSet
<1> QED
  BY <1>4, <1>14, <1>15, <1>16

LEMMA EntryTyped ==
  ASSUME NEW e \in Entry
  PROVE  e.reader \in Reader /\ e.keys \in Seq(Object) /\ Len(e.keys) \in Nat
<1>1. PICK r \in Reader, known \in [Object -> Reader \cup {NoReader}] : e.keys = Lacking(r, known)
  BY DEF Entry, KeySeqs
<1>2. e.keys \in Seq(Object)
  BY <1>1, LackingIs
<1> QED
  BY <1>2 DEF Entry

\* The answer is cut where the keys were joined.
LEMMA SliceIs ==
  ASSUME NEW b, b.entries \in Seq(Entry), NEW i \in DOMAIN b.entries,
         NEW got, got = [k \in DOMAIN AllKeys(b) |-> AtCheckpoint(b.net, AllKeys(b)[k])]
  PROVE  LET keys == b.entries[i].keys
         IN /\ DOMAIN Slice(b, i, got) = DOMAIN keys
            /\ \A m \in DOMAIN keys : Slice(b, i, got)[m] = AtCheckpoint(b.net, keys[m])
<1> DEFINE n == Len(b.entries)
           seqs == [j \in DOMAIN b.entries |-> b.entries[j].keys]
           keys == b.entries[i].keys
           l == Len(keys)
           a == Offset(seqs, i)
           flat == AllKeys(b)
           part == SubSeq(got, a + 1, a + l)
<1>1. /\ n \in Nat /\ DOMAIN b.entries = 1..n
      /\ \A j \in 1..n : b.entries[j].keys \in Seq(Object)
  BY EntryTyped
<1>2. seqs \in Seq(Seq(Object)) /\ Len(seqs) = n /\ DOMAIN seqs = 1..n /\ seqs # <<>>
  <2>1. seqs \in [1..n -> Seq(Object)]
    BY <1>1
  <2>2. i \in 1..n
    BY <1>1
  <2> HIDE DEF n, seqs
  <2> QED
    BY <1>1, <2>1, <2>2
<1>3. seqs[i] = keys /\ i \in 1..n /\ keys \in Seq(Object) /\ l \in Nat /\ DOMAIN keys = 1..l
  BY <1>1
<1>4. flat = FlattenSeq(seqs)
  BY DEF AllKeys
<1>5. Slice(b, i, got) = part
  <2>1. Lens(seqs) = [j \in DOMAIN b.entries |-> Len(b.entries[j].keys)]
    BY DEF Lens
  <2> HIDE DEF seqs
  <2> QED
    BY <2>1 DEF Slice, Offset
<1> HIDE DEF seqs, keys, flat, n
<1>6. /\ flat \in Seq(Object)
      /\ \A m \in 1..l : a + m \in 1..Len(flat) /\ flat[a + m] = keys[m]
  BY <1>2, <1>3, <1>4, FlatIs
<1>7. DOMAIN flat = 1..Len(flat)
  BY <1>6
<1>8. \A m \in 1..l : got[a + m] = AtCheckpoint(b.net, keys[m])
  BY <1>6, <1>7 DEF flat
<1>9. a \in Nat
  BY <1>2, <1>3, OffsetIs
<1> HIDE DEF a, l
<1>10. /\ Len(part) = IF a + 1 <= a + l THEN (a + l) - (a + 1) + 1 ELSE 0
       /\ \A m \in 1..((a + l) - (a + 1) + 1) : part[m] = got[a + 1 + m - 1]
       /\ DOMAIN part = 1..Len(part)
  <2> DEFINE S == { got[k] : k \in (a + 1)..(a + l) }
  <2>1. a + 1 \in Int /\ a + l \in Int /\ \A k \in (a + 1)..(a + l) : got[k] \in S
    BY <1>3, <1>9
  <2> HIDE DEF S
  <2>2. /\ SubSeq(got, a + 1, a + l) \in Seq(S)
        /\ Len(SubSeq(got, a + 1, a + l)) = IF a + 1 <= a + l THEN (a + l) - (a + 1) + 1 ELSE 0
        /\ \A m \in 1..((a + l) - (a + 1) + 1) : SubSeq(got, a + 1, a + l)[m] = got[a + 1 + m - 1]
    BY ONLY <2>1, SubSeqProperties
  <2> QED
    BY <2>2
<1>11. Len(part) = l /\ \A m \in 1..l : part[m] = got[a + m]
  <2>1. (a + l) - (a + 1) + 1 = l /\ (~(a + 1 <= a + l) => l = 0)
    BY <1>3, <1>9
  <2>2. \A m \in 1..l : a + 1 + m - 1 = a + m
    BY <1>3, <1>9
  <2> HIDE DEF part
  <2> QED
    BY <1>10, <2>1, <2>2
<1> HIDE DEF part
<1> QED
  BY <1>3, <1>5, <1>8, <1>10, <1>11 DEF keys

\* What a reader's own read has of an object.
Value(read, r, o) ==
  IF o \notin Pruned THEN <<Net(r), o, "then">>
  ELSE IF read = "again" THEN NoValue ELSE <<Net(r), o, "now">>

LEMMA ReceivedIs ==
  ASSUME NEW read, DOMAIN read = Fields, read.own \in Seq(Object), NEW r,
         NEW answer, DOMAIN answer = DOMAIN read.own,
         \A m \in DOMAIN read.own : answer[m] = AtCheckpoint(Net(r), read.own[m]),
         NEW new, new = Received(read, answer)
  PROVE  \A m \in DOMAIN read.own :
           new.got[read.own[m]] = Value(new.read, r, read.own[m])
<1> SUFFICES ASSUME NEW m \in DOMAIN read.own
             PROVE  new.got[read.own[m]] = Value(new.read, r, read.own[m])
  OBVIOUS
<1> DEFINE o == read.own[m]
           k == CHOOSE i \in DOMAIN read.own : read.own[i] = o
<1>1. o \in Object /\ o \in ToSet(read.own)
  BY DEF ToSet
<1>2. k \in DOMAIN read.own /\ read.own[k] = o
  OBVIOUS
<1>3. answer[k] = AtCheckpoint(Net(r), o)
  BY <1>2
<1>4. new.got[o] = answer[k]
  BY <1>1 DEF Received, Fields
<1>5. new.read = IF NoValue \in ToSet(answer) THEN "again" ELSE "read"
  BY DEF Received, Fields
<1>6. answer[k] \in ToSet(answer)
  BY <1>2 DEF ToSet
<1> HIDE DEF o, k
<1>7. new.got[o] = Value(new.read, r, o)
  BY <1>3, <1>4, <1>5, <1>6 DEF Value, AtCheckpoint
<1> QED
  BY <1>7 DEF o

\* An entry on its way: its reader waits for exactly these keys.
Asked(rs, e) == rs[e.reader].read = "asked" /\ e.keys = rs[e.reader].own

\* A reader waits in one place.
OnePlace ==
  /\ \A i \in DOMAIN pending : Asked(reads, pending[i])
  /\ \A i, j \in DOMAIN pending : pending[i].reader = pending[j].reader => i = j
  /\ \A b \in batches : \A i \in DOMAIN b.entries :
       /\ Asked(reads, b.entries[i])
       /\ \A j \in DOMAIN b.entries : b.entries[i].reader = b.entries[j].reader => i = j
       /\ \A j \in DOMAIN pending : b.entries[i].reader # pending[j].reader
       /\ \A c \in batches : \A j \in DOMAIN c.entries :
            b.entries[i].reader = c.entries[j].reader => b = c

\* The memo, and what a reader awaits, lead to reads of the same call that have
\* the object.
MemoLeads ==
  /\ \A c \in MemoCall, o \in Object : memo[c][o] # NoReader =>
       CallOf[memo[c][o]] = c /\ o \in ToSet(reads[memo[c][o]].own)
  /\ \A r \in Reader : reads[r].reader # "idle" =>
       /\ DOMAIN reads[r].from = DOMAIN Wanted[r]
       /\ \A i \in DOMAIN Wanted[r] :
            /\ CallOf[reads[r].from[i]] = CallOf[r]
            /\ Wanted[r][i] \in ToSet(reads[reads[r].from[i]].own)

\* A reader that has not begun has nothing, one that answered has read all.
Progress ==
  /\ \A r \in Reader : reads[r].own \in Seq(Object)
  /\ \A r \in Reader : reads[r].reader = "idle" => reads[r].own = <<>> /\ reads[r].read = "none"
  /\ \A r \in Reader : reads[r].reader = "answered" =>
       \A i \in DOMAIN reads[r].from : reads[reads[r].from[i]].read = "read"

\* What is read is a reader's own, unless a request served two networks.
Truly(rs, r) ==
  rs[r].read \in {"again", "read"} =>
    \A m \in DOMAIN rs[r].own : rs[r].got[rs[r].own[m]] = Value(rs[r].read, r, rs[r].own[m])
Gotten ==
  ~mixed =>
    /\ \A b \in batches : \A i \in DOMAIN b.entries : Net(b.entries[i].reader) = b.net
    /\ \A r \in Reader : Truly(reads, r)

OwnInv == OnePlace /\ MemoLeads /\ Progress /\ Gotten

\* Steps that send nothing.
LEMMA PlacesOn ==
  ASSUME OnePlace, Batched, pending' = pending, batches' \subseteq batches,
         \A r \in Reader :
           \/ reads'[r].read = reads[r].read /\ reads'[r].own = reads[r].own
           \/ /\ \A i \in DOMAIN pending : pending[i].reader # r
              /\ \A b \in batches' : \A i \in DOMAIN b.entries : b.entries[i].reader # r
  PROVE  OnePlace'
<1>1. \A i \in DOMAIN pending : pending[i].reader \in Reader
  <2>1. \A i \in DOMAIN pending : pending[i] \in Entry
    BY DEF Batched
  <2> QED
    BY <2>1 DEF Entry
<1>2. \A b \in batches : \A i \in DOMAIN b.entries : b.entries[i].reader \in Reader
  <2>1. \A b \in batches : \A i \in DOMAIN b.entries : b.entries[i] \in Entry
    BY DEF Batched
  <2> QED
    BY <2>1 DEF Entry
<1>3. \A i \in DOMAIN pending : Asked(reads', pending[i])
  BY <1>1 DEF OnePlace, Asked
<1>4. \A b \in batches' : \A i \in DOMAIN b.entries : Asked(reads', b.entries[i])
  BY <1>2 DEF OnePlace, Asked
<1> QED
  BY <1>3, <1>4 DEF OnePlace

\* Steps that begin no reader.
LEMMA LeadsOn ==
  ASSUME Answerable, MemoLeads,
         \A r \in Reader :
           /\ reads'[r].own = reads[r].own /\ reads'[r].from = reads[r].from
           /\ reads'[r].reader # "idle" => reads[r].reader # "idle",
         \A c \in MemoCall, o \in Object : memo'[c][o] \in {memo[c][o], NoReader}
  PROVE  MemoLeads'
<1>1. \A c \in MemoCall, o \in Object : memo'[c][o] # NoReader =>
        CallOf[memo'[c][o]] = c /\ o \in ToSet(reads'[memo'[c][o]].own)
  BY DEF Answerable, MemoLeads
<1>2. ASSUME NEW r \in Reader, reads'[r].reader # "idle"
      PROVE  /\ DOMAIN reads'[r].from = DOMAIN Wanted[r]
             /\ \A i \in DOMAIN Wanted[r] :
                  /\ CallOf[reads'[r].from[i]] = CallOf[r]
                  /\ Wanted[r][i] \in ToSet(reads'[reads'[r].from[i]].own)
  <2>1. reads'[r].from = reads[r].from /\ reads[r].reader # "idle"
    BY <1>2
  <2>2. \A i \in DOMAIN Wanted[r] : reads[r].from[i] \in Reader
    BY <2>1 DEF Answerable, MemoLeads
  <2> QED
    BY <2>1, <2>2 DEF MemoLeads
<1> QED
  BY <1>1, <1>2 DEF MemoLeads

LEMMA ProgressOn ==
  ASSUME Answerable, Progress,
         \A r \in Reader :
           /\ reads'[r].own = reads[r].own /\ reads'[r].from = reads[r].from
           /\ reads[r].read = "read" => reads'[r].read = "read"
           /\ reads'[r].reader = "idle" => reads[r].reader = "idle" /\ reads'[r].read = reads[r].read
           /\ reads'[r].reader = "answered" =>
                /\ reads[r].reader # "idle"
                /\ \A i \in DOMAIN reads[r].from : reads[reads[r].from[i]].read = "read"
  PROVE  Progress'
<1>1. ASSUME NEW r \in Reader, reads'[r].reader = "answered"
      PROVE  \A i \in DOMAIN reads'[r].from : reads'[reads'[r].from[i]].read = "read"
  <2>1. \A i \in DOMAIN reads[r].from : reads[r].from[i] \in Reader
    BY <1>1 DEF Answerable
  <2> QED
    BY <1>1, <2>1
<1> QED
  BY <1>1 DEF Progress

\* A step that changes one read's outcome and nothing else of it.
Ends(r, read) ==
  /\ reads'[r].read = read
  /\ reads'[r].own = reads[r].own /\ reads'[r].from = reads[r].from
  /\ reads'[r].reader = reads[r].reader
  /\ \A q \in Reader : q # r => reads'[q] = reads[q]

LEMMA RefusedEnds ==
  ASSUME Answerable, NEW r \in Reader, Refused(r)
  PROVE  /\ Ends(r, "failed")
         /\ \A c \in MemoCall, o \in Object : memo'[c][o] \in {memo[c][o], NoReader}
BY DEF Refused, Forgotten, Answerable, Ends, Fields

LEMMA EndsInv ==
  ASSUME Answerable, Batched, OwnInv, NEW r \in Reader, NEW read, Ends(r, read),
         reads[r].read \in {"asked", "again"},
         pending' = pending, batches' \subseteq batches, mixed' = mixed,
         \A c \in MemoCall, o \in Object : memo'[c][o] \in {memo[c][o], NoReader},
         \A b \in batches' : \A i \in DOMAIN b.entries : b.entries[i].reader # r,
         \A i \in DOMAIN pending : pending[i].reader # r,
         ~mixed => Truly(reads', r)
  PROVE  OwnInv'
<1>1. OnePlace'
  BY PlacesOn DEF OwnInv, Ends
<1>2. MemoLeads'
  BY LeadsOn DEF OwnInv, Ends
<1>3. Progress'
  <2>1. \A q \in Reader :
           /\ reads'[q].own = reads[q].own /\ reads'[q].from = reads[q].from
           /\ reads[q].read = "read" => reads'[q].read = "read"
           /\ reads'[q].reader = reads[q].reader
           /\ reads'[q].reader = "idle" => reads'[q].read = reads[q].read
    BY DEF Ends, OwnInv, Progress
  <2> QED
    BY <2>1, ProgressOn DEF OwnInv, Progress
<1>4. Gotten'
  BY DEF OwnInv, Gotten, Ends, Truly
<1> QED
  BY <1>1, <1>2, <1>3, <1>4 DEF OwnInv

LEMMA AskOwn ==
  ASSUME Answerable, Batched, OwnInv, NEW r \in Reader, AskObjects(r)
  PROVE  OwnInv'
<1> DEFINE known == memo[CallOf[r]]
           own == Lacking(r, known)
           source == [o \in Object |->
                        IF o \in ToSet(Wanted[r]) /\ known[o] = NoReader THEN r ELSE known[o]]
           from == [i \in DOMAIN Wanted[r] |-> source[Wanted[r][i]]]
           new == [reader |-> r, keys |-> own]
<1>1. /\ memo' = [memo EXCEPT ![CallOf[r]] = source]
      /\ pending' = IF own = <<>> THEN pending ELSE Append(pending, new)
      /\ reads' = [reads EXCEPT ![r].reader = "waiting",
                                ![r].read = IF own = <<>> THEN "none" ELSE "asked",
                                ![r].own = own, ![r].from = from]
      /\ reads[r].reader = "idle" /\ batches' = batches /\ mixed' = mixed
  BY DEF AskObjects
<1>2. CallOf[r] \in MemoCall /\ \A i \in DOMAIN Wanted[r] : Wanted[r][i] \in ToSet(Wanted[r])
      /\ ToSet(Wanted[r]) \subseteq Object
  BY DEF MemoCall, Object, ToSet
<1>3. own \in Seq(Object) /\ ToSet(own) = { o \in ToSet(Wanted[r]) : known[o] = NoReader }
  BY LackingIs
<1>4. reads[r].own = <<>> /\ reads[r].read = "none"
  BY <1>1 DEF OwnInv, Progress
<1>5. known \in [Object -> Reader \cup {NoReader}]
  BY <1>2 DEF Answerable
<1> HIDE DEF own
<1>6. /\ reads'[r].reader = "waiting" /\ reads'[r].own = own /\ reads'[r].from = from
      /\ reads'[r].read = IF own = <<>> THEN "none" ELSE "asked"
      /\ \A q \in Reader : q # r => reads'[q] = reads[q]
  BY <1>1 DEF Answerable, Fields
<1>7. /\ memo'[CallOf[r]] = source
      /\ \A c \in MemoCall : c # CallOf[r] => memo'[c] = memo[c]
  BY <1>1, <1>2 DEF Answerable
<1>8. \A i \in DOMAIN pending : pending[i] \in Entry /\ pending[i].reader \in Reader /\ pending[i].reader # r
  <2>1. \A i \in DOMAIN pending : pending[i] \in Entry
    BY DEF Batched
  <2> QED
    BY <1>4, <2>1 DEF Entry, OwnInv, OnePlace, Asked
<1>9. \A b \in batches : \A i \in DOMAIN b.entries :
        b.entries[i].reader \in Reader /\ b.entries[i].reader # r
  <2>1. \A b \in batches : \A i \in DOMAIN b.entries : b.entries[i] \in Entry
    BY DEF Batched
  <2> QED
    BY <1>4, <2>1 DEF Entry, OwnInv, OnePlace, Asked
\* The reader's own part of the memo, and the rest of it.
<1>10. \A o \in Object :
         IF o \in ToSet(own) THEN source[o] = r
         ELSE source[o] = known[o] /\ (o \in ToSet(Wanted[r]) => source[o] # NoReader)
  BY <1>3
<1> HIDE DEF source
<1>11. ASSUME NEW c \in MemoCall, NEW o \in Object, memo[c][o] # NoReader
       PROVE  /\ memo[c][o] \in Reader /\ memo[c][o] # r
              /\ CallOf[memo[c][o]] = c /\ o \in ToSet(reads'[memo[c][o]].own)
  <2>1. memo[c][o] \in Reader
    BY <1>11 DEF Answerable
  <2>2. CallOf[memo[c][o]] = c /\ o \in ToSet(reads[memo[c][o]].own)
    BY <1>11 DEF OwnInv, MemoLeads
  <2>3. memo[c][o] # r
    <3>1. ToSet(<<>>) = {}
      BY DEF ToSet
    <3> QED
      BY <1>4, <2>2, <3>1
  <2> QED
    BY <1>6, <2>1, <2>2, <2>3
<1>12. OnePlace'
  <2>1. CASE own = <<>>
    <3>1. pending' = pending
      BY <1>1, <2>1
    <3>2. \A q \in Reader :
            \/ reads'[q].read = reads[q].read /\ reads'[q].own = reads[q].own
            \/ /\ \A i \in DOMAIN pending : pending[i].reader # q
               /\ \A b \in batches' : \A i \in DOMAIN b.entries : b.entries[i].reader # q
      BY <1>1, <1>4, <1>6, <1>8, <1>9, <2>1
    <3> QED
      BY <1>1, <3>1, <3>2, PlacesOn DEF OwnInv
  <2>2. CASE own # <<>>
    <3> DEFINE n == Len(pending)
    <3>1. n \in Nat /\ DOMAIN pending = 1..n
      BY DEF Batched
    <3>2. /\ DOMAIN pending' = 1..(n + 1) /\ pending'[n + 1] = new
          /\ \A i \in 1..n : pending'[i] = pending[i]
      BY <1>1, <2>2, <3>1 DEF Batched
    <3>3. Asked(reads', new)
      BY <1>6, <2>2 DEF Asked
    <3> HIDE DEF n, new
    <3>4. \A i \in 1..(n + 1) : i \in 1..n \/ i = n + 1
      BY <3>1
    <3>5. \A i \in 1..n : Asked(reads', pending'[i])
      BY <1>6, <1>8, <3>1, <3>2 DEF OwnInv, OnePlace, Asked
    <3>6. \A i \in DOMAIN pending' : Asked(reads', pending'[i])
      BY <3>2, <3>3, <3>4, <3>5
    <3>7. new.reader = r
      BY DEF new
    <3>8. \A i, j \in DOMAIN pending' : pending'[i].reader = pending'[j].reader => i = j
      BY <1>8, <3>1, <3>2, <3>4, <3>7 DEF OwnInv, OnePlace
    <3>9. \A b \in batches : \A i \in DOMAIN b.entries :
            /\ Asked(reads', b.entries[i])
            /\ \A j \in DOMAIN pending' : b.entries[i].reader # pending'[j].reader
      BY <1>6, <1>9, <3>1, <3>2, <3>4, <3>7 DEF OwnInv, OnePlace, Asked
    <3> QED
      BY <1>1, <3>6, <3>8, <3>9 DEF OwnInv, OnePlace
  <2> QED
    BY <2>1, <2>2
<1>13. MemoLeads'
  <2>1. ASSUME NEW c \in MemoCall, NEW o \in Object, memo'[c][o] # NoReader
        PROVE  CallOf[memo'[c][o]] = c /\ o \in ToSet(reads'[memo'[c][o]].own)
    <3>1. CASE c = CallOf[r] /\ o \in ToSet(own)
      BY <1>6, <1>7, <1>10, <3>1
    <3>2. CASE ~(c = CallOf[r] /\ o \in ToSet(own))
      <4>1. memo'[c][o] = memo[c][o]
        BY <1>7, <1>10, <3>2
      <4> QED
        BY <1>11, <2>1, <4>1
    <3> QED
      BY <3>1, <3>2
  <2>2. ASSUME NEW q \in Reader, reads'[q].reader # "idle"
        PROVE  /\ DOMAIN reads'[q].from = DOMAIN Wanted[q]
               /\ \A i \in DOMAIN Wanted[q] :
                    /\ CallOf[reads'[q].from[i]] = CallOf[q]
                    /\ Wanted[q][i] \in ToSet(reads'[reads'[q].from[i]].own)
    <3>1. CASE q = r
      <4>1. ASSUME NEW i \in DOMAIN Wanted[r]
            PROVE  CallOf[from[i]] = CallOf[r] /\ Wanted[r][i] \in ToSet(reads'[from[i]].own)
        <5> DEFINE o == Wanted[r][i]
        <5>1. from[i] = source[o] /\ o \in Object /\ o \in ToSet(Wanted[r])
          BY <1>2
        <5> HIDE DEF o
        <5>2. CASE o \in ToSet(own)
          BY <1>6, <1>10, <5>1, <5>2 DEF o
        <5>3. CASE o \notin ToSet(own)
          <6>1. from[i] = memo[CallOf[r]][o] /\ memo[CallOf[r]][o] # NoReader
            BY <1>10, <5>1, <5>3
          <6> QED
            BY <1>2, <1>11, <5>1, <6>1 DEF o
        <5> QED
          BY <5>2, <5>3
      <4> QED
        BY <1>6, <3>1, <4>1
    <3>2. CASE q # r
      <4>1. reads'[q] = reads[q] /\ reads[q].reader # "idle"
        BY <1>6, <2>2, <3>2
      <4>2. ASSUME NEW i \in DOMAIN Wanted[q]
            PROVE  reads[q].from[i] \in Reader /\ reads[q].from[i] # r
        <5>1. reads[q].from[i] \in Reader /\ Wanted[q][i] \in ToSet(reads[reads[q].from[i]].own)
          BY <4>1 DEF Answerable, OwnInv, MemoLeads
        <5>2. ToSet(<<>>) = {}
          BY DEF ToSet
        <5> QED
          BY <1>4, <5>1, <5>2
      <4> QED
        BY <1>6, <4>1, <4>2 DEF OwnInv, MemoLeads
    <3> QED
      BY <3>1, <3>2
  <2> QED
    BY <2>1, <2>2 DEF MemoLeads
<1>14. Progress'
  <2>1. ASSUME NEW q \in Reader, reads'[q].reader = "answered"
        PROVE  \A i \in DOMAIN reads'[q].from : reads'[reads'[q].from[i]].read = "read"
    <3>1. q # r /\ reads'[q] = reads[q]
      BY <1>6, <2>1
    <3>2. \A i \in DOMAIN reads[q].from :
            reads[q].from[i] \in Reader /\ reads[reads[q].from[i]].read = "read"
      BY <2>1, <3>1 DEF Answerable, OwnInv, Progress
    <3> QED
      BY <1>4, <1>6, <3>1, <3>2
  <2>2. \A q \in Reader : reads'[q].own \in Seq(Object)
    BY <1>3, <1>6 DEF OwnInv, Progress
  <2>3. \A q \in Reader : reads'[q].reader = "idle" => reads'[q].own = <<>> /\ reads'[q].read = "none"
    BY <1>6 DEF OwnInv, Progress
  <2> QED
    BY <2>1, <2>2, <2>3 DEF Progress
<1>15. Gotten'
  <2>1. reads'[r].read \notin {"again", "read"}
    BY <1>6
  <2>2. ASSUME NEW q \in Reader, ~mixed PROVE Truly(reads', q)
    <3>1. CASE q = r
      BY <2>1, <3>1 DEF Truly
    <3>2. CASE q # r
      <4>1. Truly(reads, q)
        BY <2>2 DEF OwnInv, Gotten
      <4> QED
        BY <1>6, <3>2, <4>1 DEF Truly
    <3> QED
      BY <3>1, <3>2
  <2> QED
    BY <1>1, <2>2 DEF OwnInv, Gotten
<1> QED
  BY <1>12, <1>13, <1>14, <1>15 DEF OwnInv

LEMMA SentOwn ==
  ASSUME Answerable, Batched, OwnInv, UNCHANGED <<memo, reads>>, OnePlace',
         ~mixed' => ~mixed /\ \A b \in batches' : \A i \in DOMAIN b.entries :
                                Net(b.entries[i].reader) = b.net
  PROVE  OwnInv'
BY DEF OwnInv, MemoLeads, Progress, Gotten

LEMMA DrainOwn ==
  ASSUME Answerable, Batched, OwnInv, Drain
  PROVE  OwnInv'
<1> DEFINE new == [net |-> Net(pending[1].reader), entries |-> pending, alone |-> FALSE]
<1>1. /\ pending' = <<>> /\ batches' = batches \cup {new} /\ UNCHANGED <<memo, reads>>
      /\ mixed' = (mixed \/ \E i \in DOMAIN pending : Net(pending[i].reader) # Net(pending[1].reader))
  BY DEF Drain
<1>2. new.entries = pending /\ new.net = Net(pending[1].reader)
  OBVIOUS
<1> HIDE DEF new
<1>3. OnePlace'
  <2>1. DOMAIN pending' = {}
    BY <1>1
  <2> QED
    BY <1>1, <1>2, <2>1 DEF OwnInv, OnePlace
<1>4. ~mixed' => ~mixed /\ \A b \in batches' : \A i \in DOMAIN b.entries :
                             Net(b.entries[i].reader) = b.net
  BY <1>1, <1>2 DEF OwnInv, Gotten
<1> QED
  BY <1>1, <1>3, <1>4, SentOwn

LEMMA SplitOwn ==
  ASSUME Answerable, Batched, OwnInv, NEW b \in batches, BatchFails(b)
  PROVE  OwnInv'
<1> DEFINE piece(i) == [net |-> b.net, entries |-> <<b.entries[i]>>, alone |-> TRUE]
<1>1. /\ pending' = pending /\ UNCHANGED <<memo, reads, mixed>>
      /\ batches' = (batches \ {b}) \cup { piece(i) : i \in DOMAIN b.entries }
  BY DEF BatchFails
<1>2. \A i : /\ piece(i).net = b.net /\ DOMAIN piece(i).entries = {1}
             /\ piece(i).entries[1] = b.entries[i]
  OBVIOUS
<1> HIDE DEF piece
<1>3. OnePlace'
  <2>1. \A c \in batches' : \A i \in DOMAIN c.entries :
          /\ Asked(reads, c.entries[i])
          /\ \A j \in DOMAIN c.entries : c.entries[i].reader = c.entries[j].reader => i = j
          /\ \A j \in DOMAIN pending : c.entries[i].reader # pending[j].reader
    BY <1>1, <1>2 DEF OwnInv, OnePlace
  <2>2. ASSUME NEW c \in batches', NEW i \in DOMAIN c.entries,
               NEW d \in batches', NEW j \in DOMAIN d.entries, c.entries[i].reader = d.entries[j].reader
        PROVE  c = d
    <3>1. CASE c \in batches \ {b} /\ d \in batches \ {b}
      BY <2>2, <3>1 DEF OwnInv, OnePlace
    <3>2. CASE \E k \in DOMAIN b.entries : c = piece(k)
      BY <1>1, <1>2, <2>2, <3>2 DEF OwnInv, OnePlace
    <3>3. CASE \E k \in DOMAIN b.entries : d = piece(k)
      BY <1>1, <1>2, <2>2, <3>3 DEF OwnInv, OnePlace
    <3> QED
      BY <1>1, <3>1, <3>2, <3>3
  <2> QED
    BY <1>1, <2>1, <2>2 DEF OwnInv, OnePlace
<1>4. ~mixed' => ~mixed /\ \A c \in batches' : \A i \in DOMAIN c.entries :
                             Net(c.entries[i].reader) = c.net
  BY <1>1, <1>2 DEF OwnInv, Gotten
<1> QED
  BY <1>1, <1>3, <1>4, SentOwn

LEMMA AnswersOwn ==
  ASSUME Answerable, Batched, OwnInv, NEW b \in batches, BatchAnswers(b)
  PROVE  OwnInv'
<1> DEFINE keys == AllKeys(b)
           got == [k \in DOMAIN keys |-> AtCheckpoint(b.net, keys[k])]
           part(r) == Slice(b, EntryOf(b, r), got)
<1>1. /\ batches' = batches \ {b} /\ UNCHANGED <<memo, pending, mixed>>
      /\ \A r \in Reader : reads'[r] = IF InBatch(b, r) THEN Received(reads[r], part(r)) ELSE reads[r]
  BY DEF BatchAnswers
<1>2. b.entries \in Seq(Entry)
  BY DEF Batched
<1>3. ASSUME NEW r \in Reader, InBatch(b, r)
      PROVE  /\ EntryOf(b, r) \in DOMAIN b.entries /\ b.entries[EntryOf(b, r)].reader = r
             /\ b.entries[EntryOf(b, r)].keys = reads[r].own /\ reads[r].read = "asked"
  <2>1. EntryOf(b, r) \in DOMAIN b.entries /\ b.entries[EntryOf(b, r)].reader = r
    BY <1>3 DEF InBatch, EntryOf
  <2> QED
    BY <2>1 DEF OwnInv, OnePlace, Asked
<1>4. ASSUME NEW r \in Reader, InBatch(b, r)
      PROVE  /\ DOMAIN part(r) = DOMAIN reads[r].own
             /\ \A m \in DOMAIN reads[r].own : part(r)[m] = AtCheckpoint(b.net, reads[r].own[m])
  <2>1. EntryOf(b, r) \in DOMAIN b.entries
    BY <1>3, <1>4
  <2>2. got = [k \in DOMAIN AllKeys(b) |-> AtCheckpoint(b.net, AllKeys(b)[k])]
    OBVIOUS
  <2> HIDE DEF got, keys
  <2> QED
    BY <1>2, <1>3, <1>4, <2>1, <2>2, SliceIs
<1> HIDE DEF got, part
<1>5. ASSUME NEW r \in Reader
      PROVE  /\ reads'[r].own = reads[r].own /\ reads'[r].from = reads[r].from
             /\ reads'[r].reader = reads[r].reader
             /\ ~InBatch(b, r) => reads'[r] = reads[r]
  <2>1. DOMAIN reads[r] = Fields
    BY DEF Answerable
  <2> QED
    BY <1>1, <2>1 DEF Received, Fields
<1>6. OnePlace'
  <2>1. ASSUME NEW r \in Reader, InBatch(b, r)
        PROVE  /\ \A i \in DOMAIN pending : pending[i].reader # r
               /\ \A c \in batches' : \A i \in DOMAIN c.entries : c.entries[i].reader # r
    BY <1>1, <1>3, <2>1 DEF OwnInv, OnePlace
  <2> QED
    BY <1>1, <1>5, <2>1, PlacesOn DEF OwnInv
<1>7. MemoLeads'
  BY <1>1, <1>5, LeadsOn DEF OwnInv
<1>8. Progress'
  <2>1. \A r \in Reader :
          /\ reads[r].read = "read" => reads'[r] = reads[r]
          /\ reads[r].reader = "idle" => reads'[r] = reads[r]
    <3>1. \A r \in Reader : reads[r].reader = "idle" => reads[r].read = "none"
      BY DEF OwnInv, Progress
    <3> QED
      BY <1>3, <1>5, <3>1
  <2> QED
    BY <1>5, <2>1, ProgressOn DEF OwnInv, Progress
<1>9. Gotten'
  <2>1. ASSUME ~mixed, NEW r \in Reader PROVE Truly(reads', r)
    <3>1. CASE ~InBatch(b, r)
      <4>1. Truly(reads, r)
        BY <2>1 DEF OwnInv, Gotten
      <4> QED
        BY <1>5, <3>1, <4>1 DEF Truly
    <3>2. CASE InBatch(b, r)
      <4>1. Net(r) = b.net
        BY <1>3, <2>1, <3>2 DEF OwnInv, Gotten
      <4>2. DOMAIN reads[r] = Fields /\ reads[r].own \in Seq(Object)
        BY DEF Answerable, OwnInv, Progress
      <4>3. reads'[r] = Received(reads[r], part(r))
        BY <1>1, <3>2
      <4>4. \A m \in DOMAIN reads[r].own : part(r)[m] = AtCheckpoint(Net(r), reads[r].own[m])
        BY <1>4, <3>2, <4>1
      <4>5. \A m \in DOMAIN reads[r].own :
              reads'[r].got[reads[r].own[m]] = Value(reads'[r].read, r, reads[r].own[m])
        BY <1>4, <3>2, <4>2, <4>3, <4>4, ReceivedIs
      <4> QED
        BY <1>5, <4>5 DEF Truly
    <3> QED
      BY <3>1, <3>2
  <2> QED
    BY <1>1, <2>1 DEF OwnInv, Gotten
<1> QED
  BY <1>6, <1>7, <1>8, <1>9 DEF OwnInv

LEMMA RetryOwn ==
  ASSUME Answerable, Batched, OwnInv, NEW b \in batches, RetryFails(b)
  PROVE  OwnInv'
<1> DEFINE r == b.entries[1].reader
<1>1. 1 \in DOMAIN b.entries /\ r \in Reader
  <2>1. b.entries \in Seq(Entry) /\ b.entries # <<>>
    BY DEF Batched
  <2>2. 1 \in DOMAIN b.entries /\ b.entries[1] \in Entry
    BY <2>1
  <2> QED
    BY <2>2 DEF Entry
<1>2. /\ batches' = batches \ {b} /\ UNCHANGED <<pending, mixed>> /\ Refused(r)
  BY DEF RetryFails
<1>3. /\ reads[r].read = "asked"
      /\ \A c \in batches' : \A i \in DOMAIN c.entries : c.entries[i].reader # r
      /\ \A i \in DOMAIN pending : pending[i].reader # r
  BY <1>1, <1>2 DEF OwnInv, OnePlace, Asked
<1> HIDE DEF r
<1>4. Ends(r, "failed") /\ \A c \in MemoCall, o \in Object : memo'[c][o] \in {memo[c][o], NoReader}
  BY <1>1, <1>2, RefusedEnds
<1>5. Truly(reads', r)
  BY <1>4 DEF Ends, Truly
<1> QED
  BY <1>1, <1>2, <1>3, <1>4, <1>5, EndsInv

LEMMA LatestOwn ==
  ASSUME Answerable, Batched, OwnInv, NEW r \in Reader, ReadLatest(r)
  PROVE  OwnInv'
<1>1. reads[r].read = "again" /\ UNCHANGED <<pending, batches, mixed>>
  BY DEF ReadLatest
<1>2. /\ \A c \in batches' : \A i \in DOMAIN c.entries : c.entries[i].reader # r
      /\ \A i \in DOMAIN pending : pending[i].reader # r
  BY <1>1 DEF OwnInv, OnePlace, Asked
<1>3. CASE Refused(r)
  <2>1. Ends(r, "failed") /\ \A c \in MemoCall, o \in Object : memo'[c][o] \in {memo[c][o], NoReader}
    BY <1>3, RefusedEnds
  <2>2. Truly(reads', r)
    BY <2>1 DEF Ends, Truly
  <2> QED
    BY <1>1, <1>2, <2>1, <2>2, EndsInv
<1>4. CASE ~Refused(r)
  <2> DEFINE old == reads[r].got
             new == [o \in Object |-> IF o \in ToSet(reads[r].own) /\ old[o] = NoValue
                                      THEN Latest(Net(r), o) ELSE old[o]]
  <2>1. memo' = memo /\ reads' = [reads EXCEPT ![r].read = "read", ![r].got = new]
    BY <1>4 DEF ReadLatest
  <2> HIDE DEF new
  <2>2. Ends(r, "read") /\ reads'[r].got = new
    BY <2>1 DEF Answerable, Ends, Fields
  <2>3. ASSUME ~mixed PROVE Truly(reads', r)
    <3> SUFFICES ASSUME NEW m \in DOMAIN reads[r].own
                 PROVE  new[reads[r].own[m]] = Value("read", r, reads[r].own[m])
      BY <2>2 DEF Ends, Truly
    <3> DEFINE o == reads[r].own[m]
    <3>1. o \in Object /\ o \in ToSet(reads[r].own)
      BY DEF OwnInv, Progress, ToSet
    <3>2. old[o] = Value("again", r, o)
      BY <1>1, <2>3 DEF OwnInv, Gotten, Truly
    <3>3. new[o] = IF old[o] = NoValue THEN Latest(Net(r), o) ELSE old[o]
      BY <3>1 DEF new
    <3>4. <<Net(r), o, "then">> # NoValue
      BY DEF NoValue
    <3> HIDE DEF o, old
    <3>5. new[o] = Value("read", r, o)
      BY <3>2, <3>3, <3>4 DEF Value, Latest
    <3> QED
      BY <3>5 DEF o
  <2> QED
    BY <1>1, <1>2, <2>1, <2>2, <2>3, EndsInv
<1> QED
  BY <1>3, <1>4

LEMMA FinishOwn ==
  ASSUME Answerable, Batched, OwnInv, NEW r \in Reader, FinishReader(r)
  PROVE  OwnInv'
<1>1. PICK end \in {"answered", "failed"} :
        /\ reads' = [reads EXCEPT ![r].reader = end]
        /\ end = "answered" => \A i \in DOMAIN reads[r].from : reads[reads[r].from[i]].read = "read"
  BY DEF FinishReader
<1>2. reads[r].reader = "waiting" /\ UNCHANGED <<memo, pending, batches, mixed>>
  BY DEF FinishReader
<1>3. /\ reads'[r].reader = end
      /\ \A q \in Reader :
           /\ reads'[q].own = reads[q].own /\ reads'[q].from = reads[q].from
           /\ reads'[q].read = reads[q].read /\ reads'[q].got = reads[q].got
           /\ q # r => reads'[q] = reads[q]
  BY <1>1 DEF Answerable, Fields
<1>4. OnePlace'
  BY <1>2, <1>3, PlacesOn DEF OwnInv
<1>5. MemoLeads'
  <2>1. \A q \in Reader : reads'[q].reader # "idle" => reads[q].reader # "idle"
    BY <1>2, <1>3
  <2> QED
    BY <1>2, <1>3, <2>1, LeadsOn DEF OwnInv
<1>6. Progress'
  <2>1. \A q \in Reader :
          /\ reads'[q].reader = "idle" => reads[q].reader = "idle"
          /\ reads'[q].reader = "answered" =>
               /\ reads[q].reader # "idle"
               /\ \A i \in DOMAIN reads[q].from : reads[reads[q].from[i]].read = "read"
    BY <1>1, <1>2, <1>3 DEF OwnInv, Progress
  <2> QED
    BY <1>3, <2>1, ProgressOn DEF OwnInv
<1>7. Gotten'
  BY <1>2, <1>3 DEF OwnInv, Gotten, Truly
<1> QED
  BY <1>4, <1>5, <1>6, <1>7 DEF OwnInv

LEMMA StepOwn == Answerable /\ Batched /\ OwnInv /\ [BatchNext]_batchVars => OwnInv'
<1> SUFFICES ASSUME Answerable, Batched, OwnInv, [BatchNext]_batchVars PROVE OwnInv'
  OBVIOUS
<1>1. CASE UNCHANGED batchVars
  BY <1>1 DEF batchVars, OwnInv, OnePlace, MemoLeads, Progress, Gotten
<1> QED
  BY <1>1, AskOwn, LatestOwn, FinishOwn, DrainOwn, AnswersOwn, SplitOwn, RetryOwn DEF BatchNext

LEMMA InitOwn == BatchInit => OwnInv
<1> SUFFICES ASSUME BatchInit PROVE OwnInv
  OBVIOUS
<1>1. /\ pending = <<>> /\ batches = {}
      /\ \A c \in MemoCall, o \in Object : memo[c][o] = NoReader
      /\ \A r \in Reader : reads[r].read = "none" /\ reads[r].reader = "idle" /\ reads[r].own = <<>>
  BY DEF BatchInit, NewRead
<1>2. OnePlace
  BY <1>1 DEF OnePlace
<1>3. MemoLeads
  BY <1>1 DEF MemoLeads
<1>4. Progress
  <2>1. <<>> \in Seq(Object)
    OBVIOUS
  <2>2. \A r \in Reader : reads[r].own \in Seq(Object) /\ reads[r].reader # "answered"
    BY <1>1, <2>1
  <2> QED
    BY <1>1, <2>2 DEF Progress
<1>5. Gotten
  BY <1>1 DEF Gotten, Truly
<1> QED
  BY <1>2, <1>3, <1>4, <1>5 DEF OwnInv

\* For any readers, calls, networks and objects, a reader is given its own
\* objects, as its own network has them, while no request held two networks'
\* keys.
THEOREM AnswersAreOwn == BatchSpec => []AnswerIsOwn
<1>1. Answerable /\ OwnInv => AnswerIsOwn
  <2> SUFFICES ASSUME Answerable, OwnInv, ~mixed, NEW r \in Reader, reads[r].reader = "answered",
                      NEW i \in DOMAIN Wanted[r]
               PROVE  reads[reads[r].from[i]].got[Wanted[r][i]] =
                        <<Net(r), Wanted[r][i], IF Wanted[r][i] \in Pruned THEN "now" ELSE "then">>
    BY DEF AnswerIsOwn
  <2> DEFINE q == reads[r].from[i]
             o == Wanted[r][i]
  <2>1. i \in DOMAIN reads[r].from /\ CallOf[q] = CallOf[r] /\ o \in ToSet(reads[q].own)
    BY DEF OwnInv, MemoLeads
  <2>2. q \in Reader /\ reads[q].read = "read"
    BY <2>1 DEF Answerable, OwnInv, Progress
  <2> HIDE DEF q
  <2>3. PICK m \in DOMAIN reads[q].own : reads[q].own[m] = o
    BY <2>1 DEF ToSet
  <2>4. reads[q].got[o] = Value("read", q, o)
    BY <2>2, <2>3 DEF OwnInv, Gotten, Truly
  <2>5. Net(q) = Net(r)
    BY <2>1 DEF Net
  <2> HIDE DEF o
  <2>6. reads[q].got[o] = <<Net(r), o, IF o \in Pruned THEN "now" ELSE "then">>
    BY <2>4, <2>5 DEF Value
  <2> QED
    BY <2>6 DEF q, o
<1>2. BatchInit => OwnInv
  BY InitOwn
<1> QED
  BY <1>1, <1>2, StepOwn, BatchInvariant, PTL DEF BatchSpec

-----------------------------------------------------------------------------
(* The circuit of a call. *)

\* The object that a read on its way holds is one of its call's and counts fewer
\* failures than open a circuit, so no success closes one; no object counts more
\* failures than its call met.
CircuitInv ==
  /\ failures \in [Pricer -> Seq(Nat)]
  /\ current \in [Pricer -> Nat]
  /\ failed \in [Pricer -> Nat]
  /\ \A p \in Pricer : current[p] # 0 => current[p] \in DOMAIN failures[p]
  /\ \A p \in Pricer : \A i \in DOMAIN failures[p] : failures[p][i] <= failed[p]
  /\ opened \subseteq Pricer /\ skipped \subseteq Pricer
  /\ \A load \in loads :
       /\ load.by \in Pricer /\ load.held \in Nat
       /\ load.held # 0 =>
            /\ load.held \in DOMAIN failures[load.by]
            /\ failures[load.by][load.held] < BreakAfter
  /\ SkipIsEarned
  /\ CircuitStaysOpen

LEMMA BreaksAfterOne == BreakAfter \in Nat /\ BreakAfter # 0
BY PriceAssumption

LEMMA StepCircuit ==
  ASSUME CircuitInv, [PriceNext]_priceVars
  PROVE  CircuitInv'
<1> USE BreaksAfterOne
<1>1. ASSUME NEW p \in Pricer, NEW key \in Sample, SkipRead(p, key)
      PROVE  CircuitInv'
  <2>1. UNCHANGED <<failures, current, loads, failed, opened, straggled>>
    BY <1>1 DEF SkipRead
  <2>2. skipped' = skipped \cup {p} /\ IsOpen(p)
    BY <1>1 DEF SkipRead
  <2>3. failed[p] >= BreakAfter
    <3>1. current[p] \in DOMAIN failures[p] /\ failures[p][current[p]] >= BreakAfter
      BY <2>2 DEF IsOpen, CircuitInv
    <3>2. failures[p] \in Seq(Nat) /\ failed[p] \in Nat
      BY DEF CircuitInv
    <3> QED
      BY <3>1, <3>2 DEF CircuitInv
  <2> QED
    BY <2>1, <2>2, <2>3 DEF CircuitInv, SkipIsEarned, CircuitStaysOpen, IsOpen
<1>2. ASSUME NEW p \in Pricer, NEW key \in Sample, BeginRead(p, key)
      PROVE  CircuitInv'
  <2>1. UNCHANGED <<failures, current, failed, opened, straggled, skipped>>
    BY <1>2 DEF BeginRead
  <2>2. ~IsOpen(p) /\ \A load \in loads' :
          load \in loads \/ (load.by = p /\ load.held = current[p])
    BY <1>2 DEF BeginRead
  <2>3. /\ current[p] \in Nat
        /\ current[p] # 0 => current[p] \in DOMAIN failures[p] /\ failures[p][current[p]] < BreakAfter
    <3>1. failures[p] \in Seq(Nat)
      BY DEF CircuitInv
    <3> QED
      BY <2>2, <3>1 DEF IsOpen, CircuitInv
  <2>4. \A load \in loads' :
          /\ load.by \in Pricer /\ load.held \in Nat
          /\ load.held # 0 =>
               load.held \in DOMAIN failures[load.by] /\ failures[load.by][load.held] < BreakAfter
    BY <2>2, <2>3 DEF CircuitInv
  <2> QED
    BY <2>1, <2>4 DEF CircuitInv, SkipIsEarned, CircuitStaysOpen, IsOpen
<1>3. ASSUME NEW load \in loads, ReadSucceeds(load)
      PROVE  CircuitInv'
  <2> DEFINE p == load.by
             cleared == Cleared(p, load.held)
  <2>1. /\ p \in Pricer /\ failures[p] \in Seq(Nat) /\ failed[p] \in Nat
        /\ load.held \in Nat
        /\ load.held # 0 => load.held \in DOMAIN failures[p] /\ failures[p][load.held] < BreakAfter
    BY DEF CircuitInv
  <2>2. /\ cleared \in Seq(Nat) /\ DOMAIN cleared = DOMAIN failures[p]
        /\ \A i \in DOMAIN cleared :
             \/ cleared[i] = failures[p][i]
             \/ i = load.held /\ load.held # 0 /\ cleared[i] = 0
    BY <2>1 DEF Cleared
  <2>3. /\ failures' = [failures EXCEPT ![p] = cleared]
        /\ loads' = loads \ {load}
        /\ UNCHANGED <<current, begun, failed, opened, straggled, skipped>>
    BY <1>3 DEF ReadSucceeds
  <2> HIDE DEF p, cleared
  <2>4. /\ failures' \in [Pricer -> Seq(Nat)]
        /\ failures'[p] = cleared /\ \A q \in Pricer : q # p => failures'[q] = failures[q]
    BY <2>1, <2>2, <2>3 DEF CircuitInv
  <2>5. \A q \in Pricer : DOMAIN failures'[q] = DOMAIN failures[q]
    BY <2>2, <2>4
  <2>6. \A q \in Pricer : \A i \in DOMAIN failures'[q] : failures'[q][i] <= failed[q]
    <3> SUFFICES ASSUME NEW q \in Pricer, NEW i \in DOMAIN failures'[q]
                 PROVE  failures'[q][i] <= failed[q]
      OBVIOUS
    <3>1. failures[q][i] <= failed[q]
      BY <2>5 DEF CircuitInv
    <3>2. CASE q # p
      BY <2>4, <3>1, <3>2
    <3>3. CASE q = p
      BY <2>1, <2>2, <2>4, <3>1, <3>3
    <3> QED
      BY <3>2, <3>3
  <2>7. \A other \in loads' :
          /\ other.by \in Pricer /\ other.held \in Nat
          /\ other.held # 0 =>
               other.held \in DOMAIN failures'[other.by] /\ failures'[other.by][other.held] < BreakAfter
    <3> SUFFICES ASSUME NEW other \in loads
                 PROVE  /\ other.by \in Pricer /\ other.held \in Nat
                        /\ other.held # 0 =>
                             /\ other.held \in DOMAIN failures'[other.by]
                             /\ failures'[other.by][other.held] < BreakAfter
      BY <2>3
    <3>1. /\ other.by \in Pricer /\ other.held \in Nat
          /\ other.held # 0 =>
               /\ other.held \in DOMAIN failures[other.by]
               /\ failures[other.by][other.held] < BreakAfter
      BY DEF CircuitInv
    <3>2. CASE other.by # p
      BY <2>4, <3>1, <3>2
    <3>3. CASE other.by = p
      BY <2>1, <2>2, <2>4, <3>1, <3>3
    <3> QED
      BY <3>2, <3>3
  <2>8. CircuitStaysOpen'
    <3> SUFFICES ASSUME NEW q \in opened \ straggled
                 PROVE  current[q] # 0 /\ failures'[q][current[q]] >= BreakAfter
      BY <2>3 DEF CircuitStaysOpen, IsOpen
    <3>1. /\ q \in Pricer /\ current[q] # 0 /\ current[q] \in DOMAIN failures[q]
          /\ failures[q][current[q]] >= BreakAfter
      BY DEF CircuitInv, CircuitStaysOpen, IsOpen
    <3>2. CASE q # p
      BY <2>4, <3>1, <3>2
    <3>3. CASE q = p
      <4>1. failures[p][current[p]] \in Nat
        BY <2>1, <3>1, <3>3
      <4>2. current[p] # load.held
        BY <2>1, <3>1, <3>3, <4>1
      <4> QED
        BY <2>2, <2>4, <3>1, <3>3, <4>2
    <3> QED
      BY <3>2, <3>3
  <2>9. SkipIsEarned'
    BY <2>3 DEF CircuitInv, SkipIsEarned
  <2> QED
    BY <2>3, <2>4, <2>5, <2>6, <2>7, <2>8, <2>9 DEF CircuitInv
<1>4. ASSUME NEW load \in loads, ReadFails(load)
      PROVE  CircuitInv'
  <2> DEFINE p == load.by
             held == load.held
             count == (IF held = 0 THEN 0 ELSE failures[p][held]) + 1
  <2>1. /\ p \in Pricer /\ failures[p] \in Seq(Nat) /\ failed[p] \in Nat
        /\ held \in Nat
        /\ held # 0 => held \in DOMAIN failures[p] /\ failures[p][held] < BreakAfter
    BY DEF CircuitInv
  <2>2. count \in Nat /\ count <= failed[p] + 1
    BY <2>1 DEF CircuitInv
  <2>3. /\ failures' = [failures EXCEPT ![p] = Append(failures[p], count)]
        /\ current' = [current EXCEPT ![p] = Len(Append(failures[p], count))]
        /\ failed' = [failed EXCEPT ![p] = @ + 1]
        /\ loads' = loads \ {load}
        /\ skipped' = skipped
    BY <1>4 DEF ReadFails, Counted
  <2>4. opened' = IF Last(Append(failures[p], count)) >= BreakAfter THEN opened \cup {p} ELSE opened
    BY <1>4 DEF ReadFails, Counted
  <2>5. straggled' = IF held # current[p] THEN straggled \cup {p} ELSE straggled
    BY <1>4 DEF ReadFails
  <2> HIDE DEF p, held, count
  <2> DEFINE counted == Append(failures[p], count)
             last == Len(failures[p]) + 1
  <2>6. /\ counted \in Seq(Nat) /\ Len(counted) = last /\ last \in Nat \ {0}
        /\ DOMAIN counted = 1..last /\ DOMAIN failures[p] = 1..(last - 1)
        /\ counted[last] = count
        /\ \A i \in DOMAIN failures[p] : i \in DOMAIN counted /\ counted[i] = failures[p][i]
        /\ \A i \in DOMAIN counted : i = last \/ i \in DOMAIN failures[p]
    BY <2>1, <2>2
  <2>7. Last(counted) = count
    BY <2>6 DEF Last
  <2> HIDE DEF counted, last
  <2>8. /\ failures' \in [Pricer -> Seq(Nat)] /\ current' \in [Pricer -> Nat]
        /\ failed' \in [Pricer -> Nat]
        /\ failures'[p] = counted /\ current'[p] = last /\ failed'[p] = failed[p] + 1
        /\ \A q \in Pricer : q # p =>
             failures'[q] = failures[q] /\ current'[q] = current[q] /\ failed'[q] = failed[q]
    BY <2>1, <2>3, <2>6 DEF CircuitInv, counted
  <2>9. \A q \in Pricer : current'[q] # 0 => current'[q] \in DOMAIN failures'[q]
    <3>1. last \in DOMAIN counted
      BY <2>6
    <3> QED
      BY <2>8, <3>1 DEF CircuitInv
  <2>10. \A q \in Pricer : \A i \in DOMAIN failures'[q] : failures'[q][i] <= failed'[q]
    <3> SUFFICES ASSUME NEW q \in Pricer, NEW i \in DOMAIN failures'[q]
                 PROVE  failures'[q][i] <= failed'[q]
      OBVIOUS
    <3>1. CASE q # p
      BY <2>8, <3>1 DEF CircuitInv
    <3>2. CASE q = p /\ i = last
      BY <2>1, <2>2, <2>6, <2>8, <3>2
    <3>3. CASE q = p /\ i \in DOMAIN failures[p]
      <4>1. failures[p][i] \in Nat /\ failures[p][i] <= failed[p]
        BY <2>1, <3>3 DEF CircuitInv
      <4> QED
        BY <2>1, <2>6, <2>8, <3>3, <4>1
    <3> QED
      BY <2>6, <2>8, <3>1, <3>2, <3>3
  <2>11. \A other \in loads' :
           /\ other.by \in Pricer /\ other.held \in Nat
           /\ other.held # 0 =>
                other.held \in DOMAIN failures'[other.by] /\ failures'[other.by][other.held] < BreakAfter
    <3> SUFFICES ASSUME NEW other \in loads
                 PROVE  /\ other.by \in Pricer /\ other.held \in Nat
                        /\ other.held # 0 =>
                             /\ other.held \in DOMAIN failures'[other.by]
                             /\ failures'[other.by][other.held] < BreakAfter
      BY <2>3
    <3>1. /\ other.by \in Pricer /\ other.held \in Nat
          /\ other.held # 0 =>
               /\ other.held \in DOMAIN failures[other.by]
               /\ failures[other.by][other.held] < BreakAfter
      BY DEF CircuitInv
    <3>2. CASE other.by # p
      BY <2>8, <3>1, <3>2
    <3>3. CASE other.by = p
      BY <2>6, <2>8, <3>1, <3>3
    <3> QED
      BY <3>2, <3>3
  <2>12. CircuitStaysOpen'
    <3> SUFFICES ASSUME NEW q \in opened' \ straggled'
                 PROVE  current'[q] # 0 /\ failures'[q][current'[q]] >= BreakAfter
      BY DEF CircuitStaysOpen, IsOpen
    <3>1. q \in Pricer
      BY <2>1, <2>4 DEF CircuitInv
    <3>2. CASE q # p
      <4>1. q \in opened \ straggled
        BY <2>4, <2>5, <3>2
      <4> QED
        BY <2>8, <3>1, <3>2, <4>1 DEF CircuitInv, CircuitStaysOpen, IsOpen
    <3>3. CASE q = p /\ count >= BreakAfter
      BY <2>6, <2>8, <3>3
    <3>4. CASE q = p /\ ~(count >= BreakAfter)
      <4>1. p \in opened \ straggled /\ held = current[p]
        BY <2>4, <2>5, <2>7, <3>4 DEF counted
      <4>2. held # 0 /\ failures[p][held] >= BreakAfter
        BY <4>1 DEF CircuitInv, CircuitStaysOpen, IsOpen
      <4>3. failures[p][held] \in Nat
        BY <2>1, <4>2
      <4> QED
        BY <2>1, <4>2, <4>3
    <3> QED
      BY <3>2, <3>3, <3>4
  <2>13. SkipIsEarned'
    <3> SUFFICES ASSUME NEW q \in skipped PROVE failed'[q] >= BreakAfter
      BY <2>3 DEF SkipIsEarned
    <3>1. q \in Pricer /\ failed[q] >= BreakAfter /\ failed[q] \in Nat
      BY DEF CircuitInv, SkipIsEarned
    <3>2. failed'[q] = failed[q] \/ failed'[q] = failed[q] + 1
      BY <2>8, <3>1
    <3> QED
      BY <3>1, <3>2
  <2>14. opened' \subseteq Pricer /\ skipped' \subseteq Pricer
    BY <2>1, <2>3, <2>4 DEF CircuitInv
  <2> QED
    BY <2>8, <2>9, <2>10, <2>11, <2>12, <2>13, <2>14 DEF CircuitInv
<1>5. CASE ExpireEntry
  BY <1>5 DEF ExpireEntry, CircuitInv, SkipIsEarned, CircuitStaysOpen, IsOpen
<1>6. CASE UNCHANGED priceVars
  BY <1>6 DEF priceVars, CircuitInv, SkipIsEarned, CircuitStaysOpen, IsOpen
<1> QED
  BY <1>1, <1>2, <1>3, <1>4, <1>5, <1>6 DEF PriceNext

LEMMA CircuitInvariant == PriceSpec => []CircuitInv
<1>1. PriceInit => CircuitInv
  BY DEF PriceInit, CircuitInv, SkipIsEarned, CircuitStaysOpen
<1>2. CircuitInv /\ [PriceNext]_priceVars => CircuitInv'
  BY StepCircuit
<1> QED
  BY <1>1, <1>2, PTL DEF PriceSpec

\* For any calls, samples and order of answers, a call skips a provider only
\* after BREAK_AFTER of its own reads of it failed.
THEOREM SkipsAreEarned == PriceSpec => []SkipIsEarned
<1>1. CircuitInv => SkipIsEarned
  BY DEF CircuitInv
<1> QED
  BY <1>1, CircuitInvariant, PTL

\* For any calls, samples and order of answers, a circuit that opened stays open
\* unless a read fails that began before the failures that opened it.
THEOREM CircuitsStayOpen == PriceSpec => []CircuitStaysOpen
<1>1. CircuitInv => CircuitStaysOpen
  BY DEF CircuitInv
<1> QED
  BY <1>1, CircuitInvariant, PTL

-----------------------------------------------------------------------------
(* The cache of reads.                                                     *)

\* A deletion keeps every place but those it may choose from.
LEMMA DeletedIs ==
  ASSUME NEW S, NEW seq \in Seq(S), NEW places \in SUBSET DOMAIN seq
  PROVE  /\ Deleted(seq, places) \in Seq(S)
         /\ \A j \in DOMAIN Deleted(seq, places) :
              \E i \in DOMAIN seq : Deleted(seq, places)[j] = seq[i]
         /\ \A i \in DOMAIN seq \ places :
              \E j \in DOMAIN Deleted(seq, places) : Deleted(seq, places)[j] = seq[i]
<1>1. CASE places = {}
  BY <1>1 DEF Deleted
<1>2. CASE places # {}
  <2> DEFINE k == CHOOSE i \in places : TRUE
             n == Len(seq)
             front == SubSeq(seq, 1, k - 1)
             back == SubSeq(seq, k + 1, n)
             gone == front \o back
  <2>1. k \in places
    BY <1>2
  <2>2. k \in 1..n /\ n \in Nat /\ DOMAIN seq = 1..n
    BY <2>1
  <2>3. Deleted(seq, places) = gone
    BY <1>2 DEF Deleted, RemoveAt
  <2> HIDE DEF k
  <2>4. \A i \in 1..n : seq[i] \in S
    BY <2>2
  <2>5. /\ front \in Seq(S) /\ Len(front) = k - 1
        /\ \A i \in 1..(k - 1) : front[i] = seq[i]
    <3>1. 1 \in Int /\ k - 1 \in Int /\ \A i \in 1..(k - 1) : seq[i] \in S
      BY <2>2, <2>4
    <3>2. /\ SubSeq(seq, 1, k - 1) \in Seq(S)
          /\ Len(SubSeq(seq, 1, k - 1)) = IF 1 <= k - 1 THEN k - 1 - 1 + 1 ELSE 0
          /\ \A i \in 1..(k - 1 - 1 + 1) : SubSeq(seq, 1, k - 1)[i] = seq[1 + i - 1]
      BY <3>1, SubSeqProperties
    <3> HIDE DEF n
    <3>3. k \in Nat \ {0}
      BY <2>2
    <3>4. \A i \in 1..(k - 1) : 1 + i - 1 = i
      OBVIOUS
    <3> QED
      BY <3>2, <3>3, <3>4
  <2>6. /\ back \in Seq(S) /\ Len(back) = n - k
        /\ \A i \in 1..(n - k) : back[i] = seq[k + i]
    <3>1. k + 1 \in Int /\ n \in Int /\ \A i \in (k + 1)..n : seq[i] \in S
      BY <2>2, <2>4
    <3> HIDE DEF n
    <3>2. /\ SubSeq(seq, k + 1, n) \in Seq(S)
          /\ Len(SubSeq(seq, k + 1, n)) = IF k + 1 <= n THEN n - (k + 1) + 1 ELSE 0
          /\ \A i \in 1..(n - (k + 1) + 1) : SubSeq(seq, k + 1, n)[i] = seq[k + 1 + i - 1]
      BY <3>1, SubSeqProperties
    <3>3. n - (k + 1) + 1 = n - k /\ (~(k + 1 <= n) => n - k = 0)
      BY <2>2
    <3>4. \A i \in 1..(n - k) : k + 1 + i - 1 = k + i
      BY <2>2
    <3> QED
      BY <3>2, <3>3, <3>4
  <2> HIDE DEF front, back, n
  <2>7. /\ gone \in Seq(S) /\ Len(gone) = (k - 1) + (n - k)
        /\ \A i \in 1..((k - 1) + (n - k)) :
             gone[i] = IF i <= k - 1 THEN front[i] ELSE back[i - (k - 1)]
    <3>1. front \in Seq(S) /\ back \in Seq(S)
      BY <2>5, <2>6
    <3>2. /\ front \o back \in Seq(S)
          /\ Len(front \o back) = Len(front) + Len(back)
          /\ \A i \in 1..(Len(front) + Len(back)) :
               (front \o back)[i] = IF i <= Len(front) THEN front[i] ELSE back[i - Len(front)]
      BY ONLY <3>1, ConcatProperties
    <3>3. Len(front) = k - 1 /\ Len(back) = n - k
      BY <2>5, <2>6
    <3> HIDE DEF gone
    <3> QED
      BY <3>2, <3>3 DEF gone
  <2>8. DOMAIN gone = 1..(n - 1)
    BY <2>2, <2>7
  <2> HIDE DEF gone
  <2>9. \A i \in 1..(n - 1) : gone[i] = IF i < k THEN seq[i] ELSE seq[i + 1]
    <3> SUFFICES ASSUME NEW i \in 1..(n - 1) PROVE gone[i] = IF i < k THEN seq[i] ELSE seq[i + 1]
      OBVIOUS
    <3>1. i \in 1..((k - 1) + (n - k))
      BY <2>2
    <3>2. CASE i < k
      BY <2>2, <2>5, <2>7, <3>1, <3>2
    <3>3. CASE ~(i < k)
      <4>1. i - (k - 1) \in 1..(n - k) /\ k + (i - (k - 1)) = i + 1 /\ ~(i <= k - 1)
        BY <2>2, <3>3
      <4> QED
        BY <2>6, <2>7, <3>1, <3>3, <4>1
    <3> QED
      BY <3>2, <3>3
  <2>10. \A j \in DOMAIN gone : \E i \in DOMAIN seq : gone[j] = seq[i]
    <3> SUFFICES ASSUME NEW j \in 1..(n - 1) PROVE \E i \in 1..n : gone[j] = seq[i]
      BY <2>2, <2>8
    <3>1. j \in 1..n /\ j + 1 \in 1..n
      BY <2>2
    <3> QED
      BY <2>9, <3>1
  <2>11. \A i \in DOMAIN seq \ places : \E j \in DOMAIN gone : gone[j] = seq[i]
    <3> SUFFICES ASSUME NEW i \in 1..n, i \notin places PROVE \E j \in 1..(n - 1) : gone[j] = seq[i]
      BY <2>2, <2>8
    <3>1. i # k
      BY <2>1
    <3>2. CASE i < k
      BY <2>2, <2>9, <3>2
    <3>3. CASE i > k
      <4>1. i - 1 \in 1..(n - 1) /\ ~(i - 1 < k) /\ (i - 1) + 1 = i
        BY <2>2, <3>3
      <4> QED
        BY <2>9, <4>1
    <3> QED
      BY <2>2, <3>1, <3>2, <3>3
  <2> QED
    BY <2>3, <2>7, <2>10, <2>11
<1> QED
  BY <1>1, <1>2

Ids == Pricer \X Nat
CacheEntry == [key : Sample, id : Ids, good : BOOLEAN, expired : BOOLEAN]
Loading == [id : Ids, key : Sample, by : Pricer, held : Nat]

\* An answer is in the cache only once no read of its number is on its way, and a
\* read's number is one its call has given out.
Begun(now, id) == id[2] < now[id[1]]
CacheInv ==
  /\ begun \in [Pricer -> Nat]
  /\ entries \in Seq(CacheEntry)
  /\ loads \subseteq Loading
  /\ \A i \in DOMAIN entries : Begun(begun, entries[i].id)
  /\ \A load \in loads : Begun(begun, load.id)
  /\ \A load, other \in loads : load.id = other.id => load = other
  /\ \A i \in DOMAIN entries : \A load \in loads :
       entries[i].good => load.id # entries[i].id

\* The eviction.
LEMMA RoomyIs ==
  ASSUME CacheInv
  PROVE  /\ Roomy \in Seq(CacheEntry)
         /\ \A j \in DOMAIN Roomy : \E i \in DOMAIN entries : Roomy[j] = entries[i]
         /\ \A i \in DOMAIN entries : ~(i = 1 /\ Len(entries) >= MaxCache) =>
              \E j \in DOMAIN Roomy : Roomy[j] = entries[i]
<1>1. entries \in Seq(CacheEntry) /\ MaxCache \in Nat \ {0}
  BY PriceAssumption DEF CacheInv
<1>2. CASE Len(entries) < MaxCache
  BY <1>1, <1>2 DEF Roomy
<1>3. CASE Len(entries) >= MaxCache
  <2> DEFINE n == Len(entries)
  <2>1. entries # <<>> /\ n \in Nat \ {0}
    BY <1>1, <1>3
  <2>2. /\ Roomy \in Seq(CacheEntry) /\ Len(Roomy) = n - 1
        /\ \A i \in 1..(n - 1) : Roomy[i] = entries[i + 1]
    <3>1. Roomy = Tail(entries)
      BY <1>3 DEF Roomy
    <3>2. entries \in Seq(CacheEntry) /\ entries # <<>>
      BY <1>1, <2>1
    <3>3. /\ Tail(entries) \in Seq(CacheEntry) /\ Len(Tail(entries)) = Len(entries) - 1
          /\ \A i \in 1..Len(Tail(entries)) : Tail(entries)[i] = entries[i + 1]
      BY ONLY <3>2, HeadTailProperties
    <3> QED
      BY <3>1, <3>3
  <2>3. DOMAIN Roomy = 1..(n - 1) /\ DOMAIN entries = 1..n
    BY <1>1, <2>1, <2>2
  <2> HIDE DEF n
  <2>4. \A j \in 1..(n - 1) : j + 1 \in 1..n
    BY <2>1
  <2>5. \A i \in 1..n : i # 1 => i - 1 \in 1..(n - 1) /\ (i - 1) + 1 = i
    BY <2>1
  <2> QED
    BY <1>3, <2>2, <2>3, <2>4, <2>5
<1> QED
  BY <1>1, <1>2, <1>3

\* The placing of a new entry.
LEMMA PutIs ==
  ASSUME NEW seq \in Seq(CacheEntry), NEW entry \in CacheEntry
  PROVE  /\ Put(seq, entry) \in Seq(CacheEntry)
         /\ \A j \in DOMAIN Put(seq, entry) :
              \/ Put(seq, entry)[j] = entry
              \/ \E i \in DOMAIN seq : Put(seq, entry)[j] = seq[i]
         /\ \A i \in DOMAIN seq : seq[i].key # entry.key =>
              \E j \in DOMAIN Put(seq, entry) : Put(seq, entry)[j] = seq[i]
<1> DEFINE n == Len(seq)
<1>1. n \in Nat /\ DOMAIN seq = 1..n /\ \A i \in 1..n : seq[i] \in CacheEntry
  <2> HIDE DEF n
  <2> QED
    BY DEF n
<1>2. CASE \E i \in DOMAIN seq : seq[i].key = entry.key
  <2> DEFINE put == [i \in DOMAIN seq |-> IF seq[i].key = entry.key THEN entry ELSE seq[i]]
  <2>1. Put(seq, entry) = put
    BY <1>2 DEF Put
  <2>2. put \in [1..n -> CacheEntry]
    BY <1>1
  <2>3. put \in Seq(CacheEntry)
    BY <1>1, <2>2
  <2>4. DOMAIN put = DOMAIN seq
    OBVIOUS
  <2> QED
    BY <2>1, <2>3, <2>4
<1>3. CASE ~ \E i \in DOMAIN seq : seq[i].key = entry.key
  <2>1. Put(seq, entry) = Append(seq, entry)
    BY <1>3 DEF Put
  <2>2. /\ Append(seq, entry) \in Seq(CacheEntry)
        /\ Len(Append(seq, entry)) = n + 1
        /\ \A i \in 1..n : Append(seq, entry)[i] = seq[i]
        /\ Append(seq, entry)[n + 1] = entry
    BY AppendProperties
  <2>3. DOMAIN Append(seq, entry) = 1..(n + 1)
    BY <1>1, <2>2
  <2> HIDE DEF n
  <2>4. \A j \in 1..(n + 1) : j \in 1..n \/ j = n + 1
    BY <1>1
  <2>5. \A i \in 1..n : i \in 1..(n + 1)
    BY <1>1
  <2> QED
    BY <1>1, <2>1, <2>2, <2>3, <2>4, <2>5
<1> QED
  BY <1>2, <1>3

\* What one state of the cache has of another: every entry of it, but those
\* excepted, and none that is not the other's.
Keeps(old, new, except) ==
  \A i \in DOMAIN old \ except : \E j \in DOMAIN new : new[j].id = old[i].id
Adopts(old, new) ==
  \A j \in DOMAIN new : \E i \in DOMAIN old : new[j] = old[i]

\* What goes when there is no room.
Oldest == IF Len(entries) >= MaxCache THEN {1} ELSE {}

LEMMA SkipCache ==
  ASSUME CacheInv, NEW p \in Pricer, NEW key \in Sample, SkipRead(p, key)
  PROVE  /\ entries' \in Seq(CacheEntry) /\ Adopts(entries, entries')
         /\ Keeps(entries, entries', Oldest \cup Keyed(key))
<1> DEFINE I == { i \in DOMAIN Roomy : Roomy[i].key = key }
<1>1. entries' = Deleted(Roomy, I)
  BY DEF SkipRead
<1>2. Roomy \in Seq(CacheEntry) /\ I \in SUBSET DOMAIN Roomy
  BY RoomyIs
<1>3. /\ Deleted(Roomy, I) \in Seq(CacheEntry)
      /\ \A j \in DOMAIN Deleted(Roomy, I) : \E i \in DOMAIN Roomy : Deleted(Roomy, I)[j] = Roomy[i]
      /\ \A i \in DOMAIN Roomy \ I : \E j \in DOMAIN Deleted(Roomy, I) : Deleted(Roomy, I)[j] = Roomy[i]
  <2> HIDE DEF I
  <2> QED
    BY <1>2, DeletedIs
<1>4. Adopts(entries, entries')
  BY <1>1, <1>3, RoomyIs DEF Adopts
<1>5. Keeps(entries, entries', Oldest \cup Keyed(key))
  <2> SUFFICES ASSUME NEW i \in DOMAIN entries, i \notin Oldest, i \notin Keyed(key)
               PROVE  \E j \in DOMAIN entries' : entries'[j].id = entries[i].id
    BY DEF Keeps
  <2>1. entries[i].key # key /\ ~(i = 1 /\ Len(entries) >= MaxCache)
    BY DEF Keyed, Oldest
  <2>2. PICK k \in DOMAIN Roomy : Roomy[k] = entries[i]
    BY <2>1, RoomyIs
  <2>3. k \notin I
    BY <2>1, <2>2
  <2> HIDE DEF I
  <2> QED
    BY <1>1, <1>3, <2>2, <2>3
<1> QED
  BY <1>1, <1>3, <1>4, <1>5

BegunEntry(p, key) == [key |-> key, id |-> <<p, begun[p]>>, good |-> FALSE, expired |-> FALSE]

LEMMA BeginCache ==
  ASSUME CacheInv, NEW p \in Pricer, NEW key \in Sample, BeginRead(p, key)
  PROVE  /\ entries' \in Seq(CacheEntry)
         /\ \A j \in DOMAIN entries' :
              \/ entries'[j] = BegunEntry(p, key)
              \/ \E i \in DOMAIN entries : entries'[j] = entries[i]
         /\ Keeps(entries, entries', Oldest \cup Keyed(key))
<1> DEFINE e == BegunEntry(p, key)
<1>1. entries' = Put(Roomy, e)
  BY DEF BeginRead, BegunEntry
<1>2. e \in CacheEntry /\ e.key = key
  BY DEF CacheEntry, Ids, CacheInv, BegunEntry
<1> HIDE DEF e
<1>3. Roomy \in Seq(CacheEntry)
  BY RoomyIs
<1>4. /\ Put(Roomy, e) \in Seq(CacheEntry)
      /\ \A j \in DOMAIN Put(Roomy, e) :
           Put(Roomy, e)[j] = e \/ \E i \in DOMAIN Roomy : Put(Roomy, e)[j] = Roomy[i]
      /\ \A i \in DOMAIN Roomy : Roomy[i].key # key =>
           \E j \in DOMAIN Put(Roomy, e) : Put(Roomy, e)[j] = Roomy[i]
  BY <1>2, <1>3, PutIs
<1>5. Keeps(entries, entries', Oldest \cup Keyed(key))
  <2> SUFFICES ASSUME NEW i \in DOMAIN entries, i \notin Oldest, i \notin Keyed(key)
               PROVE  \E j \in DOMAIN entries' : entries'[j].id = entries[i].id
    BY DEF Keeps
  <2>1. entries[i].key # key /\ ~(i = 1 /\ Len(entries) >= MaxCache)
    BY DEF Keyed, Oldest
  <2>2. PICK k \in DOMAIN Roomy : Roomy[k] = entries[i]
    BY <2>1, RoomyIs
  <2>3. Roomy[k].key # key
    BY <2>1, <2>2
  <2> QED
    BY <1>1, <1>4, <2>2, <2>3
<1>6. \A j \in DOMAIN entries' :
        entries'[j] = e \/ \E i \in DOMAIN entries : entries'[j] = entries[i]
  <2> SUFFICES ASSUME NEW j \in DOMAIN Put(Roomy, e), Put(Roomy, e)[j] # e
               PROVE  \E i \in DOMAIN entries : Put(Roomy, e)[j] = entries[i]
    BY <1>1
  <2>1. PICK k \in DOMAIN Roomy : Put(Roomy, e)[j] = Roomy[k]
    BY <1>4
  <2> QED
    BY <2>1, RoomyIs
<1> QED
  BY <1>1, <1>4, <1>5, <1>6 DEF e

LEMMA FailCache ==
  ASSUME CacheInv, NEW load \in loads, ReadFails(load)
  PROVE  /\ entries' \in Seq(CacheEntry) /\ Adopts(entries, entries')
         /\ Keeps(entries, entries', { i \in DOMAIN entries : entries[i].id = load.id })
<1> DEFINE I == { i \in Keyed(load.key) : entries[i].id = load.id }
<1>1. entries' = Deleted(entries, I)
  BY DEF ReadFails, Without
<1>2. entries \in Seq(CacheEntry) /\ I \in SUBSET DOMAIN entries
  BY DEF CacheInv, Keyed
<1>3. I \subseteq { i \in DOMAIN entries : entries[i].id = load.id }
  BY DEF Keyed
<1>4. /\ Deleted(entries, I) \in Seq(CacheEntry)
      /\ \A j \in DOMAIN Deleted(entries, I) : \E i \in DOMAIN entries : Deleted(entries, I)[j] = entries[i]
      /\ \A i \in DOMAIN entries \ I : \E j \in DOMAIN Deleted(entries, I) : Deleted(entries, I)[j] = entries[i]
  <2> HIDE DEF I
  <2> QED
    BY <1>2, DeletedIs
<1> HIDE DEF I
<1> QED
  BY <1>1, <1>3, <1>4 DEF Adopts, Keeps

LEMMA SucceedCache ==
  ASSUME CacheInv, NEW load \in loads, ReadSucceeds(load)
  PROVE  /\ entries' \in Seq(CacheEntry) /\ DOMAIN entries' = DOMAIN entries
         /\ \A i \in DOMAIN entries :
              /\ entries'[i].id = entries[i].id
              /\ entries'[i].good => entries[i].good \/ entries[i].id = load.id
<1> DEFINE n == Len(entries)
           mark(i) == IF entries[i].id = load.id
                      THEN [entries[i] EXCEPT !.good = TRUE] ELSE entries[i]
<1>1. n \in Nat /\ DOMAIN entries = 1..n /\ \A i \in 1..n : entries[i] \in CacheEntry
  BY DEF CacheInv
<1>2. \A i \in 1..n : /\ mark(i) \in CacheEntry /\ mark(i).id = entries[i].id
                      /\ mark(i).good => entries[i].good \/ entries[i].id = load.id
  BY <1>1 DEF CacheEntry
<1>3. entries' = [i \in DOMAIN entries |-> mark(i)]
  BY DEF ReadSucceeds
<1> HIDE DEF mark, n
<1>4. entries' \in [1..n -> CacheEntry]
  BY <1>1, <1>2, <1>3
<1> QED
  BY <1>1, <1>2, <1>3, <1>4

LEMMA ExpireCache ==
  ASSUME CacheInv, ExpireEntry
  PROVE  /\ entries' \in Seq(CacheEntry) /\ DOMAIN entries' = DOMAIN entries
         /\ \A i \in DOMAIN entries :
              entries'[i].id = entries[i].id /\ entries'[i].good = entries[i].good
<1> DEFINE n == Len(entries)
<1>1. n \in Nat /\ DOMAIN entries = 1..n /\ \A i \in 1..n : entries[i] \in CacheEntry
  BY DEF CacheInv
<1>2. PICK k \in 1..n : entries' = [entries EXCEPT ![k].expired = TRUE]
  BY <1>1 DEF ExpireEntry
<1>3. /\ DOMAIN entries' = 1..n
      /\ \A i \in 1..n : entries'[i] = IF i = k THEN [entries[i] EXCEPT !.expired = TRUE] ELSE entries[i]
  BY <1>1, <1>2
<1> HIDE DEF n
<1>4. \A i \in 1..n : /\ entries'[i] \in CacheEntry /\ entries'[i].id = entries[i].id
                      /\ entries'[i].good = entries[i].good
  BY <1>1, <1>3 DEF CacheEntry
<1>5. entries' = [i \in 1..n |-> entries'[i]]
  BY <1>2, <1>3, <1>1
<1>6. entries' \in [1..n -> CacheEntry]
  BY <1>4, <1>5
<1> QED
  BY <1>1, <1>3, <1>4, <1>6

\* Where no read begins or ends, and where one ends, no number is given out.
LEMMA SameBegun ==
  ASSUME CacheInv, begun' = begun, loads' \subseteq loads,
         entries' \in Seq(CacheEntry),
         \A j \in DOMAIN entries' : \E i \in DOMAIN entries :
           /\ entries'[j].id = entries[i].id
           /\ entries'[j].good => entries[i].good \/ \A load \in loads' : load.id # entries[i].id
  PROVE  CacheInv'
<1>1. \A j \in DOMAIN entries' : Begun(begun', entries'[j].id)
  BY DEF CacheInv, Begun
<1>2. \A load \in loads' : Begun(begun', load.id)
  BY DEF CacheInv, Begun
<1>3. \A j \in DOMAIN entries' : \A load \in loads' :
        entries'[j].good => load.id # entries'[j].id
  BY DEF CacheInv
<1> QED
  BY <1>1, <1>2, <1>3 DEF CacheInv

LEMMA StepCache == CircuitInv /\ CacheInv /\ [PriceNext]_priceVars => CacheInv'
<1> SUFFICES ASSUME CircuitInv, CacheInv, [PriceNext]_priceVars PROVE CacheInv'
  OBVIOUS
<1>0. loads \subseteq Loading /\ begun \in [Pricer -> Nat] /\ current \in [Pricer -> Nat]
  BY DEF CacheInv, CircuitInv
<1>1. CASE UNCHANGED priceVars
  BY <1>1 DEF CacheInv, Begun, priceVars
<1>2. ASSUME NEW p \in Pricer, NEW key \in Sample, SkipRead(p, key)
      PROVE  CacheInv'
  <2>1. entries' \in Seq(CacheEntry) /\ Adopts(entries, entries')
    BY <1>2, SkipCache
  <2>2. loads' = loads /\ current' = current /\ begun' = [begun EXCEPT ![p] = @ + 1]
    BY <1>2 DEF SkipRead
  <2>3. \A q \in Pricer : begun'[q] \in Nat /\ begun[q] <= begun'[q]
    BY <1>0, <2>2
  <2>4. \A id \in Ids : Begun(begun, id) => Begun(begun', id)
    BY <1>0, <2>3 DEF Begun, Ids
  <2>5. \A i \in DOMAIN entries : entries[i] \in CacheEntry
    BY DEF CacheInv
  <2>6. \A j \in DOMAIN entries' : Begun(begun', entries'[j].id)
    BY <2>1, <2>4, <2>5 DEF CacheInv, Adopts, CacheEntry
  <2>7. \A load \in loads' : Begun(begun', load.id)
    BY <1>0, <2>2, <2>4 DEF CacheInv, Loading
  <2>8. \A j \in DOMAIN entries' : \A load \in loads' :
          entries'[j].good => load.id # entries'[j].id
    BY <2>1, <2>2 DEF CacheInv, Adopts
  <2>9. begun' \in [Pricer -> Nat]
    BY <1>0, <2>2
  <2> QED
    BY <1>0, <2>1, <2>2, <2>6, <2>7, <2>8, <2>9 DEF CacheInv
<1>3. ASSUME NEW p \in Pricer, NEW key \in Sample, BeginRead(p, key)
      PROVE  CacheInv'
  <2> DEFINE e == BegunEntry(p, key)
             new == [id |-> <<p, begun[p]>>, key |-> key, by |-> p, held |-> current[p]]
  <2>1. /\ entries' \in Seq(CacheEntry)
        /\ \A j \in DOMAIN entries' :
             entries'[j] = e \/ \E i \in DOMAIN entries : entries'[j] = entries[i]
    BY <1>3, BeginCache
  <2>2. loads' = loads \cup {new} /\ current' = current /\ begun' = [begun EXCEPT ![p] = @ + 1]
    BY <1>3 DEF BeginRead
  <2>3. /\ begun'[p] = begun[p] + 1 /\ begun[p] \in Nat
        /\ \A q \in Pricer : begun'[q] \in Nat /\ begun[q] <= begun'[q]
    BY <1>0, <2>2
  <2>4. \A id \in Ids : Begun(begun, id) => Begun(begun', id)
    BY <1>0, <2>3 DEF Begun, Ids
  <2>5. new \in Loading /\ new.id = <<p, begun[p]>> /\ e.id = new.id /\ ~e.good
    BY <1>0 DEF Loading, Ids, BegunEntry
  <2>6. Begun(begun', new.id) /\ ~Begun(begun, new.id)
    BY <2>3, <2>5 DEF Begun
  <2>7. \A i \in DOMAIN entries : entries[i] \in CacheEntry
    BY DEF CacheInv
  <2> HIDE DEF new, e
  <2>8. \A j \in DOMAIN entries' : Begun(begun', entries'[j].id)
    <3> SUFFICES ASSUME NEW j \in DOMAIN entries' PROVE Begun(begun', entries'[j].id)
      OBVIOUS
    <3>1. CASE entries'[j] = e
      BY <2>5, <2>6, <3>1
    <3>2. ASSUME NEW i \in DOMAIN entries, entries'[j] = entries[i] PROVE Begun(begun', entries'[j].id)
      BY <2>4, <2>7, <3>2 DEF CacheInv, CacheEntry
    <3> QED
      BY <2>1, <3>1, <3>2
  <2>9. \A load \in loads' : Begun(begun', load.id)
    BY <1>0, <2>2, <2>4, <2>6 DEF CacheInv, Loading
  <2>10. \A load, other \in loads' : load.id = other.id => load = other
    BY <2>2, <2>6 DEF CacheInv
  <2>11. \A j \in DOMAIN entries' : \A load \in loads' :
           entries'[j].good => load.id # entries'[j].id
    <3> SUFFICES ASSUME NEW j \in DOMAIN entries', entries'[j].good, NEW load \in loads'
                 PROVE  load.id # entries'[j].id
      OBVIOUS
    <3>1. PICK i \in DOMAIN entries : entries'[j] = entries[i]
      BY <2>1, <2>5
    <3>2. CASE load = new
      BY <2>6, <3>1, <3>2 DEF CacheInv
    <3>3. CASE load \in loads
      BY <3>1, <3>3 DEF CacheInv
    <3> QED
      BY <2>2, <3>2, <3>3
  <2>12. begun' \in [Pricer -> Nat] /\ loads' \subseteq Loading
    BY <1>0, <2>2, <2>5
  <2> QED
    BY <2>1, <2>8, <2>9, <2>10, <2>11, <2>12 DEF CacheInv
<1>4. ASSUME NEW load \in loads, ReadSucceeds(load)
      PROVE  CacheInv'
  <2>1. /\ entries' \in Seq(CacheEntry) /\ DOMAIN entries' = DOMAIN entries
        /\ \A i \in DOMAIN entries :
             /\ entries'[i].id = entries[i].id
             /\ entries'[i].good => entries[i].good \/ entries[i].id = load.id
    BY <1>4, SucceedCache
  <2>2. loads' = loads \ {load} /\ begun' = begun /\ current' = current
    BY <1>4 DEF ReadSucceeds
  <2>3. \A other \in loads' : other.id # load.id
    BY <2>2 DEF CacheInv
  <2>4. \A j \in DOMAIN entries' : \E i \in DOMAIN entries :
           /\ entries'[j].id = entries[i].id
           /\ entries'[j].good => entries[i].good \/ \A other \in loads' : other.id # entries[i].id
    BY <2>1, <2>3
  <2> QED
    BY <1>0, <2>1, <2>2, <2>4, SameBegun
<1>5. ASSUME NEW load \in loads, ReadFails(load)
      PROVE  CacheInv'
  <2>1. entries' \in Seq(CacheEntry) /\ Adopts(entries, entries')
    BY <1>5, FailCache
  <2>2. /\ loads' = loads \ {load} /\ begun' = begun
    BY <1>5 DEF ReadFails
  <2>3. \A j \in DOMAIN entries' : \E i \in DOMAIN entries :
           /\ entries'[j].id = entries[i].id
           /\ entries'[j].good => entries[i].good \/ \A other \in loads' : other.id # entries[i].id
    BY <2>1 DEF Adopts
  <2> QED
    BY <2>1, <2>2, <2>3, SameBegun
<1>6. CASE ExpireEntry
  <2>1. /\ entries' \in Seq(CacheEntry) /\ DOMAIN entries' = DOMAIN entries
        /\ \A i \in DOMAIN entries :
              entries'[i].id = entries[i].id /\ entries'[i].good = entries[i].good
    BY <1>6, ExpireCache
  <2>2. loads' = loads /\ begun' = begun /\ current' = current
    BY <1>6 DEF ExpireEntry
  <2>3. \A j \in DOMAIN entries' : \E i \in DOMAIN entries :
           /\ entries'[j].id = entries[i].id
           /\ entries'[j].good => entries[i].good \/ \A load \in loads' : load.id # entries[i].id
    BY <2>1
  <2> QED
    BY <1>0, <2>1, <2>2, <2>3, SameBegun
<1> QED
  BY <1>1, <1>2, <1>3, <1>4, <1>5, <1>6 DEF PriceNext

\* An answer leaves the cache when its time is up or to make room, never because
\* a read fails late, in whatever order the reads of a key end.
THEOREM GoodEntriesStay == PriceSpec => GoodEntryStays
<1> DEFINE Left(i) == /\ ~ \E j \in DOMAIN entries' : entries'[j].id = entries[i].id
                      /\ ~(i = 1 /\ Len(entries) >= MaxCache /\ begun' # begun)
<1>1. CircuitInv /\ CacheInv /\ [PriceNext]_priceVars
        => [\A i \in DOMAIN entries :
              entries[i].good /\ ~entries[i].expired =>
                \/ \E j \in DOMAIN entries' : entries'[j].id = entries[i].id
                \/ i = 1 /\ Len(entries) >= MaxCache /\ begun' # begun]_priceVars
  <2> SUFFICES ASSUME CircuitInv, CacheInv, PriceNext, NEW i \in DOMAIN entries,
                      entries[i].good, ~entries[i].expired, Left(i)
               PROVE  FALSE
    OBVIOUS
  <2>1. ASSUME NEW except, Keeps(entries, entries', except) PROVE i \in except
    BY <2>1 DEF Keeps
  <2>2. ASSUME NEW p \in Pricer, NEW key \in Sample, ~Fresh(key) PROVE i \notin Keyed(key)
    BY <2>2 DEF Fresh, Keyed
  <2>3. ASSUME NEW p \in Pricer, begun' = [begun EXCEPT ![p] = @ + 1] PROVE i \notin Oldest
    <3>1. begun' # begun
      BY <2>3 DEF CacheInv
    <3> QED
      BY <3>1 DEF Oldest
  <2>4. ASSUME NEW p \in Pricer, NEW key \in Sample, SkipRead(p, key) PROVE FALSE
    BY <2>1, <2>2, <2>3, <2>4, SkipCache DEF SkipRead
  <2>5. ASSUME NEW p \in Pricer, NEW key \in Sample, BeginRead(p, key) PROVE FALSE
    BY <2>1, <2>2, <2>3, <2>5, BeginCache DEF BeginRead
  <2>6. ASSUME NEW load \in loads, ReadSucceeds(load) PROVE FALSE
    BY <2>6, SucceedCache
  <2>7. ASSUME NEW load \in loads, ReadFails(load) PROVE FALSE
    <3>1. entries[i].id = load.id
      BY <2>1, <2>7, FailCache
    <3> QED
      BY <3>1 DEF CacheInv
  <2>8. CASE ExpireEntry
    BY <2>8, ExpireCache
  <2> QED
    BY <2>4, <2>5, <2>6, <2>7, <2>8 DEF PriceNext
<1>2. PriceInit => CacheInv
  BY DEF PriceInit, CacheInv
<1> QED
  BY <1>1, <1>2, StepCache, CircuitInvariant, PTL DEF PriceSpec, GoodEntryStays

-----------------------------------------------------------------------------
(* Coins by symbol: what the records are, and that every step keeps them so. *)

Results ==
  [coins : SUBSET Coin, gecko : BOOLEAN, partial : BOOLEAN, down : BOOLEAN,
   unconfirmed : BOOLEAN]
Scans == [coins : SUBSET Coin, truncated : BOOLEAN, failed : BOOLEAN]
Verdicts ==
  {"none", "resolved", "ambiguous", "one", "several", "scanned", "tokens", "not_found",
   "could_not_confirm"}
Asks ==
  [at : {"idle", "refresh", "vouch", "tickers", "hunting", "found", "scan", "walking", "done"},
   page : Nat, found : Results, scan : Scans, verdict : Verdicts]
Hunts ==
  [at : {"dex", "gecko", "pooled", "refresh", "vouch", "confirm"}, term : {1, 2},
   indexed : SUBSET Coin, cut : BOOLEAN, todo : SUBSET Coin, found : Results]
Flights == {[at |-> "list"]} \cup [at : {"metadata"}, fresh : SUBSET Coin]
Walks == [at : {"walk"}, page : Nat, coins : SUBSET Coin]

CoinTyped ==
  /\ pages \in Nat \ {0}
  /\ liveFlight \in {Nothing} \cup Flights
  /\ listed \subseteq Coin
  /\ hunt \in {Nothing} \cup Hunts
  /\ tickers \in {Nothing} \cup [at : {"cached"}, found : Results]
  /\ walk \in {Nothing} \cup Walks
  /\ tokens \in {Nothing} \cup [at : {"cached"}, scan : Scans]
  /\ asks \in [User -> Asks]


LEMMA RecordsTyped ==
  /\ NoResult \in Results /\ NoScan \in Scans /\ NewAsk \in Asks
  /\ NewHunt \in Hunts
  /\ NewWalk \in Walks
  /\ \A verdict \in Verdicts : Told(verdict) \in Asks
<1>1. NoResult \in Results /\ NoScan \in Scans
  BY DEF NoResult, Results, NoScan, Scans
<1>2. NewAsk \in Asks /\ NewHunt \in Hunts
  BY <1>1 DEF NewAsk, Asks, NewHunt, Hunts, Verdicts
<1>3. \A verdict \in Verdicts : Told(verdict) \in Asks
  BY <1>2 DEF Told, Asks
<1> QED
  BY <1>1, <1>2, <1>3 DEF NewWalk, Walks

\* A flight that lands moves only those who await it.
LEMMA LandedTyped ==
  ASSUME CoinTyped, Landed
  PROVE  asks' \in [User -> Asks] /\ hunt' \in {Nothing} \cup Hunts
<1>1. \A u \in User : asks'[u] \in Asks
  BY DEF CoinTyped, Landed, Asks
<1>2. asks' \in [User -> Asks]
  BY <1>1 DEF Landed
<1>3. hunt' \in {Nothing} \cup Hunts
  BY DEF CoinTyped, Landed, Hunts, Nothing
<1> QED
  BY <1>2, <1>3

LEMMA AskedTyped ==
  ASSUME CoinTyped
  PROVE  /\ FlightAsked \in {Nothing} \cup Flights
         /\ AfterRefresh \in {"refresh", "vouch"}
BY DEF CoinTyped, FlightAsked, AfterRefresh, Flights

LEMMA SetTyped ==
  ASSUME CoinTyped, NEW u \in User, NEW more \in Asks, Set(u, more)
  PROVE  asks' \in [User -> Asks]
BY DEF CoinTyped, Set

LEMMA EndUnfoundTyped ==
  ASSUME CoinTyped, NEW u \in User, NEW scan \in Scans, NEW told, EndUnfound(u, scan, told)
  PROVE  asks' \in [User -> Asks]
<1>1. asks[u] \in Asks
  BY DEF CoinTyped
<1>2. Unfound(asks[u].found, [scan EXCEPT !.failed = told]) \in Verdicts
  BY DEF Unfound, Verdicts
<1> QED
  BY <1>1, <1>2, SetTyped DEF EndUnfound, Asks

LEMMA HuntTyped ==
  ASSUME CoinTyped, hunt.at # "nothing"
  PROVE  hunt \in Hunts /\ hunt # Nothing
BY DEF CoinTyped, Nothing

\* What a page of pools adds: all a provider has of the symbol, unless it was cut.
Adds(page, all, cut) ==
  /\ page \subseteq all /\ (cut \/ page = all)
  /\ hunt'.indexed = hunt.indexed \cup page
  /\ hunt'.cut = (hunt.cut \/ cut)
  /\ hunt'.todo = hunt.todo

LEMMA DexAdds ==
  ASSUME CoinTyped, ReadPools, hunt.at = "dex"
  PROVE  /\ hunt' \in Hunts /\ hunt'.term = 2 /\ hunt'.at \in {"dex", "gecko", "pooled"}
         /\ hunt'.found = hunt.found
         /\ \E page \in SUBSET Dex, cut \in BOOLEAN : Adds(page, Dex, cut)
<1>1. hunt \in Hunts
  BY HuntTyped
<1>2. PICK cut \in BOOLEAN : \E page \in (IF cut THEN SUBSET Dex ELSE {Dex}) :
        hunt' = [hunt EXCEPT
                   !.indexed = hunt.indexed \cup page, !.cut = hunt.cut \/ cut, !.term = 2,
                   !.at = CASE hunt.term = 1 -> "dex"
                            [] hunt.indexed \cup page # {} /\ ~(hunt.cut \/ cut) -> "pooled"
                            [] OTHER -> "gecko"]
  BY DEF ReadPools
<1>3. PICK page \in (IF cut THEN SUBSET Dex ELSE {Dex}) :
        hunt' = [hunt EXCEPT
                   !.indexed = hunt.indexed \cup page, !.cut = hunt.cut \/ cut, !.term = 2,
                   !.at = CASE hunt.term = 1 -> "dex"
                            [] hunt.indexed \cup page # {} /\ ~(hunt.cut \/ cut) -> "pooled"
                            [] OTHER -> "gecko"]
  BY <1>2
<1> DEFINE at == CASE hunt.term = 1 -> "dex"
                   [] hunt.indexed \cup page # {} /\ ~(hunt.cut \/ cut) -> "pooled"
                   [] OTHER -> "gecko"
<1>4. at \in {"dex", "gecko", "pooled"}
  OBVIOUS
<1>5. hunt' = [hunt EXCEPT !.indexed = hunt.indexed \cup page, !.cut = hunt.cut \/ cut,
                           !.term = 2, !.at = at]
  BY <1>3
<1> HIDE DEF at
<1>6. page \subseteq Dex /\ (cut \/ page = Dex) /\ Dex \subseteq Coin
  BY DEF Dex
<1>7. Adds(page, Dex, cut)
  BY <1>1, <1>5, <1>6 DEF Hunts, Adds
<1>8. /\ hunt' \in Hunts /\ hunt'.term = 2 /\ hunt'.at = at /\ hunt'.found = hunt.found
  BY <1>1, <1>4, <1>5, <1>6 DEF Hunts
<1> QED
  BY <1>4, <1>6, <1>7, <1>8

LEMMA GeckoAdds ==
  ASSUME CoinTyped, ReadPools, hunt.at # "dex"
  PROVE  /\ hunt.at = "gecko" /\ hunt' \in Hunts /\ hunt'.term = hunt.term
         /\ hunt'.at = "pooled" /\ hunt'.found = [hunt.found EXCEPT !.gecko = TRUE]
         /\ \E page \in SUBSET Gecko, cut \in BOOLEAN : Adds(page, Gecko, cut)
<1>1. hunt \in Hunts
  BY HuntTyped DEF ReadPools
<1>2. PICK cut \in BOOLEAN, page \in SUBSET Gecko :
        (cut \/ page = Gecko) /\ hunt' = [hunt EXCEPT !.indexed = @ \cup page, !.cut = (@ \/ cut),
                             !.found.gecko = TRUE, !.at = "pooled"]
  BY HuntTyped DEF ReadPools
<1>3. page \subseteq Gecko /\ (cut \/ page = Gecko) /\ Gecko \subseteq Coin
  BY <1>2 DEF Gecko
<1>4. hunt.at = "gecko"
  BY DEF ReadPools
<1>5. hunt'.at = "pooled" /\ hunt'.term = hunt.term /\ hunt'.found = [hunt.found EXCEPT !.gecko = TRUE]
  BY <1>1, <1>2 DEF Hunts
<1>6. hunt' \in Hunts
  BY <1>1, <1>2, <1>3 DEF Hunts, Results
<1>7. Adds(page, Gecko, cut)
  BY <1>1, <1>2, <1>3 DEF Hunts, Adds
<1> QED
  BY <1>3, <1>4, <1>5, <1>6, <1>7

LEMMA PoolsFailOutcome ==
  ASSUME CoinTyped, PoolsFail
  PROVE  /\ hunt' \in Hunts /\ hunt'.at = (IF hunt.at = "dex" THEN "gecko" ELSE "pooled")
         /\ hunt'.found = [hunt.found EXCEPT !.down = TRUE]
         /\ hunt'.indexed = hunt.indexed /\ hunt'.cut = hunt.cut /\ hunt'.todo = hunt.todo
<1>1. hunt \in Hunts
  BY HuntTyped DEF PoolsFail
<1> QED
  BY <1>1 DEF PoolsFail, Hunts, Results

LEMMA HuntRefreshOutcome ==
  ASSUME CoinTyped, HuntRefresh
  PROVE  /\ hunt.at = "pooled" /\ hunt' \in Hunts /\ hunt'.at \in {"refresh", "vouch"}
         /\ hunt'.found = hunt.found /\ hunt'.indexed = hunt.indexed
         /\ hunt'.cut = hunt.cut /\ hunt'.todo = hunt.todo
<1>1. hunt \in Hunts
  BY HuntTyped DEF HuntRefresh
<1> QED
  BY <1>1, AskedTyped DEF HuntRefresh, Hunts

LEMMA PickTopOutcome ==
  ASSUME CoinTyped, PickTop
  PROVE  /\ hunt.at = "vouch" /\ hunt' \in Hunts /\ hunt'.at = "confirm"
         /\ hunt'.indexed = hunt.indexed /\ hunt'.todo \in TopOf(hunt.indexed)
         /\ hunt'.found = [hunt.found EXCEPT !.partial =
              (hunt.cut \/ hunt.found.down \/ Cardinality(hunt.indexed) > MaxCandidates)]
<1>1. hunt \in Hunts /\ hunt.at = "vouch"
  BY HuntTyped DEF PickTop
<1> DEFINE partial == hunt.cut \/ hunt.found.down \/ Cardinality(hunt.indexed) > MaxCandidates
<1>2. PICK top \in TopOf(hunt.indexed) :
        hunt' = [hunt EXCEPT !.at = "confirm", !.todo = top, !.found.partial = partial]
  BY DEF PickTop
<1>3. top \subseteq Coin
  BY <1>1, <1>2 DEF TopOf, Hunts
<1>4. partial \in BOOLEAN
  OBVIOUS
<1> HIDE DEF partial
<1>5. hunt' \in Hunts
  BY <1>1, <1>2, <1>3, <1>4 DEF Hunts, Results
<1>6. /\ hunt'.at = "confirm" /\ hunt'.indexed = hunt.indexed /\ hunt'.todo = top
      /\ hunt'.found = [hunt.found EXCEPT !.partial = partial]
  BY <1>1, <1>2 DEF Hunts
<1> QED
  BY <1>1, <1>2, <1>5, <1>6 DEF partial

LEMMA ConfirmOutcome ==
  ASSUME CoinTyped, NEW c \in Coin, Confirm(c)
  PROVE  /\ hunt.at = "confirm" /\ c \in hunt.todo /\ hunt' \in Hunts /\ hunt'.at = "confirm"
         /\ hunt'.indexed = hunt.indexed /\ hunt'.cut = hunt.cut /\ hunt'.todo = hunt.todo \ {c}
         /\ hunt'.found.gecko = hunt.found.gecko /\ hunt'.found.partial = hunt.found.partial
         /\ hunt'.found.down = hunt.found.down
         /\ \/ /\ hunt'.found.unconfirmed = hunt.found.unconfirmed
               /\ hunt'.found.coins = IF Alike(c) THEN hunt.found.coins \cup {c}
                                                  ELSE hunt.found.coins
            \/ hunt'.found.unconfirmed
<1>1. hunt \in Hunts /\ hunt.at = "confirm" /\ c \in hunt.todo
  BY HuntTyped DEF Confirm
<1>2. PICK read \in BOOLEAN :
        hunt' = [hunt EXCEPT !.todo = @ \ {c},
                             !.found.coins = IF read /\ Alike(c) THEN @ \cup {c} ELSE @,
                             !.found.unconfirmed = (@ \/ ~read)]
  BY DEF Confirm
<1> DEFINE coins == IF read /\ Alike(c) THEN hunt.found.coins \cup {c} ELSE hunt.found.coins
<1>3. coins \subseteq Coin
  BY <1>1 DEF Hunts, Results
<1>4. hunt' = [hunt EXCEPT !.todo = hunt.todo \ {c}, !.found.coins = coins,
                           !.found.unconfirmed = (hunt.found.unconfirmed \/ ~read)]
  BY <1>1, <1>2 DEF Hunts, Results
<1>5. coins = IF read /\ Alike(c) THEN hunt.found.coins \cup {c} ELSE hunt.found.coins
  OBVIOUS
<1> HIDE DEF coins
<1>6. hunt' \in Hunts
  BY <1>1, <1>3, <1>4 DEF Hunts, Results
<1>7. /\ hunt'.at = "confirm" /\ hunt'.indexed = hunt.indexed /\ hunt'.cut = hunt.cut
      /\ hunt'.todo = hunt.todo \ {c} /\ hunt'.found.coins = coins
      /\ hunt'.found.unconfirmed = (hunt.found.unconfirmed \/ ~read)
      /\ hunt'.found.gecko = hunt.found.gecko /\ hunt'.found.partial = hunt.found.partial
      /\ hunt'.found.down = hunt.found.down
  BY <1>1, <1>4 DEF Hunts, Results
<1>8. hunt.found.unconfirmed \in BOOLEAN
  BY <1>1 DEF Hunts, Results
<1>9. CASE read
  BY <1>1, <1>5, <1>6, <1>7, <1>8, <1>9
<1>10. CASE ~read
  BY <1>1, <1>6, <1>7, <1>8, <1>10
<1> QED
  BY <1>9, <1>10

LEMMA EndHuntOutcome ==
  ASSUME CoinTyped, EndHunt
  PROVE  /\ hunt \in Hunts /\ hunt.at = "confirm" /\ hunt.todo = {} /\ hunt' = Nothing
         /\ \/ tickers' = tickers
            \/ tickers' = [at |-> "cached", found |-> hunt.found]
         /\ asks' \in [User -> Asks]
         /\ \A u \in User :
              \/ asks'[u] = asks[u] /\ asks[u].at # "hunting"
              \/ /\ asks[u].at = "hunting" /\ asks'[u].at = "found"
                 /\ asks'[u].found = hunt.found /\ asks'[u].verdict = asks[u].verdict
                 /\ asks'[u].scan = asks[u].scan /\ asks'[u].page = asks[u].page
<1>1. hunt \in Hunts /\ hunt.at = "confirm" /\ hunt.todo = {}
  BY HuntTyped DEF EndHunt
<1>2. hunt.found \in Results
  BY <1>1 DEF Hunts
<1>3. \A u \in User :
        /\ asks'[u] \in Asks
        /\ \/ asks'[u] = asks[u] /\ asks[u].at # "hunting"
           \/ /\ asks[u].at = "hunting" /\ asks'[u].at = "found"
              /\ asks'[u].found = hunt.found /\ asks'[u].verdict = asks[u].verdict
              /\ asks'[u].scan = asks[u].scan /\ asks'[u].page = asks[u].page
  <2> SUFFICES ASSUME NEW u \in User
               PROVE  /\ asks'[u] \in Asks
                      /\ \/ asks'[u] = asks[u] /\ asks[u].at # "hunting"
                         \/ /\ asks[u].at = "hunting" /\ asks'[u].at = "found"
                            /\ asks'[u].found = hunt.found /\ asks'[u].verdict = asks[u].verdict
                            /\ asks'[u].scan = asks[u].scan /\ asks'[u].page = asks[u].page
    OBVIOUS
  <2>1. asks[u] \in Asks
    BY DEF CoinTyped
  <2>2. asks'[u] = IF asks[u].at = "hunting"
                   THEN [asks[u] EXCEPT !.at = "found", !.found = hunt.found]
                   ELSE asks[u]
    BY DEF EndHunt
  <2> QED
    BY <1>2, <2>1, <2>2 DEF Asks
<1>4. asks' \in [User -> Asks]
  BY <1>3 DEF EndHunt
<1> QED
  BY <1>1, <1>3, <1>4 DEF EndHunt

LEMMA SettleTyped ==
  ASSUME CoinTyped, NEW u \in User, Settle(u)
  PROVE  /\ asks' \in [User -> Asks]
         /\ walk' \in {Nothing} \cup Walks
<1>1. asks[u] \in Asks /\ asks[u].at = "found"
  BY DEF CoinTyped, Settle
<1>2. tokens # Nothing => tokens.scan \in Scans
  BY DEF CoinTyped
<1>3. \A verdict \in Verdicts : Done(u, verdict) => asks' \in [User -> Asks]
  BY RecordsTyped, SetTyped DEF Done
<1>4. \A at \in {"scan", "walking"} : [asks[u] EXCEPT !.at = at] \in Asks
  BY <1>1 DEF Asks
<1>5. [Told("one") EXCEPT !.found = asks[u].found] \in Asks
  <2>1. Told("one") \in Asks
    BY RecordsTyped DEF Verdicts
  <2> QED
    BY <1>1, <2>1 DEF Asks
<1>6. {"one", "several", "scanned", "tokens"} \subseteq Verdicts
  BY DEF Verdicts
<1>7. CASE u \in Asker
  <2> DEFINE exact == { c \in asks[u].found.coins : Exact(c) }
  <2>1. /\ CASE Cardinality(exact) = 1 ->
                  Set(u, [Told("one") EXCEPT !.found = asks[u].found])
             [] Cardinality(exact) > 1 -> Done(u, "several")
             [] exact = {} /\ symbolKnown -> Done(u, "scanned")
             [] exact = {} /\ ~symbolKnown /\ tokens # Nothing ->
                  IF \E c \in tokens.scan.coins : Exact(c)
                  THEN Done(u, "scanned")
                  ELSE EndUnfound(u, tokens.scan, FALSE)
             [] OTHER -> Set(u, [asks[u] EXCEPT !.at = "scan"])
        /\ UNCHANGED walk
    BY <1>7 DEF Settle
  <2> HIDE DEF exact
  <2>2. \/ Set(u, [Told("one") EXCEPT !.found = asks[u].found])
        \/ Done(u, "several") \/ Done(u, "scanned")
        \/ tokens # Nothing /\ EndUnfound(u, tokens.scan, FALSE)
        \/ Set(u, [asks[u] EXCEPT !.at = "scan"])
    BY <2>1
  <2> QED
    BY <1>2, <1>3, <1>4, <1>5, <1>6, <2>1, <2>2, SetTyped, EndUnfoundTyped DEF CoinTyped
<1>8. CASE u \notin Asker
  <2>1. \/ Done(u, "tokens") /\ UNCHANGED walk
        \/ /\ Set(u, [asks[u] EXCEPT !.at = "walking"])
           /\ walk' = IF walk = Nothing THEN NewWalk ELSE walk
    BY <1>8 DEF Settle
  <2> QED
    BY <1>3, <1>4, <1>6, <2>1, SetTyped, RecordsTyped DEF CoinTyped
<1> QED
  BY <1>7, <1>8

LEMMA EndWalkTyped ==
  ASSUME CoinTyped, NEW scan \in Scans, EndWalk(scan)
  PROVE  /\ asks' \in [User -> Asks] /\ walk' = Nothing
         /\ tokens' \in {Nothing} \cup [at : {"cached"}, scan : Scans]
<1>1. Told("tokens") \in Asks
  BY RecordsTyped DEF Verdicts
<1>2. asks' \in [User -> Asks]
  BY <1>1 DEF EndWalk, CoinTyped
<1> QED
  BY <1>2 DEF EndWalk, CoinTyped

LEMMA StepCoinTyped ==
  ASSUME CoinTyped, [CoinNext]_coinVars
  PROVE  CoinTyped'
<1> USE DEF truth, list, live, search, scans
<1>1. CASE Relist
  BY <1>1 DEF Relist, CoinTyped
<1>2. CASE FetchLive \/ FetchLiveFails
  <2>1. /\ UNCHANGED <<pages, listed, tickers, walk, tokens>>
        /\ \/ Landed
           \/ UNCHANGED <<asks, hunt>> /\ liveFlight' = [at |-> "metadata", fresh |-> listed]
    BY <1>2 DEF FetchLive, FetchLiveFails
  <2>2. CASE Landed
    BY <2>1, <2>2, LandedTyped DEF CoinTyped, Landed
  <2>3. CASE UNCHANGED <<asks, hunt>> /\ liveFlight' = [at |-> "metadata", fresh |-> listed]
    BY <2>1, <2>3 DEF CoinTyped, Flights
  <2> QED
    BY <2>1, <2>2, <2>3
<1>3. CASE ReadPools
  <2>1. hunt' \in Hunts
    BY <1>3, DexAdds, GeckoAdds
  <2> QED
    BY <1>3, <2>1 DEF ReadPools, CoinTyped
<1>4. CASE PoolsFail
  BY <1>4, PoolsFailOutcome DEF PoolsFail, CoinTyped
<1>5. CASE HuntRefresh
  BY <1>5, HuntRefreshOutcome, AskedTyped DEF HuntRefresh, CoinTyped
<1>6. CASE PickTop
  BY <1>6, PickTopOutcome DEF PickTop, CoinTyped
<1>7. CASE EndHunt
  <2>1. tickers' \in {Nothing} \cup [at : {"cached"}, found : Results]
    BY <1>7, EndHuntOutcome DEF CoinTyped, Hunts
  <2> QED
    BY <1>7, <2>1, EndHuntOutcome DEF EndHunt, CoinTyped
<1>8. ASSUME NEW c \in Coin, Confirm(c)
      PROVE  CoinTyped'
  BY <1>8, ConfirmOutcome DEF Confirm, CoinTyped
<1>9. ASSUME NEW u \in User, Begin(u)
      PROVE  CoinTyped'
  <2>1. \A at \in {"refresh", "vouch", "tickers"} : [NewAsk EXCEPT !.at = at] \in Asks
    BY RecordsTyped DEF Asks
  <2>2. asks' \in [User -> Asks]
    BY <1>9, <2>1, AskedTyped, SetTyped DEF Begin
  <2>3. liveFlight' = liveFlight \/ liveFlight' = FlightAsked
    BY <1>9 DEF Begin
  <2> QED
    BY <1>9, <2>2, <2>3, AskedTyped DEF Begin, CoinTyped
<1>10. ASSUME NEW u \in User, Vouch(u)
       PROVE  CoinTyped'
  <2>1. /\ Told("resolved") \in Asks /\ Told("ambiguous") \in Asks
        /\ [asks[u] EXCEPT !.at = "tickers"] \in Asks
    BY RecordsTyped DEF CoinTyped, Asks, Verdicts
  <2>2. \E more \in Asks : Set(u, more)
    BY <1>10, <2>1 DEF Vouch, Done
  <2>3. asks' \in [User -> Asks]
    BY <2>2, SetTyped
  <2> QED
    BY <1>10, <2>3 DEF Vouch, CoinTyped
<1>11. ASSUME NEW u \in User, SearchTickers(u)
       PROVE  CoinTyped'
  <2>1. asks[u] \in Asks /\ (tickers # Nothing => tickers.found \in Results)
    BY DEF CoinTyped
  <2>2. /\ tickers # Nothing => [asks[u] EXCEPT !.at = "found", !.found = tickers.found] \in Asks
        /\ [asks[u] EXCEPT !.at = "hunting"] \in Asks
    BY <2>1 DEF Asks
  <2>3. asks' \in [User -> Asks]
    BY <1>11, <2>2, SetTyped DEF SearchTickers
  <2>4. hunt' \in {Nothing} \cup Hunts
    BY <1>11, RecordsTyped DEF SearchTickers, CoinTyped
  <2> QED
    BY <1>11, <2>3, <2>4 DEF SearchTickers, CoinTyped
<1>12. ASSUME NEW u \in User, Settle(u)
       PROVE  CoinTyped'
  BY <1>12, SettleTyped DEF Settle, CoinTyped
<1>13. ASSUME NEW u \in Asker, ScanPage(u) \/ ScanFails(u)
       PROVE  CoinTyped'
  <2>1. u \in User /\ asks[u] \in Asks
    BY DEF User, CoinTyped
  <2>2. Report(asks[u].page, {}) \in Scans /\ Broken({}) \in Scans
    BY DEF Report, Broken, Scans
  <2>3. [asks[u] EXCEPT !.page = asks[u].page + 1] \in Asks
    BY <2>1 DEF Asks
  <2>4. Told("scanned") \in Asks
    BY RecordsTyped DEF Verdicts
  <2>5. asks' \in [User -> Asks]
    BY <1>13, <2>1, <2>2, <2>3, <2>4, SetTyped, EndUnfoundTyped DEF ScanPage, ScanFails, Done
  <2> QED
    BY <1>13, <2>5 DEF ScanPage, ScanFails, CoinTyped
<1>14. CASE WalkPage
  <2> DEFINE coins == walk.coins \cup OnPage(walk.page)
  <2>1. walk \in Walks /\ walk.page + 1 \in Nat /\ coins \in SUBSET Coin
    BY <1>14 DEF WalkPage, CoinTyped, OnPage, Walks
  <2>2. Report(walk.page, coins) \in Scans /\ Broken(walk.coins) \in Scans
    BY <2>1 DEF Report, Broken, Scans, Walks
  <2>3. \/ EndWalk(Report(walk.page, coins)) \/ EndWalk(Broken(walk.coins))
        \/ /\ walk' = [walk EXCEPT !.page = @ + 1, !.coins = coins]
           /\ UNCHANGED <<tokens, asks>>
    BY <1>14 DEF WalkPage
  <2> HIDE DEF coins
  <2>4. [walk EXCEPT !.page = @ + 1, !.coins = coins] \in Walks
    BY <2>1 DEF Walks
  <2>5. UNCHANGED <<pages, liveFlight, listed, hunt, tickers>>
    BY <1>14 DEF WalkPage
  <2> QED
    BY <2>2, <2>3, <2>4, <2>5, EndWalkTyped DEF CoinTyped
<1>15. CASE Expire
  BY <1>15 DEF Expire, CoinTyped
<1>16. CASE UNCHANGED coinVars
  BY <1>16 DEF coinVars, CoinTyped
<1> QED
  BY <1>1, <1>2, <1>3, <1>4, <1>5, <1>6, <1>7, <1>8, <1>9, <1>10, <1>11, <1>12, <1>13,
     <1>14, <1>15, <1>16 DEF CoinNext

\* The coins of the symbol on the first pages of metadata are among these.
Reached(n, coins) == \A c \in Coin : Exact(c) /\ market[c].page \in 1..n => c \in coins

\* What the providers that were read have of the symbol.
Seen(found) == Dex \cup (IF found.gecko THEN Gecko ELSE {})
Whole(found) ==
  ~found.partial /\ ~found.unconfirmed => found.coins = { c \in Seen(found) : Alike(c) }

\* A scan, and a walk for every token, has what it passed.
WalkSound == walk # Nothing => walk.page \in 1..pages /\ Reached(walk.page - 1, walk.coins)

\* A search has all that its providers have, unless a page was cut or failed; and
\* of that it has confirmed what it need not confirm any more.
HuntSound ==
  hunt # Nothing =>
    /\ hunt.todo \subseteq hunt.indexed /\ hunt.indexed \subseteq Seen(hunt.found)
    /\ hunt.at \in {"dex", "gecko"} => ~hunt.found.gecko
    /\ hunt.at = "dex" => ~hunt.found.down
    /\ hunt.at # "dex" \/ hunt.term = 2 =>
         (~hunt.cut /\ ~hunt.found.down => hunt.indexed = Seen(hunt.found))
    /\ hunt.at # "confirm" => hunt.found.coins = {} /\ ~hunt.found.unconfirmed
    /\ hunt.at = "confirm" /\ ~hunt.found.partial /\ ~hunt.found.unconfirmed =>
         hunt.found.coins = { c \in Seen(hunt.found) \ hunt.todo : Alike(c) }

\* What is cached did not fail.
TickersSound == tickers # Nothing => Whole(tickers.found)
TokensSound ==
  tokens # Nothing =>
    ~tokens.scan.failed /\ (~tokens.scan.truncated => Reached(pages, tokens.scan.coins))

AskSound(ask) ==
  /\ ask.at \notin {"scan", "done"} => ask.page = 1
  /\ ask.at # "done" => ask.verdict = "none"
  /\ ask.at = "scan" => ask.page \in 1..pages /\ Reached(ask.page - 1, {})
  /\ ask.at = "found" => Whole(ask.found)
  /\ ask.verdict = "not_found" =>
       /\ ~ask.found.down /\ ~ask.found.unconfirmed /\ ~ask.scan.failed
       /\ ~ask.scan.truncated => Reached(pages, {})
  /\ ask.verdict = "one" /\ ~ask.found.partial /\ ~ask.found.unconfirmed =>
       Cardinality({ c \in Seen(ask.found) : Exact(c) }) = 1

AsksSound == \A u \in User : AskSound(asks[u])

CoinInv == CoinTyped /\ WalkSound /\ HuntSound /\ TickersSound /\ TokensSound /\ AsksSound

-----------------------------------------------------------------------------
(* Searches. *)

\* No step changes what is true of the coins, so what was found stays true.
LEMMA TruthStays ==
  ASSUME [CoinNext]_coinVars
  PROVE  UNCHANGED truth
BY DEF CoinNext, coinVars, truth, Relist, FetchLive, FetchLiveFails, ReadPools, PoolsFail,
       HuntRefresh, PickTop, EndHunt, Confirm, Begin, Vouch, SearchTickers, Settle, ScanPage,
       ScanFails, WalkPage, Expire

\* What is looked up is all that was found unless that is too much.
LEMMA TopIsAll ==
  ASSUME NEW indexed, indexed \subseteq Coin, NEW top \in TopOf(indexed),
         ~(Cardinality(indexed) > MaxCandidates)
  PROVE  top = indexed
<1>1. IsFiniteSet(indexed) /\ top \in SUBSET indexed
  BY CoinSearchAssumption, FS_Subset DEF TopOf
<1>2. IsFiniteSet(top)
  BY <1>1, FS_Subset
<1>3. Cardinality(indexed) \in Nat /\ Cardinality(top) \in Nat /\ MaxCandidates \in Nat
  BY <1>1, <1>2, FS_CardinalityType, CoinSearchAssumption
<1>4. /\ Cardinality(top) <= Cardinality(indexed)
      /\ Cardinality(indexed) = Cardinality(top) => indexed = top
  BY <1>1, FS_Subset
<1>5. top = indexed \/ Cardinality(top) = MaxCandidates
  BY DEF TopOf
<1> QED
  BY <1>3, <1>4, <1>5

LEMMA TopIsIndexed ==
  ASSUME NEW indexed, NEW top \in TopOf(indexed)
  PROVE  top \subseteq indexed
BY DEF TopOf

LEMMA DexSound ==
  ASSUME CoinTyped, HuntSound, ReadPools, hunt.at = "dex", UNCHANGED truth
  PROVE  HuntSound'
<1>1. /\ hunt \in Hunts /\ hunt # Nothing /\ hunt' \in Hunts /\ hunt'.term = 2
      /\ hunt'.at \in {"dex", "gecko", "pooled"} /\ hunt'.found = hunt.found
  BY HuntTyped, DexAdds
<1>2. PICK page \in SUBSET Dex, cut \in BOOLEAN : Adds(page, Dex, cut)
  BY DexAdds
<1>3. /\ ~hunt.found.gecko /\ ~hunt.found.down /\ Seen(hunt.found) = Dex
      /\ hunt.indexed \subseteq Dex /\ hunt.todo \subseteq hunt.indexed
      /\ hunt.found.coins = {} /\ ~hunt.found.unconfirmed
  BY <1>1 DEF HuntSound, Seen
<1>4. /\ hunt'.todo \subseteq hunt'.indexed /\ hunt'.indexed \subseteq Dex
      /\ ~hunt'.cut => hunt'.indexed = Dex
  BY <1>2, <1>3 DEF Adds
<1>5. Seen(hunt.found)' = Dex
  BY <1>1, <1>3 DEF Seen, Dex, truth
<1> QED
  BY <1>1, <1>3, <1>4, <1>5 DEF HuntSound

LEMMA GeckoSound ==
  ASSUME CoinTyped, HuntSound, ReadPools, hunt.at # "dex", UNCHANGED truth
  PROVE  HuntSound'
<1>1. /\ hunt \in Hunts /\ hunt # Nothing /\ hunt.at = "gecko" /\ hunt' \in Hunts
      /\ hunt'.at = "pooled" /\ hunt'.found = [hunt.found EXCEPT !.gecko = TRUE]
  BY HuntTyped, GeckoAdds
<1>2. PICK page \in SUBSET Gecko, cut \in BOOLEAN : Adds(page, Gecko, cut)
  BY GeckoAdds
<1>3. /\ hunt'.found.gecko /\ hunt'.found.down = hunt.found.down
      /\ hunt'.found.coins = hunt.found.coins /\ hunt'.found.unconfirmed = hunt.found.unconfirmed
  BY <1>1 DEF Hunts, Results
<1>4. /\ Seen(hunt.found) = Dex /\ hunt.indexed \subseteq Dex
      /\ hunt.todo \subseteq hunt.indexed
      /\ ~hunt.cut /\ ~hunt.found.down => hunt.indexed = Dex
      /\ hunt.found.coins = {} /\ ~hunt.found.unconfirmed
  BY <1>1 DEF HuntSound, Seen
<1>5. Seen(hunt.found)' = Dex \cup Gecko
  BY <1>3 DEF Seen, Dex, Gecko, truth
<1>6. /\ hunt'.todo \subseteq hunt'.indexed /\ hunt'.indexed \subseteq Dex \cup Gecko
      /\ ~hunt'.cut /\ ~hunt'.found.down => hunt'.indexed = Dex \cup Gecko
  BY <1>2, <1>3, <1>4 DEF Adds
<1> QED
  BY <1>1, <1>3, <1>4, <1>5, <1>6 DEF HuntSound

LEMMA PoolsFailSound ==
  ASSUME CoinTyped, HuntSound, PoolsFail, UNCHANGED truth
  PROVE  HuntSound'
<1>1. /\ hunt \in Hunts /\ hunt # Nothing /\ hunt.at \in {"dex", "gecko"}
      /\ hunt' \in Hunts /\ hunt'.at = (IF hunt.at = "dex" THEN "gecko" ELSE "pooled")
      /\ hunt'.found = [hunt.found EXCEPT !.down = TRUE]
      /\ hunt'.indexed = hunt.indexed /\ hunt'.todo = hunt.todo
  BY HuntTyped, PoolsFailOutcome DEF PoolsFail
<1>2. /\ hunt'.found.down /\ hunt'.found.gecko = hunt.found.gecko
      /\ hunt'.found.coins = hunt.found.coins /\ hunt'.found.unconfirmed = hunt.found.unconfirmed
  BY <1>1 DEF Hunts, Results
<1>3. Seen(hunt.found)' = Seen(hunt.found)
  BY <1>2 DEF Seen, Dex, Gecko, truth
<1> QED
  BY <1>1, <1>2, <1>3 DEF HuntSound

LEMMA HuntRefreshSound ==
  ASSUME CoinTyped, HuntSound, HuntRefresh, UNCHANGED truth
  PROVE  HuntSound'
<1>1. /\ hunt \in Hunts /\ hunt # Nothing /\ hunt.at = "pooled"
      /\ hunt'.at \in {"refresh", "vouch"} /\ hunt'.found = hunt.found
      /\ hunt'.indexed = hunt.indexed /\ hunt'.todo = hunt.todo /\ hunt'.cut = hunt.cut
  BY HuntTyped, HuntRefreshOutcome
<1>2. Seen(hunt.found)' = Seen(hunt.found)
  BY <1>1 DEF Seen, Dex, Gecko, truth
<1> QED
  BY <1>1, <1>2 DEF HuntSound

LEMMA PickTopSound ==
  ASSUME CoinTyped, HuntSound, PickTop, UNCHANGED truth
  PROVE  HuntSound'
<1>1. /\ hunt \in Hunts /\ hunt # Nothing /\ hunt.at = "vouch" /\ hunt'.at = "confirm"
      /\ hunt'.indexed = hunt.indexed /\ hunt'.todo \in TopOf(hunt.indexed)
      /\ hunt'.found = [hunt.found EXCEPT !.partial =
           (hunt.cut \/ hunt.found.down \/ Cardinality(hunt.indexed) > MaxCandidates)]
      /\ hunt.indexed \subseteq Coin
  BY HuntTyped, PickTopOutcome DEF Hunts
<1>2. /\ hunt'.found.down = hunt.found.down /\ hunt'.found.gecko = hunt.found.gecko
      /\ hunt'.found.coins = hunt.found.coins /\ hunt'.found.unconfirmed = hunt.found.unconfirmed
      /\ ~hunt'.found.partial =>
           ~hunt.cut /\ ~hunt.found.down /\ ~(Cardinality(hunt.indexed) > MaxCandidates)
  BY <1>1 DEF Hunts, Results
<1>3. Seen(hunt.found)' = Seen(hunt.found)
  BY <1>2 DEF Seen, Dex, Gecko, truth
<1>4. ~hunt'.found.partial => hunt'.todo = Seen(hunt.found)
  BY <1>1, <1>2, TopIsAll DEF HuntSound
<1>5. hunt'.cut = hunt.cut
  BY <1>1 DEF PickTop, Hunts
<1>6. hunt'.todo \subseteq hunt'.indexed
  BY <1>1, TopIsIndexed
<1> QED
  BY <1>1, <1>2, <1>3, <1>4, <1>5, <1>6 DEF HuntSound

LEMMA ConfirmSound ==
  ASSUME CoinTyped, HuntSound, NEW c \in Coin, Confirm(c), UNCHANGED truth
  PROVE  HuntSound'
<1>1. /\ hunt.at = "confirm" /\ c \in hunt.todo /\ hunt' \in Hunts /\ hunt'.at = "confirm"
      /\ hunt'.indexed = hunt.indexed /\ hunt'.cut = hunt.cut /\ hunt'.todo = hunt.todo \ {c}
      /\ hunt'.found.gecko = hunt.found.gecko /\ hunt'.found.partial = hunt.found.partial
      /\ hunt'.found.down = hunt.found.down
      /\ \/ /\ hunt'.found.unconfirmed = hunt.found.unconfirmed
            /\ hunt'.found.coins = IF Alike(c) THEN hunt.found.coins \cup {c}
                                               ELSE hunt.found.coins
         \/ hunt'.found.unconfirmed
  BY ConfirmOutcome
<1>2. hunt \in Hunts /\ hunt # Nothing
  BY HuntTyped, <1>1
<1>3. Seen(hunt.found)' = Seen(hunt.found) /\ \A d : Alike(d)' <=> Alike(d)
  BY <1>1 DEF Seen, Dex, Gecko, Alike, truth
<1>4. c \in Seen(hunt.found)
  BY <1>1, <1>2 DEF HuntSound
<1>5. ASSUME ~hunt'.found.partial, ~hunt'.found.unconfirmed
      PROVE  hunt'.found.coins = { d \in Seen(hunt.found) \ hunt'.todo : Alike(d) }
  <2>1. hunt.found.coins = { d \in Seen(hunt.found) \ hunt.todo : Alike(d) }
    BY <1>1, <1>2, <1>5 DEF HuntSound
  <2> QED
    BY <1>1, <1>4, <1>5, <2>1
<1> QED
  BY <1>1, <1>2, <1>3, <1>5 DEF HuntSound

-----------------------------------------------------------------------------
(* Calls. *)

LEMMA ToldSound ==
  ASSUME NEW verdict \in Verdicts \ {"not_found", "one"}
  PROVE  AskSound(Told(verdict))
<1>1. Told(verdict).at = "done" /\ Told(verdict).verdict = verdict
  BY DEF Told, NewAsk
<1> QED
  BY <1>1 DEF AskSound

\* A call that has not answered and goes on with nothing found.
LEMMA MovedSound ==
  ASSUME NEW ask \in Asks, AskSound(ask), ask.at \notin {"scan", "done"},
         NEW at \in {"refresh", "vouch", "tickers", "hunting", "walking"}
  PROVE  AskSound([ask EXCEPT !.at = at])
<1>1. /\ [ask EXCEPT !.at = at].at = at /\ [ask EXCEPT !.at = at].page = ask.page
      /\ [ask EXCEPT !.at = at].verdict = ask.verdict
  BY DEF Asks
<1> QED
  BY <1>1 DEF AskSound

LEMMA SetSound ==
  ASSUME CoinTyped, AsksSound, NEW u \in User, NEW more, Set(u, more), AskSound(more),
         UNCHANGED truth
  PROVE  AsksSound'
<1>1. \A q \in User : AskSound(asks'[q])
  BY DEF CoinTyped, AsksSound, Set
<1> QED
  BY <1>1 DEF AsksSound, AskSound, Reached, Whole, Seen, Dex, Gecko, Exact, Alike, truth

LEMMA EndUnfoundSound ==
  ASSUME CoinTyped, AsksSound, NEW u \in User, NEW scan \in Scans, NEW told \in BOOLEAN,
         EndUnfound(u, scan, told), UNCHANGED truth,
         scan.failed => told, ~scan.truncated => Reached(pages, {})
  PROVE  AsksSound'
<1> DEFINE more == [asks[u] EXCEPT
                      !.at = "done", !.scan = scan,
                      !.verdict = Unfound(asks[u].found, [scan EXCEPT !.failed = told])]
<1>1. asks[u] \in Asks /\ [scan EXCEPT !.failed = told].failed = told
  BY DEF CoinTyped, Scans
<1>2. /\ more.at = "done" /\ more.scan = scan /\ more.found = asks[u].found
      /\ more.verdict = Unfound(asks[u].found, [scan EXCEPT !.failed = told])
  BY <1>1 DEF Asks
<1>3. /\ more.verdict # "one"
      /\ more.verdict = "not_found" =>
           ~asks[u].found.unconfirmed /\ ~asks[u].found.down /\ ~told
  BY <1>1, <1>2 DEF Unfound
<1>4. Set(u, more)
  BY DEF EndUnfound
<1> HIDE DEF more
<1>5. AskSound(more)
  BY <1>2, <1>3 DEF AskSound
<1> QED
  BY <1>4, <1>5, SetSound

\* The refresh that callers await changes nothing of what they found.
LEMMA LandedSound ==
  ASSUME CoinTyped, HuntSound, AsksSound, Landed, UNCHANGED truth
  PROVE  HuntSound' /\ AsksSound'
<1>1. \A u \in User : AskSound(asks'[u])
  <2> SUFFICES ASSUME NEW u \in User
               PROVE  AskSound(asks'[u])
    OBVIOUS
  <2>1. asks[u] \in Asks /\ AskSound(asks[u])
    BY DEF CoinTyped, AsksSound
  <2>2. asks'[u] = IF asks[u].at = "refresh" THEN [asks[u] EXCEPT !.at = "vouch"] ELSE asks[u]
    BY DEF Landed
  <2> QED
    BY <2>1, <2>2, MovedSound
<1>2. AsksSound'
  BY <1>1 DEF AsksSound, AskSound, Reached, Whole, Seen, Dex, Gecko, Exact, Alike, truth
<1>3. CASE hunt.at = "refresh"
  <2>1. hunt \in Hunts /\ hunt # Nothing
    BY <1>3, HuntTyped
  <2>2. /\ hunt'.at = "vouch" /\ hunt'.found = hunt.found /\ hunt'.indexed = hunt.indexed
        /\ hunt'.todo = hunt.todo /\ hunt'.cut = hunt.cut
    BY <1>3, <2>1 DEF Landed, Hunts
  <2>3. Seen(hunt.found)' = Seen(hunt.found)
    BY <2>2 DEF Seen, Dex, Gecko, truth
  <2> QED
    BY <1>2, <1>3, <2>1, <2>2, <2>3 DEF HuntSound
<1>4. CASE hunt.at # "refresh"
  BY <1>2, <1>4 DEF Landed, HuntSound, Seen, Dex, Gecko, Alike, truth
<1> QED
  BY <1>3, <1>4

LEMMA EndHuntSound ==
  ASSUME CoinTyped, HuntSound, TickersSound, AsksSound, EndHunt, UNCHANGED truth
  PROVE  HuntSound' /\ TickersSound' /\ AsksSound'
<1>1. /\ hunt \in Hunts /\ hunt.at = "confirm" /\ hunt.todo = {} /\ hunt' = Nothing
      /\ \/ tickers' = tickers
         \/ tickers' = [at |-> "cached", found |-> hunt.found]
      /\ \A u \in User :
           \/ asks'[u] = asks[u] /\ asks[u].at # "hunting"
           \/ /\ asks[u].at = "hunting" /\ asks'[u].at = "found"
              /\ asks'[u].found = hunt.found /\ asks'[u].verdict = asks[u].verdict
              /\ asks'[u].scan = asks[u].scan /\ asks'[u].page = asks[u].page
  BY EndHuntOutcome
<1>2. hunt # Nothing
  BY <1>1 DEF Nothing
<1>3. Whole(hunt.found)
  BY <1>1, <1>2 DEF HuntSound, Whole
<1>4. \A u \in User : AskSound(asks'[u])
  <2> SUFFICES ASSUME NEW u \in User
               PROVE  AskSound(asks'[u])
    OBVIOUS
  <2>1. AskSound(asks[u])
    BY DEF AsksSound
  <2>2. CASE asks'[u] = asks[u]
    BY <2>1, <2>2
  <2>3. CASE /\ asks[u].at = "hunting" /\ asks'[u].at = "found"
             /\ asks'[u].found = hunt.found /\ asks'[u].verdict = asks[u].verdict
             /\ asks'[u].scan = asks[u].scan /\ asks'[u].page = asks[u].page
    <3>1. asks[u].page = 1 /\ asks[u].verdict = "none"
      BY <2>1, <2>3 DEF AskSound
    <3> DEFINE more == asks'[u]
    <3>2. more.at = "found" /\ more.found = hunt.found /\ more.page = 1 /\ more.verdict = "none"
      BY <2>3, <3>1
    <3> HIDE DEF more
    <3>3. AskSound(more)
      BY <1>3, <3>2 DEF AskSound
    <3> QED
      BY <3>3 DEF more
  <2> QED
    BY <1>1, <2>2, <2>3
<1>5. AsksSound'
  BY <1>4 DEF AsksSound, AskSound, Reached, Whole, Seen, Dex, Gecko, Exact, Alike, truth
<1>6. TickersSound'
  BY <1>1, <1>3 DEF TickersSound, Whole, Seen, Dex, Gecko, Alike, truth
<1> QED
  BY <1>1, <1>5, <1>6 DEF HuntSound

\* What is right of every coin that was seen is right of the one that has the symbol.
LEMMA OneIsAll ==
  ASSUME NEW found, Whole(found), ~found.partial, ~found.unconfirmed
  PROVE  { c \in found.coins : Exact(c) } = { c \in Seen(found) : Exact(c) }
BY DEF Whole, Exact, Alike

LEMMA SettleSound ==
  ASSUME CoinInv, NEW u \in User, Settle(u), UNCHANGED truth
  PROVE  AsksSound' /\ WalkSound'
<1>1. /\ asks[u] \in Asks /\ AskSound(asks[u]) /\ asks[u].at = "found"
  BY DEF CoinInv, CoinTyped, AsksSound, Settle
<1>2. ASSUME NEW verdict \in {"several", "scanned", "tokens"}, Done(u, verdict)
      PROVE  AsksSound'
  BY <1>2, ToldSound, SetSound DEF CoinInv, Done, Verdicts
<1>3. CASE u \in Asker
  <2> DEFINE exact == { c \in asks[u].found.coins : Exact(c) }
  <2>1. /\ CASE Cardinality(exact) = 1 ->
                  Set(u, [Told("one") EXCEPT !.found = asks[u].found])
             [] Cardinality(exact) > 1 -> Done(u, "several")
             [] exact = {} /\ symbolKnown -> Done(u, "scanned")
             [] exact = {} /\ ~symbolKnown /\ tokens # Nothing ->
                  IF \E c \in tokens.scan.coins : Exact(c)
                  THEN Done(u, "scanned")
                  ELSE EndUnfound(u, tokens.scan, FALSE)
             [] OTHER -> Set(u, [asks[u] EXCEPT !.at = "scan"])
        /\ UNCHANGED walk
    BY <1>3 DEF Settle
  <2>2. ASSUME Cardinality(exact) = 1, Set(u, [Told("one") EXCEPT !.found = asks[u].found])
        PROVE  AsksSound'
    <3> DEFINE more == [Told("one") EXCEPT !.found = asks[u].found]
    <3>1. more.at = "done" /\ more.verdict = "one" /\ more.found = asks[u].found
      BY DEF Told, NewAsk
    <3> HIDE DEF more
    <3>2. AskSound(more)
      BY <1>1, <2>2, <3>1, OneIsAll DEF AskSound
    <3> QED
      BY <2>2, <3>2, SetSound DEF CoinInv, more
  <2>3. ASSUME tokens # Nothing, ~(\E c \in tokens.scan.coins : Exact(c)),
               EndUnfound(u, tokens.scan, FALSE)
        PROVE  AsksSound'
    <3>1. tokens.scan \in Scans /\ ~tokens.scan.failed
      BY <2>3 DEF CoinInv, CoinTyped, TokensSound
    <3>2. ~tokens.scan.truncated => Reached(pages, {})
      BY <2>3 DEF CoinInv, TokensSound, Reached
    <3> QED
      BY <2>3, <3>1, <3>2, EndUnfoundSound DEF CoinInv
  <2>4. ASSUME Set(u, [asks[u] EXCEPT !.at = "scan"])
        PROVE  AsksSound'
    <3> DEFINE more == [asks[u] EXCEPT !.at = "scan"]
    <3>1. more.at = "scan" /\ more.page = 1 /\ more.verdict = "none"
      BY <1>1 DEF Asks, AskSound
    <3>2. 1 \in 1..pages /\ 1..(1 - 1) = {}
      BY DEF CoinInv, CoinTyped
    <3> HIDE DEF more
    <3>3. AskSound(more)
      BY <3>1, <3>2 DEF AskSound, Reached
    <3> QED
      BY <2>4, <3>3, SetSound DEF CoinInv, more
  <2> HIDE DEF exact
  <2>5. \/ Cardinality(exact) = 1 /\ Set(u, [Told("one") EXCEPT !.found = asks[u].found])
        \/ Done(u, "several") \/ Done(u, "scanned")
        \/ tokens # Nothing /\ ~(\E c \in tokens.scan.coins : Exact(c))
                            /\ EndUnfound(u, tokens.scan, FALSE)
        \/ Set(u, [asks[u] EXCEPT !.at = "scan"])
    BY <2>1
  <2>6. AsksSound'
    BY <1>2, <2>2, <2>3, <2>4, <2>5
  <2> QED
    BY <2>1, <2>6 DEF CoinInv, WalkSound, Reached, Exact, truth
<1>4. CASE u \notin Asker
  <2>1. \/ Done(u, "tokens") /\ UNCHANGED walk
        \/ /\ Set(u, [asks[u] EXCEPT !.at = "walking"])
           /\ walk' = IF walk = Nothing THEN NewWalk ELSE walk
    BY <1>4 DEF Settle
  <2>2. AsksSound'
    BY <1>1, <1>2, <2>1, MovedSound, SetSound DEF CoinInv
  <2>3. NewWalk.page = 1 /\ 1 \in 1..pages /\ 1..(1 - 1) = {}
    BY DEF CoinInv, CoinTyped, NewWalk
  <2> QED
    BY <2>1, <2>2, <2>3 DEF CoinInv, WalkSound, Reached, Exact, truth
<1> QED
  BY <1>3, <1>4

\* One page more.
LEMMA ReachedNext ==
  ASSUME NEW n \in 1..pages, pages \in Nat, NEW coins, Reached(n - 1, coins)
  PROVE  /\ Reached(n, coins \cup OnPage(n))
         /\ (\A c \in OnPage(n) : ~Exact(c)) => Reached(n, coins)
<1> SUFFICES ASSUME NEW c \in Coin, Exact(c), market[c].page \in 1..n
             PROVE  c \in coins \/ c \in OnPage(n)
  BY DEF Reached, OnPage
<1>1. market[c].page = n \/ market[c].page \in 1..(n - 1)
  OBVIOUS
<1> QED
  BY <1>1 DEF Reached, OnPage

\* A scan that was not cut short has read the last page.
LEMMA ReportEnds ==
  ASSUME NEW n \in 1..pages, pages \in Nat, NEW coins
  PROVE  /\ Report(n, coins).coins = coins /\ Report(n, coins).failed = FALSE
         /\ Report(n, coins).truncated \/ n = pages
<1>1. Report(n, coins).truncated = (n < pages)
  BY DEF Report
<1>2. n < pages \/ n = pages
  OBVIOUS
<1>3. Report(n, coins).truncated \/ n = pages
  BY <1>1, <1>2
<1> QED
  BY <1>3 DEF Report

LEMMA ScanSound ==
  ASSUME CoinInv, NEW u \in Asker, ScanPage(u), UNCHANGED truth
  PROVE  AsksSound'
<1> DEFINE n == asks[u].page
<1>1. /\ u \in User /\ asks[u] \in Asks /\ AskSound(asks[u]) /\ asks[u].at = "scan"
      /\ pages \in Nat
  BY DEF CoinInv, CoinTyped, AsksSound, ScanPage, User
<1>2. n \in 1..pages /\ Reached(n - 1, {})
  BY <1>1 DEF AskSound
<1>3. CASE \E c \in OnPage(n) : Exact(c)
  BY <1>1, <1>3, ToldSound, SetSound DEF CoinInv, ScanPage, Done, Verdicts
<1>4. CASE ~\E c \in OnPage(n) : Exact(c)
  <2>1. Reached(n, {})
    BY <1>1, <1>2, <1>4, ReachedNext
  <2>2. CASE LastPage(n)
    <3>1. EndUnfound(u, Report(n, {}), FALSE)
      BY <1>4, <2>2 DEF ScanPage
    <3>2. /\ Report(n, {}) \in Scans /\ ~Report(n, {}).failed
          /\ ~Report(n, {}).truncated => n = pages
      <4>1. Report(n, {}) \in Scans
        BY DEF Report, Scans
      <4> QED
        BY <1>1, <1>2, <4>1, ReportEnds
    <3> QED
      BY <1>1, <2>1, <3>1, <3>2, EndUnfoundSound DEF CoinInv
  <2>3. CASE ~LastPage(n)
    <3> DEFINE more == [asks[u] EXCEPT !.page = n + 1]
    <3>1. Set(u, more)
      BY <1>4, <2>3 DEF ScanPage
    <3>2. more.at = "scan" /\ more.page = n + 1 /\ more.verdict = "none"
      BY <1>1 DEF Asks, AskSound
    <3>3. n + 1 \in 1..pages /\ (n + 1) - 1 = n
      BY <1>1, <1>2, <2>3 DEF LastPage
    <3> HIDE DEF more
    <3>4. AskSound(more)
      BY <2>1, <3>2, <3>3 DEF AskSound
    <3> QED
      BY <1>1, <3>1, <3>4, SetSound DEF CoinInv
  <2> QED
    BY <2>2, <2>3
<1> QED
  BY <1>3, <1>4

LEMMA WalkStepSound ==
  ASSUME CoinInv, WalkPage, UNCHANGED truth
  PROVE  WalkSound' /\ TokensSound' /\ AsksSound'
<1> DEFINE coins == walk.coins \cup OnPage(walk.page)
<1>1. /\ walk # Nothing /\ walk \in Walks /\ walk.page \in 1..pages /\ pages \in Nat
      /\ Reached(walk.page - 1, walk.coins)
  BY DEF CoinInv, CoinTyped, WalkSound, WalkPage
<1>2. Reached(walk.page, coins)
  BY <1>1, ReachedNext
<1>3. ASSUME NEW scan, EndWalk(scan),
             ~scan.truncated => Reached(pages, scan.coins)
      PROVE  WalkSound' /\ TokensSound' /\ AsksSound'
  <2>1. \A u \in User : AskSound(asks'[u])
    BY <1>3, ToldSound DEF EndWalk, CoinInv, AsksSound, Verdicts
  <2>2. AsksSound'
    BY <2>1 DEF AsksSound, AskSound, Reached, Whole, Seen, Dex, Gecko, Exact, Alike, truth
  <2>3. tokens' = IF Kept(scan) THEN [at |-> "cached", scan |-> scan] ELSE tokens
    BY <1>3 DEF EndWalk
  <2>4. TokensSound'
    BY <1>3, <2>3 DEF CoinInv, TokensSound, Kept, Reached, Exact, truth
  <2> QED
    BY <1>3, <2>2, <2>4 DEF EndWalk, WalkSound
<1>4. CASE LastPage(walk.page) /\ EndWalk(Report(walk.page, coins))
  <2>1. /\ Report(walk.page, coins).coins = coins
        /\ ~Report(walk.page, coins).truncated => walk.page = pages
    BY <1>1, ReportEnds
  <2> QED
    BY <1>2, <1>3, <1>4, <2>1
<1>5. CASE EndWalk(Broken(walk.coins))
  <2>1. Broken(walk.coins).truncated
    BY DEF Broken
  <2> QED
    BY <1>3, <1>5, <2>1
<1>6. CASE /\ ~LastPage(walk.page) /\ UNCHANGED <<tokens, asks>>
           /\ walk' = [walk EXCEPT !.page = @ + 1, !.coins = coins]
  <2> HIDE DEF coins
  <2>1. walk'.page = walk.page + 1 /\ walk'.coins = coins
    BY <1>1, <1>6 DEF Walks
  <2>2. walk.page + 1 \in 1..pages /\ (walk.page + 1) - 1 = walk.page
    BY <1>1, <1>6 DEF LastPage
  <2>3. WalkSound'
    BY <1>2, <2>1, <2>2 DEF WalkSound, Reached, Exact, truth
  <2>4. TokensSound'
    BY <1>6 DEF CoinInv, TokensSound, Reached, Exact, truth
  <2>5. AsksSound'
    BY <1>6 DEF CoinInv, AsksSound, AskSound, Reached, Whole, Seen, Dex, Gecko, Exact, Alike,
                truth
  <2> QED
    BY <2>3, <2>4, <2>5
<1> QED
  BY <1>4, <1>5, <1>6 DEF WalkPage

\* What no step touches stays as it is.
LEMMA CoinFrame ==
  ASSUME CoinInv, UNCHANGED truth
  PROVE  /\ UNCHANGED walk => WalkSound'
         /\ UNCHANGED hunt => HuntSound'
         /\ tickers' \in {tickers, Nothing} => TickersSound'
         /\ tokens' \in {tokens, Nothing} => TokensSound'
         /\ UNCHANGED asks => AsksSound'
<1>1. UNCHANGED walk => WalkSound'
  BY DEF CoinInv, WalkSound, Reached, Exact, truth
<1>2. UNCHANGED hunt => HuntSound'
  BY DEF CoinInv, HuntSound, Seen, Dex, Gecko, Alike, truth
<1>3. tickers' \in {tickers, Nothing} => TickersSound'
  BY DEF CoinInv, TickersSound, Whole, Seen, Dex, Gecko, Alike, truth
<1>4. tokens' \in {tokens, Nothing} => TokensSound'
  BY DEF CoinInv, TokensSound, Reached, Exact, truth
<1>5. UNCHANGED asks => AsksSound'
  BY DEF CoinInv, AsksSound, AskSound, Reached, Whole, Seen, Dex, Gecko, Exact, Alike, truth
<1> QED
  BY <1>1, <1>2, <1>3, <1>4, <1>5

LEMMA StepCoinInv ==
  ASSUME CoinInv, [CoinNext]_coinVars
  PROVE  CoinInv'
<1>1. CoinTyped' /\ UNCHANGED truth
  BY StepCoinTyped, TruthStays DEF CoinInv
<1> USE DEF list, live, search, scans
<1>2. CASE Relist \/ Expire \/ UNCHANGED coinVars
  <2>1. UNCHANGED <<walk, hunt, asks>> /\ tickers' \in {tickers, Nothing}
        /\ tokens' \in {tokens, Nothing}
    BY <1>2 DEF Relist, Expire, coinVars
  <2> QED
    BY <1>1, <2>1, CoinFrame DEF CoinInv
<1>3. CASE FetchLive \/ FetchLiveFails
  <2>1. UNCHANGED <<tickers, walk, tokens>> /\ (Landed \/ UNCHANGED <<asks, hunt>>)
    BY <1>3 DEF FetchLive, FetchLiveFails
  <2> QED
    BY <1>1, <2>1, CoinFrame, LandedSound DEF CoinInv
<1>4. CASE ReadPools \/ PoolsFail \/ HuntRefresh \/ PickTop \/ \E c \in Coin : Confirm(c)
  <2>1. UNCHANGED <<tickers, walk, tokens, asks>>
    BY <1>4 DEF ReadPools, PoolsFail, HuntRefresh, PickTop, Confirm
  <2>2. HuntSound'
    BY <1>1, <1>4, DexSound, GeckoSound, PoolsFailSound, HuntRefreshSound, PickTopSound,
       ConfirmSound DEF CoinInv
  <2> QED
    BY <1>1, <2>1, <2>2, CoinFrame DEF CoinInv
<1>5. CASE EndHunt
  <2>1. UNCHANGED <<walk, tokens>>
    BY <1>5 DEF EndHunt
  <2> QED
    BY <1>1, <1>5, <2>1, CoinFrame, EndHuntSound DEF CoinInv
<1>6. ASSUME NEW u \in User, Begin(u)
      PROVE  CoinInv'
  <2>1. UNCHANGED <<hunt, tickers, walk, tokens>>
    BY <1>6 DEF Begin
  <2>2. NewAsk \in Asks /\ AskSound(NewAsk) /\ NewAsk.at = "idle"
    BY RecordsTyped DEF NewAsk, AskSound
  <2>3. \E at \in {"refresh", "vouch", "tickers"} : Set(u, [NewAsk EXCEPT !.at = at])
    BY <1>6, AskedTyped DEF Begin, CoinInv
  <2>4. AsksSound'
    BY <1>1, <2>2, <2>3, MovedSound, SetSound DEF CoinInv
  <2> QED
    BY <1>1, <2>1, <2>4, CoinFrame DEF CoinInv
<1>7. ASSUME NEW u \in User, Vouch(u)
      PROVE  CoinInv'
  <2>1. UNCHANGED <<hunt, tickers, walk, tokens>> /\ asks[u].at = "vouch"
    BY <1>7 DEF Vouch
  <2>2. asks[u] \in Asks /\ AskSound(asks[u])
    BY DEF CoinInv, CoinTyped, AsksSound
  <2>3. \/ Done(u, "resolved") \/ Done(u, "ambiguous")
        \/ Set(u, [asks[u] EXCEPT !.at = "tickers"])
    BY <1>7 DEF Vouch
  <2>4. AsksSound'
    BY <1>1, <2>1, <2>2, <2>3, MovedSound, ToldSound, SetSound DEF CoinInv, Done, Verdicts
  <2> QED
    BY <1>1, <2>1, <2>4, CoinFrame DEF CoinInv
<1>8. ASSUME NEW u \in User, SearchTickers(u)
      PROVE  CoinInv'
  <2>1. UNCHANGED <<tickers, walk, tokens>> /\ asks[u].at = "tickers"
    BY <1>8 DEF SearchTickers
  <2>2. asks[u] \in Asks /\ AskSound(asks[u])
    BY DEF CoinInv, CoinTyped, AsksSound
  <2>3. CASE tickers # Nothing
    <3> DEFINE more == [asks[u] EXCEPT !.at = "found", !.found = tickers.found]
    <3>1. Set(u, more) /\ UNCHANGED hunt
      BY <1>8, <2>3 DEF SearchTickers
    <3>2. /\ more.at = "found" /\ more.found = tickers.found /\ more.page = 1
          /\ more.verdict = "none"
      BY <2>1, <2>2 DEF Asks, AskSound
    <3> HIDE DEF more
    <3>3. AskSound(more)
      BY <2>3, <3>2 DEF AskSound, CoinInv, TickersSound
    <3> QED
      BY <1>1, <2>1, <3>1, <3>3, SetSound, CoinFrame DEF CoinInv
  <2>4. CASE tickers = Nothing
    <3>1. /\ Set(u, [asks[u] EXCEPT !.at = "hunting"])
          /\ hunt' = IF hunt = Nothing THEN NewHunt ELSE hunt
      BY <1>8, <2>4 DEF SearchTickers
    <3>2. AsksSound'
      BY <1>1, <2>1, <2>2, <3>1, MovedSound, SetSound DEF CoinInv
    <3>3. hunt' = NewHunt => HuntSound'
      BY DEF HuntSound, NewHunt, NoResult
    <3> QED
      BY <1>1, <2>1, <3>1, <3>2, <3>3, CoinFrame DEF CoinInv
  <2> QED
    BY <2>3, <2>4
<1>9. ASSUME NEW u \in User, Settle(u)
      PROVE  CoinInv'
  <2>1. UNCHANGED <<hunt, tickers, tokens>>
    BY <1>9 DEF Settle
  <2> QED
    BY <1>1, <1>9, <2>1, SettleSound, CoinFrame DEF CoinInv
<1>10. ASSUME NEW u \in Asker, ScanPage(u)
       PROVE  CoinInv'
  <2>1. UNCHANGED <<hunt, tickers, walk, tokens>>
    BY <1>10 DEF ScanPage
  <2> QED
    BY <1>1, <1>10, <2>1, ScanSound, CoinFrame DEF CoinInv
<1>11. ASSUME NEW u \in Asker, ScanFails(u)
       PROVE  CoinInv'
  <2>1. UNCHANGED <<hunt, tickers, walk, tokens>> /\ u \in User
    BY <1>11 DEF ScanFails, User
  <2>2. Broken({}) \in Scans /\ Broken({}).truncated
    BY DEF Broken, Scans
  <2>3. AsksSound'
    BY <1>1, <1>11, <2>1, <2>2, EndUnfoundSound DEF ScanFails, CoinInv
  <2> QED
    BY <1>1, <2>1, <2>3, CoinFrame DEF CoinInv
<1>12. CASE WalkPage
  <2>1. UNCHANGED <<hunt, tickers>>
    BY <1>12 DEF WalkPage
  <2> QED
    BY <1>1, <1>12, <2>1, WalkStepSound, CoinFrame DEF CoinInv
<1> QED
  BY <1>2, <1>3, <1>4, <1>5, <1>6, <1>7, <1>8, <1>9, <1>10, <1>11, <1>12 DEF CoinNext

LEMMA InitCoinInv ==
  ASSUME CoinInit
  PROVE  CoinInv
<1>1. asks \in [User -> Asks] /\ \A u \in User : asks[u] = NewAsk
  BY RecordsTyped DEF CoinInit
<1>2. AskSound(NewAsk)
  BY DEF NewAsk, AskSound
<1>3. pages \in Nat \ {0}
  BY CoinSearchAssumption DEF CoinInit
<1> QED
  BY <1>1, <1>2, <1>3 DEF CoinInit, CoinInv, CoinTyped, WalkSound, HuntSound, TickersSound,
     TokensSound, AsksSound

LEMMA CoinInvariant == CoinSpec => []CoinInv
<1>1. CoinInv /\ [CoinNext]_coinVars => CoinInv'
  BY StepCoinInv
<1> QED
  BY InitCoinInv, <1>1, PTL DEF CoinSpec

\* For any coins, pages, failures and caches: a symbol is said not to exist only
\* after reads that did not fail, and where they reached the end it does not exist.
THEOREM NotFoundIsRead == CoinSpec => []NotFoundMeansRead
<1>1. CoinInv => NotFoundMeansRead
  BY DEF CoinInv, AsksSound, AskSound, Reached, NotFoundMeansRead, User
<1> QED
  BY <1>1, CoinInvariant, PTL

\* For any coins and providers, cut pages and failures: a single coin that is given
\* without a reservation is the only one of the symbol the providers have.
THEOREM OneIsOne == CoinSpec => []OneMeansOne
<1>1. CoinInv => OneMeansOne
  BY DEF CoinInv, AsksSound, AskSound, Seen, OneMeansOne, User
<1> QED
  BY <1>1, CoinInvariant, PTL

\* For any lists, refreshes and failures: what is vouched for is the list that was
\* last read, unless that was empty.
THEOREM LiveStaysListed == CoinSpec => []LiveIsListed
<1>1. CoinInit => LiveIsListed
  BY DEF CoinInit, LiveIsListed
<1>2. ASSUME LiveIsListed, [CoinNext]_coinVars
      PROVE  LiveIsListed'
  <2>1. CASE FetchLive
    <3>1. \/ UNCHANGED <<liveOnly, lastList, emptied>>
          \/ emptied' = TRUE
          \/ liveOnly' = liveFlight.fresh /\ lastList' = liveFlight.fresh
      BY <2>1 DEF FetchLive, Replacing
    <3> QED
      BY <3>1, <1>2 DEF LiveIsListed
  <2>2. CASE ~FetchLive
    <3>1. UNCHANGED <<liveOnly, lastList, emptied>>
      BY <1>2, <2>2 DEF CoinNext, coinVars, live, Relist, FetchLiveFails, ReadPools, PoolsFail,
         HuntRefresh, PickTop, EndHunt, Confirm, Begin, Vouch, SearchTickers, Settle, ScanPage,
         ScanFails, WalkPage, Expire
    <3> QED
      BY <3>1, <1>2 DEF LiveIsListed
  <2> QED
    BY <2>1, <2>2
<1> QED
  BY <1>1, <1>2, PTL DEF CoinSpec
=============================================================================
