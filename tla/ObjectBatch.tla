---------------------------- MODULE ObjectBatch ----------------------------
(***************************************************************************)
(* readObjects (utils/valuers/common.ts): object reads that share one      *)
(* multi-get per tick, whoever asks, and a memo per tool call.             *)
(*                                                                         *)
(* An object the service no longer has at the call's checkpoint is read    *)
(* again at its latest state.  A value is named by the network and the     *)
(* object it is of, and by whether it is the checkpoint's.                 *)
(***************************************************************************)
EXTENDS Integers, Sequences, FiniteSets, SequencesExt

CONSTANTS
  Reader,     \* calls of readObjects
  CallOf,     \* the tool call each is made in
  NetworkOf,  \* the network of a tool call
  Wanted,     \* the objects a reader asks for, each once
  Pruned,     \* objects the service no longer has at the checkpoint
  NoReader

ASSUME BatchAssumption ==
  /\ NoReader \notin Reader
  /\ \A r \in Reader : Wanted[r] \in Seq(ToSet(Wanted[r])) /\ IsInjective(Wanted[r])

VARIABLES
  memo,     \* ctx.memo: per tool call and object, the reader whose read answers
  pending,  \* pending: readers and the keys they put in
  batches,  \* requests on their way
  reads,    \* per reader: its own read, and whose reads it awaits
  mixed     \* history: a request held keys of two networks

batchVars == <<memo, pending, batches, reads, mixed>>

MemoCall == { CallOf[r] : r \in Reader }
Object == UNION { ToSet(Wanted[r]) : r \in Reader }
Net(r) == NetworkOf[CallOf[r]]

NoValue == <<>>

\* `read` is readObjectsNow, `reader` its caller; `refused` is history.
NewRead == [read |-> "none", reader |-> "idle", own |-> <<>>, from |-> <<>>,
            got |-> [o \in Object |-> NoValue], refused |-> FALSE]

BatchInit ==
  /\ memo = [c \in MemoCall |-> [o \in Object |-> NoReader]]
  /\ pending = <<>>
  /\ batches = {}
  /\ reads = [r \in Reader |-> NewRead]
  /\ mixed = FALSE

-----------------------------------------------------------------------------
(* The requests. *)

\* The objects a memo does not have, in the order asked for.
Lacking(r, known) ==
  LET places == { i \in DOMAIN Wanted[r] : known[Wanted[r][i]] = NoReader }
      Nth(k) == CHOOSE i \in places : Cardinality(places \cap 1..i) = k
  IN [k \in 1..Cardinality(places) |-> Wanted[r][Nth(k)]]

\* readObjects up to its first await: what the memo lacks joins the batch.
AskObjects(r) ==
  /\ reads[r].reader = "idle"
  /\ LET known == memo[CallOf[r]]
         own == Lacking(r, known)
         source == [o \in Object |->
                      IF o \in ToSet(Wanted[r]) /\ known[o] = NoReader THEN r ELSE known[o]]
     IN /\ memo' = [memo EXCEPT ![CallOf[r]] = source]
        /\ pending' = IF own = <<>> THEN pending
                      ELSE Append(pending, [reader |-> r, keys |-> own])
        /\ reads' = [reads EXCEPT
                       ![r].reader = "waiting",
                       ![r].read = IF own = <<>> THEN "none" ELSE "asked",
                       ![r].own = own,
                       ![r].from = [i \in DOMAIN Wanted[r] |-> source[Wanted[r][i]]]]
  /\ UNCHANGED <<batches, mixed>>

\* The microtask that the first of them queued, on that one's network.
Drain ==
  /\ pending # <<>>
  /\ pending' = <<>>
  /\ batches' = batches \cup
       {[net |-> Net(pending[1].reader), entries |-> pending, alone |-> FALSE]}
  /\ mixed' = (mixed \/ \E i \in DOMAIN pending :
                          Net(pending[i].reader) # Net(pending[1].reader))
  /\ UNCHANGED <<memo, reads>>

\* What the service says of a key at the checkpoint, and of its latest state.
AtCheckpoint(net, o) == IF o \in Pruned THEN NoValue ELSE <<net, o, "then">>
Latest(net, o) == <<net, o, "now">>

InBatch(b, r) == \E i \in DOMAIN b.entries : b.entries[i].reader = r
EntryOf(b, r) == CHOOSE i \in DOMAIN b.entries : b.entries[i].reader = r

AllKeys(b) == FlattenSeq([i \in DOMAIN b.entries |-> b.entries[i].keys])

\* Every entry is given the front of the answer.
SliceFront(b, i, got) == SubSeq(got, 1, Len(b.entries[i].keys))

\* An entry's part of the answer: what follows the keys of those before it.
Slice(b, i, got) ==
  LET before == SumFunctionOnSet([j \in DOMAIN b.entries |-> Len(b.entries[j].keys)],
                                 1..i - 1)
  IN SubSeq(got, before + 1, before + Len(b.entries[i].keys))

\* readObjectsNow after its first await: what is missing is asked for again.
Received(read, answer) ==
  [read EXCEPT
     !.read = IF NoValue \in ToSet(answer) THEN "again" ELSE "read",
     !.got = [o \in Object |->
                IF o \in ToSet(read.own)
                THEN answer[CHOOSE i \in DOMAIN read.own : read.own[i] = o]
                ELSE NoValue]]

BatchAnswers(b) ==
  /\ batches' = batches \ {b}
  /\ LET keys == AllKeys(b)
         got == [k \in DOMAIN keys |-> AtCheckpoint(b.net, keys[k])]
     IN reads' = [r \in Reader |->
                    IF InBatch(b, r)
                    THEN Received(reads[r], Slice(b, EntryOf(b, r), got))
                    ELSE reads[r]]
  /\ UNCHANGED <<memo, pending, mixed>>

\* A rejected read stays in the memo.
Unforgotten(S) == memo

\* Reads that reject take their keys out of the memo.
Forgotten(S) ==
  [c \in MemoCall |-> [o \in Object |->
     IF memo[c][o] \in S THEN NoReader ELSE memo[c][o]]]

\* A failure of the shared request, given to everyone who shared it.
BatchRejects(b) ==
  /\ batches' = batches \ {b}
  /\ reads' = [r \in Reader |->
                 IF InBatch(b, r) THEN [reads[r] EXCEPT !.read = "failed"] ELSE reads[r]]
  /\ memo' = Forgotten({ r \in Reader : InBatch(b, r) })
  /\ UNCHANGED <<pending, mixed>>

\* "One failing key fails the combined request; each caller retries alone."
\* They do so on the network the request was made on.
BatchFails(b) ==
  /\ ~b.alone
  /\ batches' = (batches \ {b}) \cup
       { [net |-> b.net, entries |-> <<b.entries[i]>>, alone |-> TRUE] :
           i \in DOMAIN b.entries }
  /\ UNCHANGED <<memo, pending, reads, mixed>>

\* A read of its own that fails: the retry, or the second read.
Refused(r) ==
  /\ reads' = [reads EXCEPT ![r].read = "failed", ![r].refused = TRUE]
  /\ memo' = Forgotten({r})

RetryFails(b) ==
  /\ b.alone
  /\ batches' = batches \ {b}
  /\ Refused(b.entries[1].reader)
  /\ UNCHANGED <<pending, mixed>>

\* The second read, on the reader's own network.
ReadLatest(r) ==
  /\ reads[r].read = "again"
  /\ \/ /\ reads' = [reads EXCEPT
                       ![r].read = "read",
                       ![r].got = [o \in Object |->
                         IF o \in ToSet(reads[r].own) /\ @[o] = NoValue
                         THEN Latest(Net(r), o) ELSE @[o]]]
        /\ UNCHANGED memo
     \/ Refused(r)
  /\ UNCHANGED <<pending, batches, mixed>>

\* The reader's loop over the answers, in order: it throws at the first that
\* rejected.
FinishReader(r) ==
  /\ reads[r].reader = "waiting"
  /\ LET from == reads[r].from
         state(i) == reads[from[i]].read
     IN \/ /\ \A i \in DOMAIN from : state(i) = "read"
           /\ reads' = [reads EXCEPT ![r].reader = "answered"]
        \/ \E i \in DOMAIN from :
             /\ state(i) = "failed"
             /\ \A j \in 1..i - 1 : state(j) = "read"
             /\ reads' = [reads EXCEPT ![r].reader = "failed"]
  /\ UNCHANGED <<memo, pending, batches, mixed>>

BatchNext ==
  \/ \E r \in Reader : AskObjects(r) \/ ReadLatest(r) \/ FinishReader(r)
  \/ Drain
  \/ \E b \in batches : BatchAnswers(b) \/ BatchFails(b) \/ RetryFails(b)

BatchSpec == BatchInit /\ [][BatchNext]_batchVars

-----------------------------------------------------------------------------
(* Properties. *)

\* A reader is given its own objects, of its own network, at its checkpoint
\* where the service has them and marked as current where it does not, however
\* its keys were batched, retried or shared; requests that held the keys of two
\* networks are the exception (coalescedGet drains them on the first one's).
AnswerIsOwn ==
  ~mixed =>
    \A r \in Reader : reads[r].reader = "answered" =>
      \A i \in DOMAIN Wanted[r] :
        LET o == Wanted[r][i]
        IN reads[reads[r].from[i]].got[o] =
             <<Net(r), o, IF o \in Pruned THEN "now" ELSE "then">>

\* A reader fails only where a request for one of its objects failed that no
\* stranger's keys were in ("each caller retries alone").
FailureIsOwn ==
  \A r \in Reader : reads[r].reader = "failed" =>
    \E i \in DOMAIN reads[r].from : reads[reads[r].from[i]].refused

\* A read that failed answers nobody who asks after it: the memo has it no more.
FailureIsForgotten ==
  \A c \in MemoCall, o \in Object :
    memo[c][o] # NoReader => reads[memo[c][o]].read # "failed"
=============================================================================
