----------------------------- MODULE PriceReads -----------------------------
(***************************************************************************)
(* Historical prices: the circuit that each tool call keeps of a provider  *)
(* (readPriceJson, utils/price-providers.ts) under the cache of reads that *)
(* all calls share (cached, utils/recent-prices.ts).                       *)
(*                                                                         *)
(* The state of a circuit is an object that a failure replaces and a       *)
(* success changes in place; a read holds on to the one it began with.     *)
(* Objects are numbered per call, and 0 is none.                           *)
(***************************************************************************)
EXTENDS Integers, Sequences, FiniteSets, SequencesExt

CONSTANTS
  Pricer,      \* tool calls
  Sample,      \* keys of the cache
  BreakAfter,  \* BREAK_AFTER
  MaxCache,    \* MAX_CACHE
  MaxReads     \* bound: reads a tool call makes

ASSUME PriceAssumption ==
  /\ BreakAfter \in Nat \ {0} /\ MaxCache \in Nat \ {0} /\ MaxReads \in Nat

VARIABLES
  failures,   \* per call: the failures of each object it ever had
  current,    \* per call: the object in its context
  begun,      \* per call: how many reads it began
  entries,    \* cache, oldest first
  loads,      \* reads that are on their way
  failed,     \* history: how many of a call's reads failed
  opened,     \* history: calls whose circuit opened
  straggled,  \* history: calls where a read failed whose object was not current
  skipped     \* history: calls that skipped a read

priceVars == <<failures, current, begun, entries, loads, failed, opened, straggled, skipped>>

PriceInit ==
  /\ failures = [p \in Pricer |-> <<>>]
  /\ current = [p \in Pricer |-> 0]
  /\ begun = [p \in Pricer |-> 0]
  /\ entries = <<>>
  /\ loads = {}
  /\ failed = [p \in Pricer |-> 0]
  /\ opened = {} /\ straggled = {} /\ skipped = {}

-----------------------------------------------------------------------------
(* The circuit. *)

\* A circuit that every call shares.
OpenForAll(p) ==
  \E q \in Pricer : current[q] # 0 /\ failures[q][current[q]] >= BreakAfter

\* The test of readPriceJson.
IsOpen(p) == current[p] # 0 /\ failures[p][current[p]] >= BreakAfter

\* The success resets what the context holds when it arrives.
ClearedNow(p, held) ==
  IF current[p] = 0 THEN failures[p] ELSE [failures[p] EXCEPT ![current[p]] = 0]

\* A success resets the object it began with, if it had one.
Cleared(p, held) ==
  IF held = 0 THEN failures[p] ELSE [failures[p] EXCEPT ![held] = 0]

\* A failure puts a new object there, counted on from the one it began with.
Counted(p, held) ==
  Append(failures[p], (IF held = 0 THEN 0 ELSE failures[p][held]) + 1)

-----------------------------------------------------------------------------
(* The cache. *)

Keyed(key) == { i \in DOMAIN entries : entries[i].key = key }
Fresh(key) == \E i \in Keyed(key) : ~entries[i].expired

\* The oldest goes when the cache is full.
Roomy == IF Len(entries) >= MaxCache THEN Tail(entries) ELSE entries

\* Map.set: an entry of the same key is replaced where it stands.
Put(seq, entry) ==
  IF \E i \in DOMAIN seq : seq[i].key = entry.key
  THEN [i \in DOMAIN seq |-> IF seq[i].key = entry.key THEN entry ELSE seq[i]]
  ELSE Append(seq, entry)

\* Map.delete: the entry at that place goes, if there is one.
Deleted(seq, places) ==
  IF places = {} THEN seq ELSE RemoveAt(seq, CHOOSE i \in places : TRUE)

\* The entry of the key, whoever put it there.
WithoutKey(load) == Deleted(entries, Keyed(load.key))

\* A read that failed removes its own entry, if that is still there.
Without(load) == Deleted(entries, { i \in Keyed(load.key) : entries[i].id = load.id })

-----------------------------------------------------------------------------
(* cached(key, load) where the cache does not answer; a hit changes nothing. *)

\* The load throws at once, and its entry goes as it came.
SkipRead(p, key) ==
  /\ begun[p] < MaxReads
  /\ ~Fresh(key)
  /\ IsOpen(p)
  /\ begun' = [begun EXCEPT ![p] = @ + 1]
  /\ skipped' = skipped \cup {p}
  /\ entries' = Deleted(Roomy, { i \in DOMAIN Roomy : Roomy[i].key = key })
  /\ UNCHANGED <<failures, current, loads, failed, opened, straggled>>

BeginRead(p, key) ==
  /\ begun[p] < MaxReads
  /\ ~Fresh(key)
  /\ ~IsOpen(p)
  /\ begun' = [begun EXCEPT ![p] = @ + 1]
  /\ LET id == <<p, begun[p]>>
     IN /\ loads' = loads \cup {[id |-> id, key |-> key, by |-> p, held |-> current[p]]}
        /\ entries' = Put(Roomy, [key |-> key, id |-> id, good |-> FALSE, expired |-> FALSE])
  /\ UNCHANGED <<failures, current, failed, opened, straggled, skipped>>

ReadSucceeds(load) ==
  /\ loads' = loads \ {load}
  /\ failures' = [failures EXCEPT ![load.by] = Cleared(load.by, load.held)]
  /\ entries' = [i \in DOMAIN entries |->
                   IF entries[i].id = load.id
                   THEN [entries[i] EXCEPT !.good = TRUE] ELSE entries[i]]
  /\ UNCHANGED <<current, begun, failed, opened, straggled, skipped>>

ReadFails(load) ==
  LET p == load.by
      counted == Counted(p, load.held)
  IN /\ loads' = loads \ {load}
     /\ failures' = [failures EXCEPT ![p] = counted]
     /\ current' = [current EXCEPT ![p] = Len(counted)]
     /\ entries' = Without(load)
     /\ failed' = [failed EXCEPT ![p] = @ + 1]
     /\ opened' = IF Last(counted) >= BreakAfter THEN opened \cup {p} ELSE opened
     /\ straggled' = IF load.held # current[p] THEN straggled \cup {p} ELSE straggled
     /\ UNCHANGED <<begun, skipped>>

ExpireEntry ==
  /\ \E i \in DOMAIN entries :
       /\ ~entries[i].expired
       /\ entries' = [entries EXCEPT ![i].expired = TRUE]
  /\ UNCHANGED <<failures, current, begun, loads, failed, opened, straggled, skipped>>

PriceNext ==
  \/ \E p \in Pricer, key \in Sample : SkipRead(p, key) \/ BeginRead(p, key)
  \/ \E load \in loads : ReadSucceeds(load) \/ ReadFails(load)
  \/ ExpireEntry

PriceSpec == PriceInit /\ [][PriceNext]_priceVars

-----------------------------------------------------------------------------
(* Properties. *)

\* A call skips a provider only after that many of its own reads of it failed,
\* whatever other calls met ("One provider circuit per independent MCP call").
SkipIsEarned == \A p \in skipped : failed[p] >= BreakAfter

\* A circuit that opened stays open for the call ("later samples skip that
\* provider", site/src/content/docs/concepts/pricing.md), whichever reads that
\* began earlier succeed after it; one that fails after it is the exception.
CircuitStaysOpen == \A p \in opened \ straggled : IsOpen(p)

\* An answer in the cache leaves it when its time is up or to make room, never
\* because an earlier read of the key fails late.
GoodEntryStays ==
  [][\A i \in DOMAIN entries :
       entries[i].good /\ ~entries[i].expired =>
         \/ \E j \in DOMAIN entries' : entries'[j].id = entries[i].id
         \/ i = 1 /\ Len(entries) >= MaxCache /\ begun' # begun]_priceVars
=============================================================================
