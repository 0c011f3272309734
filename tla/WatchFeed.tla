----------------------------- MODULE WatchFeed -----------------------------
(***************************************************************************)
(* What the address watch promises: an at-least-once feed.                 *)
(*                                                                         *)
(* A subscription covers everything after the checkpoint it was opened at. *)
(* Serving it hands out published transactions and may move the            *)
(* subscription's mark, but never past one that has not been handed out.   *)
(* The promise says nothing of pages, overlapping polls or failed reads.   *)
(***************************************************************************)
EXTENDS Integers, Sequences

CONSTANTS Address, Key, Norm, Malformed

VARIABLES
  chain,   \* chain[a]: the transactions of a, in execution order
  head,    \* checkpoints up to here are published
  open,    \* the subscriptions that stand
  since,   \* the checkpoint a subscription was opened at
  mark,    \* how far a subscription has been served
  given    \* what has been handed out, per address

feed == <<chain, head, open, since, mark, given>>

Published(a) == { i \in DOMAIN chain[a] : chain[a][i].cp <= head }

Owed(k, n) ==
  { i \in Published(Norm[k]) : since[k] < chain[Norm[k]][i].cp /\ chain[Norm[k]][i].cp <= n }

Init ==
  /\ chain = [a \in Address |-> <<>>]
  /\ head = 0
  /\ open \subseteq Key
  /\ since = [k \in Key |-> 0]
  /\ mark = since
  /\ given = [a \in Address |-> {}]

\* The history only grows, and only above what is published.
Publish ==
  /\ head <= head'
  /\ \A a \in Address :
       /\ Len(chain[a]) <= Len(chain'[a])
       /\ \A i \in DOMAIN chain'[a] :
            IF i \in DOMAIN chain[a] THEN chain'[a][i] = chain[a][i]
            ELSE chain'[a][i].cp > head
  /\ UNCHANGED <<open, since, mark, given>>

Subscribe ==
  /\ open \subseteq open'
  /\ \A k \in Key :
       IF k \in open' \ open
       THEN since'[k] = mark'[k] /\ mark'[k] <= head
       ELSE since'[k] = since[k] /\ mark'[k] = mark[k]
  /\ UNCHANGED <<chain, head, given>>

Unsubscribe ==
  /\ open' \subseteq open
  /\ \A k \in open' : since'[k] = since[k] /\ mark'[k] = mark[k]
  /\ UNCHANGED <<chain, head, given>>

Serve ==
  /\ \A a \in Address : given[a] \subseteq given'[a] /\ given'[a] \subseteq Published(a)
  /\ \A k \in open :
       /\ mark[k] <= mark'[k] /\ mark'[k] <= head
       /\ Norm[k] # Malformed => Owed(k, mark'[k]) \subseteq given'[Norm[k]]
  /\ UNCHANGED <<chain, head, open, since>>

Next == Publish \/ Subscribe \/ Unsubscribe \/ Serve

Spec == Init /\ [][Next]_feed
=============================================================================
