----------------------------- MODULE MCLookups -----------------------------
(***************************************************************************)
(* TLC instance of the three shared lookups: coins by symbol, objects by   *)
(* multi-get, prices by sample.  They share no state, so a behaviour of    *)
(* this module is one of one of them.                                      *)
(***************************************************************************)
EXTENDS CoinSearch, ObjectBatch, PriceReads, TLC

CONSTANTS m1, m2, r1, r2, r3, o1, o2, o3

VARIABLE which

\* Two coins: where each has its metadata, and who lists its pools.
On(page, dex, gecko) ==
  [symbol |-> "exact", page |-> page, dex |-> dex, gecko |-> gecko]

SomeMarkets ==
  { m1 :> pair[1] @@ m2 :> pair[2] :
      pair \in {<<On(0, TRUE, FALSE), On(0, TRUE, TRUE)>>,
                <<On(2, FALSE, TRUE), On(1, FALSE, FALSE)>>,
                <<On(2, TRUE, FALSE), [On(1, TRUE, TRUE) EXCEPT !.symbol = "alike"]>>,
                <<On(3, FALSE, FALSE), [On(1, FALSE, FALSE) EXCEPT !.symbol = "other"]>>} }

\* Two readers of one tool call that share an object, and one of another call.
Calls == r1 :> "first" @@ r2 :> "first" @@ r3 :> "second"
OneOrTwo == "first" :> "mainnet" @@ "second" :> "testnet"
Objects == r1 :> <<o1, o2>> @@ r2 :> <<o2, o3>> @@ r3 :> <<o3, o1>>

Init ==
  /\ CoinInit /\ BatchInit /\ PriceInit
  /\ which \in {"coins", "objects", "prices"}
  /\ which # "coins" =>
       /\ market = CHOOSE some \in SomeMarkets : TRUE
       /\ pages = 1 /\ listed = {}

Next ==
  /\ UNCHANGED which
  /\ \/ which = "coins" /\ CoinNext /\ UNCHANGED <<batchVars, priceVars>>
     \/ which = "objects" /\ BatchNext /\ UNCHANGED <<coinVars, priceVars>>
     \/ which = "prices" /\ PriceNext /\ UNCHANGED <<coinVars, batchVars>>

Spec == Init /\ [][Next]_<<coinVars, batchVars, priceVars, which>>
=============================================================================
