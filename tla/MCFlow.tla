------------------------------- MODULE MCFlow -------------------------------
(***************************************************************************)
(* TLC instances of Flow: every history of a few transactions between a    *)
(* few addresses, in a fixed order of amounts and checkpoints.             *)
(***************************************************************************)
EXTENDS Flow, TLC

CONSTANTS a1, a2, a3, a4

\* One transaction after the other; the second and the third share a checkpoint.
Amounts == <<2, 1, 2, 3>>
Checkpoints == <<1, 2, 2, 3>>

\* The last transaction alone may end otherwise than with a payment.
Histories ==
  { [t \in Tx |-> [from |-> f[t], to |-> g[t], amount |-> Amounts[t],
                   cp |-> Checkpoints[t],
                   ending |-> IF t = Cardinality(Tx) THEN e ELSE "pays"]] :
      f \in [Tx -> {a1, a2, a3}], g \in [Tx -> Addr], e \in Ending }

\* The first transaction is the lighter branch's, and one that pays nobody has
\* no recipient to choose.
AllHistories ==
  { h \in Histories :
      /\ h[1].from = a2
      /\ \A t \in Tx :
           h[t].from # h[t].to /\ (h[t].ending # "pays" => h[t].to = a4) }

Branches == { <<[to |-> a1, amount |-> 3], [to |-> a2, amount |-> 2]>> }

Labels == [a \in Addr |-> IF a = a4 THEN "sink" ELSE "none"]
=============================================================================
