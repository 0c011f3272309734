------------------------------ MODULE MCTrace ------------------------------
(***************************************************************************)
(* TLC instances of Trace: short histories between two wallets, an object  *)
(* and an exchange.  Two transactions share a checkpoint, one may do       *)
(* something else than pay, and one may be too wide for a page.            *)
(***************************************************************************)
EXTENDS Trace

CONSTANTS a, b, h, o, x

Amounts == <<2, 1, 2, 1>>
Checkpoints == <<1, 2, 2, 3>>

Payments(payees) == { p \in {a, b, o} \X payees : p[1] # p[2] }

\* The transactions of a history: who pays whom, what the second or third does
\* instead, and which row is wide.
Made(p, odd, deed, wide) ==
  [t \in Digest |->
    [from |-> p[t][1],
     to |-> IF t = odd /\ deed = "keeps" THEN p[t][1] ELSE p[t][2],
     amount |-> Amounts[t], cp |-> Checkpoints[t],
     deed |-> IF t = odd THEN deed ELSE "pays",
     wide |-> t = wide]]

Conceivable ==
  { Made(p, odd, deed, wide) :
      p \in {<<a, b>>} \X Payments({a, b, o}) \X Payments({a, b, h, o, x})
             \X Payments({a, b, x}),
      odd \in {2, 3}, deed \in Deed, wide \in {0, 3} }

\* The object keeps nothing that it swapped itself.
AllHistories ==
  { chain \in Conceivable : \A t \in Digest : chain[t].from # o \/ chain[t].to # o }
=============================================================================
