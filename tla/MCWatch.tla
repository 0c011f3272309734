------------------------------ MODULE MCWatch ------------------------------
(***************************************************************************)
(* TLC instances of Watch: one address under its canonical spelling, or    *)
(* also under a legacy one.                                                *)
(***************************************************************************)
EXTENDS Watch, TLC

CONSTANTS a1, k1, legacy1

\* One address under its canonical spelling.
Canon1 == a1 :> k1
Norm1  == k1 :> a1

\* Calls are interchangeable.
Symmetry == Permutations(Call)

\* The same address under two spellings, as a store from an earlier build has it.
Norm1Legacy == k1 :> a1 @@ legacy1 :> a1
=============================================================================
