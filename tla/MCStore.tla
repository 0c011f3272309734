------------------------------ MODULE MCStore ------------------------------
(***************************************************************************)
(* TLC instances of Store.                                                 *)
(***************************************************************************)
EXTENDS Store, TLC

Symmetry == Permutations(Server)
=============================================================================
