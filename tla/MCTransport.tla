---------------------------- MODULE MCTransport ----------------------------
(***************************************************************************)
(* TLC instances of Transport: one limiter per endpoint, as retryingFetch  *)
(* makes it, and one per request, as retryingJson does.                    *)
(***************************************************************************)
EXTENDS Transport, TLC

CONSTANTS main, g1, g2, p1

OneLimiter == [c \in Call |-> main]
Mixed == g1 :> main @@ g2 :> main @@ p1 :> p1

Symmetry == Permutations(Call)
=============================================================================
