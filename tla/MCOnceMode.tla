----------------------------- MODULE MCOnceMode -----------------------------
(* The instance of OnceMode in which both runs may meet every failure: the   *)
(* two calls are interchangeable, so TLC explores them up to a permutation.  *)
EXTENDS OnceMode, TLC

AnyOrder == Permutations(Runs)

=============================================================================
