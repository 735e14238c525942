----------------------------- MODULE MCHandler -----------------------------
(* Instances of Handler for TLC. *)
EXTENDS Handler, TLC

CONSTANTS k1, k2

NoCname == [k \in Keys |-> NoKey]

\* k1 is an alias of k2 and k2 of k1.
CnameLoop == k1 :> k2 @@ k2 :> k1

\* k1 is an alias of k2, which is an address.
CnameChain == k1 :> k2 @@ k2 :> NoKey

\* A name that is an alias of itself.
CnameSelf == [k \in Keys |-> k]

GoroutineSymmetry == Permutations(Goroutines)
=============================================================================
