---------------------------- MODULE MCQueryCache ----------------------------
(* Instances of QueryCache for TLC. *)
EXTENDS QueryCache, TLC

\* One or two records; TTLs of zero, one and two seconds.
SmallMessages == {<<2>>, <<0>>, <<2, 1>>}

ClientSymmetry == Permutations(Clients)
=============================================================================
