---------------------------- MODULE MCErrorCache ----------------------------
(* Small instances of ErrorCache for TLC. *)
EXTENDS ErrorCache, TLC

\* Keys and clients are interchangeable.
CacheSymmetry == Permutations(Keys) \cup Permutations(Clients)
=============================================================================
