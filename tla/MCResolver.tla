----------------------------- MODULE MCResolver -----------------------------
(* Small instances of Resolver for TLC. *)
EXTENDS Resolver, TLC

CONSTANTS root, com, example, h1, h2, g1, g2

Chain == [z \in Zones \ {root} |-> IF z = example THEN com ELSE root]
Labels == [z \in Zones |-> CASE z = root -> 0 [] z = com -> 1 [] z = example -> 2]

\* A client's question, and one of lookupNSAddr or lookupDS from within it.
Client == [isDS |-> FALSE, cd |-> FALSE, nsl |-> FALSE, depth |-> MaxDepth]
NSAddr == [isDS |-> FALSE, cd |-> FALSE, nsl |-> TRUE, depth |-> MaxDepth - 1]
DS == [isDS |-> TRUE, cd |-> FALSE, nsl |-> TRUE, depth |-> MaxDepth - 1]

ClientOnly == {Client}
AllCallers == {Client, [Client EXCEPT !.cd = TRUE], NSAddr, DS}

Symmetry == Permutations({g1, g2})
=============================================================================
