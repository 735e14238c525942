--------------------------- MODULE MCAuthServers ---------------------------
(* Small instances of AuthServers for TLC. *)
EXTENDS AuthServers, TLC

CONSTANTS h1, h2, c1, p

TwoLists == {<<h1, h2>>, <<h2>>}
=============================================================================
