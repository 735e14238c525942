-------------------------------- MODULE NSEC3 --------------------------------
(***************************************************************************)
(* The checks of NSEC3 records in nsec3.go, as operators.  A name is the   *)
(* sequence of its labels from the top, so that its ancestors are its      *)
(* prefixes.  An NSEC3 record is [zone, owner, next, types, optOut] with   *)
(* hashes for owner and next; a hash function h is a parameter.  The order *)
(* of the records in a message does not matter to these checks as long as  *)
(* no two of them match, or cover, the same name: a message is a set.      *)
(***************************************************************************)
EXTENDS Integers, SequencesExt, FiniteSetsExt

OK == "ok"

-----------------------------------------------------------------------------
(* dns.NSEC3.Match and dns.NSEC3.Cover.                                    *)

Match(h, r, name) == IsPrefix(r.zone, name) /\ h[name] = r.owner

Cover(h, r, name) ==
    /\ IsPrefix(r.zone, name)
    /\ \/ r.owner = r.next
       \/ r.owner > r.next /\ (h[name] > r.owner \/ h[name] < r.next)
       \/ r.owner < r.next /\ r.owner <= h[name] /\ h[name] < r.next

-----------------------------------------------------------------------------
typesSet(set, types) == set \cap types # {}

Matching(h, name, nsec) == {r \in nsec : Match(h, r, name)}
Covering(h, name, nsec) == {r \in nsec : Cover(h, r, name)}

\* findMatching and findCoverer: the first record that does, if there is one.
findMatching(h, name, nsec) == CHOOSE r \in Matching(h, name, nsec) : TRUE
findCoverer(h, name, nsec) == CHOOSE r \in Covering(h, name, nsec) : TRUE

\* The lengths of the ancestors of name, itself included and the root not, that
\* some record matches.
Enclosers(h, name, nsec) ==
    {k \in 1..Len(name) : Matching(h, SubSeq(name, 1, k), nsec) # {}}

\* findClosestEncloser: the closest encloser and the next closer name.
ClosestEncloser(h, name, nsec) == SubSeq(name, 1, Max(Enclosers(h, name, nsec)))

NextCloser(h, name, nsec) ==
    SubSeq(name, 1, Min({Len(name), Max(Enclosers(h, name, nsec)) + 1}))

Wildcard(name) == Append(name, "*")

verifyNameError(h, name, nsec) ==
    IF Enclosers(h, name, nsec) = {} THEN "errNSECMissingCoverage"
    ELSE IF Covering(h, Wildcard(ClosestEncloser(h, name, nsec)), nsec) = {}
    THEN "errNSECMissingCoverage" ELSE OK

\* Variant of OptedOut that asks for a match of the next closer name.
OptedOutMatching(h, name, nsec) ==
    IF Enclosers(h, name, nsec) = {} THEN "errNSECMissingCoverage"
    ELSE IF Matching(h, NextCloser(h, name, nsec), nsec) = {} THEN "errNSECMissingCoverage"
    ELSE IF ~findMatching(h, NextCloser(h, name, nsec), nsec).optOut THEN "errNSECOptOut"
    ELSE OK

\* What verifyNODATA and verifyDelegation do when no record matches the name.
OptedOut(h, name, nsec) ==
    IF Enclosers(h, name, nsec) = {} THEN "errNSECMissingCoverage"
    ELSE IF Covering(h, NextCloser(h, name, nsec), nsec) = {} THEN "errNSECMissingCoverage"
    ELSE IF ~findCoverer(h, NextCloser(h, name, nsec), nsec).optOut THEN "errNSECOptOut"
    ELSE OK

verifyNODATA(h, name, type, nsec) ==
    IF Matching(h, name, nsec) = {}
    THEN IF type # "DS" THEN "errNSECMissingCoverage" ELSE OptedOut(h, name, nsec)
    ELSE IF typesSet(findMatching(h, name, nsec).types, {type, "CNAME"})
    THEN "errNSECTypeExists" ELSE OK

verifyDelegation(h, name, nsec) ==
    IF Matching(h, name, nsec) = {} THEN OptedOut(h, name, nsec)
    ELSE IF ~typesSet(findMatching(h, name, nsec).types, {"NS"}) THEN "errNSECNSMissing"
    ELSE IF typesSet(findMatching(h, name, nsec).types, {"DS", "SOA"})
    THEN "errNSECBadDelegation" ELSE OK

-----------------------------------------------------------------------------
(* The records a zone has.  data gives the types at each name of the zone, *)
(* optOut says that unsigned delegations have no record of their own.      *)

Unsigned(data, name) == "NS" \in data[name] /\ "SOA" \notin data[name] /\ "DS" \notin data[name]

Owners(data, optOut) == {n \in DOMAIN data : ~(optOut /\ Unsigned(data, n))}

NextHash(hashes, x) ==
    IF \E y \in hashes : y > x THEN Min({y \in hashes : y > x}) ELSE Min(hashes)

Chain(h, zone, data, optOut) ==
    LET hashes == {h[n] : n \in Owners(data, optOut)}
    IN  {[zone |-> zone, owner |-> h[n], next |-> NextHash(hashes, h[n]),
          types |-> data[n], optOut |-> optOut] : n \in Owners(data, optOut)}

\* The records a server of the zone sends to deny a name, or a type at a name: the
\* one that matches it, or those for its closest encloser, the next closer name
\* and the wildcard.
Denial(h, chain, name) ==
    LET ce == ClosestEncloser(h, name, chain)
    IN  IF Matching(h, name, chain) # {} THEN Matching(h, name, chain)
        ELSE Matching(h, ce, chain)
             \cup Covering(h, NextCloser(h, name, chain), chain)
             \cup Covering(h, Wildcard(ce), chain)
=============================================================================
