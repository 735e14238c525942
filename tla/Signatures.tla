----------------------------- MODULE Signatures ------------------------------
(***************************************************************************)
(* verifyRRSIG, verifyDS and checkExponent (utils.go).  A signature is     *)
(* [type, kind]: the type it covers, and what the loop finds out about it. *)
(***************************************************************************)
EXTENDS Integers, Sequences, FiniteSets

\* foreign: of another signer; orphan: no record of that type in the message;
\* unknown: no key has its tag; exponent: checkExponent rejects the key; bad:
\* Verify fails; stale: Verify succeeds outside the validity period; good: all is
\* well.
Kinds == {"foreign", "orphan", "unknown", "exponent", "bad", "stale", "good"}

Sig(type, kind) == [type |-> type, kind |-> kind]

\* The number of signatures that cover a type: types in the code.
Count(sigs, type) == Cardinality({i \in DOMAIN sigs : sigs[i].type = type})

Many(sigs, i) == Count(sigs, sigs[i].type) > 1

\* typesErrors when the loop is at i: a signature for the type has failed, and none
\* has been good since.
TypesErrors(sigs, i) ==
    \E j \in 1..i - 1 : /\ sigs[j] = Sig(sigs[i].type, "bad")
                        /\ \A k \in j..i - 1 : sigs[k] # Sig(sigs[i].type, "good")

\* The loop of verifyRRSIG returns at i: for every other kind it goes on.
Stops(sigs, i) ==
    \/ sigs[i].kind \in {"orphan", "exponent"}
    \/ sigs[i].kind = "unknown" /\ i = Len(sigs)
    \/ sigs[i].kind = "bad" /\ (~Many(sigs, i) \/ TypesErrors(sigs, i))
    \/ sigs[i].kind = "stale" /\ ~Many(sigs, i)

\* "ok", "cannot" (false without an error) or "error".
verifyRRSIG(sigs) ==
    IF sigs = <<>> THEN "error"
    ELSE IF \A i \in DOMAIN sigs : ~Stops(sigs, i) THEN "ok"
    ELSE IF \E i \in DOMAIN sigs : /\ sigs[i].kind = "exponent"
                                  /\ \A j \in 1..i - 1 : ~Stops(sigs, j)
    THEN "cannot" ELSE "error"

\* What the loop of verifyDS finds out about a DS record: it is for no key at hand,
\* its digest cannot be computed, the digests differ, or they are the same.
DSKinds == {"absent", "unsupported", "mismatch", "match"}

\* The errors within the loop are for the last record only, so one match will do.
verifyDS(found) == \E i \in DOMAIN found : found[i] = "match"

\* What an honest zone sends, also in the middle of a change of keys: for each type
\* a good signature, at most one that does not verify, and the last signature by a
\* key that is known.
Honest(sigs) ==
    /\ sigs # <<>> /\ sigs[Len(sigs)].kind # "unknown"
    /\ \A i \in DOMAIN sigs : sigs[i].kind \notin {"orphan", "exponent"}
    /\ \A t \in {sigs[i].type : i \in DOMAIN sigs} :
          /\ \E i \in DOMAIN sigs : sigs[i] = Sig(t, "good")
          /\ Cardinality({i \in DOMAIN sigs : sigs[i] = Sig(t, "bad")}) <= 1
=============================================================================
