-------------------------- MODULE SignaturesProofs --------------------------
(***************************************************************************)
(* verifyRRSIG accepts what an honest zone sends, for any number of        *)
(* signatures, types and keys, and whatever their order.                   *)
(***************************************************************************)
EXTENDS Signatures, FiniteSetTheorems, TLAPS

\* A set with two members has more than one.
LEMMA TwoMembers ==
  ASSUME NEW S, IsFiniteSet(S), NEW a \in S, NEW b \in S, a # b
  PROVE  Cardinality(S) > 1
<1>1. IsFiniteSet({a}) /\ Cardinality({a}) = 1
  BY FS_Singleton
<1>a. b \notin {a}
  OBVIOUS
<1>b. Cardinality({a} \cup {b}) = Cardinality({a}) + 1
  BY <1>1, <1>a, FS_AddElement
<1>2. Cardinality({a} \cup {b}) = 2
  BY <1>1, <1>b
<1>3. {a} \cup {b} \subseteq S
  OBVIOUS
<1>4. Cardinality({a} \cup {b}) <= Cardinality(S) /\ Cardinality(S) \in Nat
  BY <1>3, FS_Subset, FS_CardinalityType
<1> QED
  BY <1>2, <1>4

\* The positions in a sequence with a given property are finitely many.
LEMMA FinitePositions ==
  ASSUME NEW T, NEW sigs \in Seq(T), NEW S \in SUBSET DOMAIN sigs
  PROVE  IsFiniteSet(S)
<1>1. DOMAIN sigs = 1..Len(sigs) /\ Len(sigs) \in Nat
  OBVIOUS
<1>2. IsFiniteSet(1..Len(sigs))
  BY <1>1, FS_Interval
<1> QED
  BY <1>1, <1>2, FS_Subset

\* The members of a sequence are in its range.
LEMMA MemberType ==
  ASSUME NEW R, NEW s \in Seq(R), NEW i \in DOMAIN s
  PROVE  s[i] \in R
  OBVIOUS

\* Where there is a good signature, every other one of its type is among many.
LEMMA OthersAreMany ==
  ASSUME NEW T, NEW sigs \in Seq([type : T, kind : Kinds]), Honest(sigs),
         NEW i \in DOMAIN sigs, sigs[i].kind # "good"
  PROVE  Many(sigs, i)
<1> DEFINE S == {j \in DOMAIN sigs : sigs[j].type = sigs[i].type}
<1>1. PICK g \in DOMAIN sigs : sigs[g] = Sig(sigs[i].type, "good")
  BY DEF Honest
<1>2. sigs[g].type = sigs[i].type /\ sigs[g].kind = "good"
  BY <1>1 DEF Sig
<1>3. i \in S /\ g \in S /\ i # g
  BY <1>2
<1>4. IsFiniteSet(S)
  BY FinitePositions
<1>5. Cardinality(S) > 1
  BY <1>3, <1>4, TwoMembers
<1> QED
  BY <1>5 DEF Many, Count

\* No signature that fails comes after another one for its type that has failed.
LEMMA FirstFailure ==
  ASSUME NEW T, NEW sigs \in Seq([type : T, kind : Kinds]), Honest(sigs),
         NEW i \in DOMAIN sigs, sigs[i].kind = "bad"
  PROVE  ~TypesErrors(sigs, i)
<1> SUFFICES ASSUME TypesErrors(sigs, i) PROVE FALSE
  OBVIOUS
<1> DEFINE t == sigs[i].type
           S == {j \in DOMAIN sigs : sigs[j] = Sig(t, "bad")}
<1>1. PICK j \in 1..i - 1 : sigs[j] = Sig(t, "bad")
  BY DEF TypesErrors
<1>2. j \in DOMAIN sigs /\ j # i
  OBVIOUS
<1>3. sigs[i] = Sig(t, "bad")
  <2>1. sigs[i] \in [type : T, kind : Kinds]
    BY MemberType
  <2> QED
    BY <2>1 DEF Sig
<1>4. IsFiniteSet(S)
  BY FinitePositions
<1>5. Cardinality(S) > 1 /\ Cardinality(S) \in Nat
  BY <1>1, <1>2, <1>3, <1>4, TwoMembers, FS_CardinalityType
<1>6. Cardinality(S) <= 1
  BY DEF Honest
<1> QED
  BY <1>5, <1>6

\* verifyRRSIG accepts the signatures of an honest zone, also those of another
\* signer, of keys that are not known, out of date or not yet valid, and one per
\* type that fails, as they come up while a zone changes its keys.
THEOREM HonestVerified ==
  ASSUME NEW T, NEW sigs \in Seq([type : T, kind : Kinds]), Honest(sigs)
  PROVE  verifyRRSIG(sigs) = "ok"
<1>1. ASSUME NEW i \in DOMAIN sigs PROVE ~Stops(sigs, i)
  <2>1. sigs[i].kind \notin {"orphan", "exponent"}
    BY DEF Honest
  <2>2. ~(sigs[i].kind = "unknown" /\ i = Len(sigs))
    BY DEF Honest
  <2>3. sigs[i].kind = "bad" => Many(sigs, i) /\ ~TypesErrors(sigs, i)
    BY OthersAreMany, FirstFailure
  <2>4. sigs[i].kind = "stale" => Many(sigs, i)
    BY OthersAreMany
  <2> QED
    BY <2>1, <2>2, <2>3, <2>4 DEF Stops
<1>2. sigs # <<>>
  BY DEF Honest
<1> QED
  BY <1>1, <1>2 DEF verifyRRSIG
=============================================================================
