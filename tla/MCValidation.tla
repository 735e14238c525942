--------------------------- MODULE MCValidation ----------------------------
(* Small worlds for Validation. *)
EXTENDS Validation, TLC

C == <<"c">>
E == <<"c", "e">>
G == <<"c", "e", "g">>
W == <<"c", "w">>             \* a host
N == <<"c", "n">>             \* does not exist

MCZones == {<<>>, C, E, G}
MCNames == MCZones \cup {W, Append(G, "w")}
MCQuestions == {Q(n, "A") : n \in {C, E, G, N, Append(G, "w")}}
               \cup {Q(n, "DS") : n \in {E, G, W, Append(G, "w")}}
               \cup {Q(n, "DNSKEY") : n \in {E, G}}

Good == <<Sig("a", "good")>>

\* The names that are hashed in the zone C.
Hashed == {C, E, W, N, Wildcard(C)}
Numbered == CHOOSE f \in [Hashed -> 1..5] : \A a, b \in Hashed : f[a] = f[b] => a = b

Plain == [status |-> [z \in MCZones |-> "secure"], together |-> {}, nsec3 |-> {},
          hash |-> Numbered, optOut |-> {}, big |-> {}, sigs |-> [z \in MCZones |-> Good],
          dss |-> [z \in MCZones |-> <<"match">>],
          questions |-> {}, asks |-> 0, forgets |-> 0]

Statuses == {f \in [MCZones -> {"unsigned", "island", "secure"}] : f[<<>>] = "secure"}

\* Every mixture of zones, one question.
Mixed == {[Plain EXCEPT !.status = s, !.together = t, !.questions = MCQuestions, !.asks = 1,
              !.big = {"DS", "DNSKEY"}] : s \in Statuses, t \in SUBSET {C, E, G}}

\* Two questions, and an entry of the caches that expires.
Expiring == {[Plain EXCEPT !.status = s, !.together = t, !.asks = 2, !.forgets = 1, !.big = {"DNSKEY"},
                 !.questions = {Q(G, "A"), Q(G, "DS"), Q(E, "DNSKEY")}] :
                s \in {f \in Statuses : f[C] = "secure"}, t \in SUBSET {E, G}}

\* NSEC3 with every order of the hashes, the zone's own first or in the middle: the
\* order is cyclic.
Hashing == {[Plain EXCEPT !.status[E] = s, !.together = t, !.nsec3 = {C}, !.hash = h,
                !.optOut = o, !.asks = 1, !.questions = {Q(E, "A"), Q(E, "DS"), Q(W, "DS"), Q(N, "A")}] :
               s \in {"unsigned", "secure"}, t \in {{}, {E}}, o \in {{}, {C}},
               h \in {f \in [Hashed -> 1..5] : f[C] \in {1, 3} /\ \A a, b \in Hashed : f[a] = f[b] => a = b}}

\* Signatures by several keys, and by one that cannot be checked; DS records for
\* several keys.
SigSeqs == {s \in UNION {[1..n -> [type : {"a", "b"}, kind : Kinds \ {"orphan", "exponent"}]] : n \in 1..3} :
               Honest(s)}
Signing == {[Plain EXCEPT !.sigs[E] = s, !.asks = 1, !.questions = {Q(E, "A"), Q(G, "A")}] :
               s \in SigSeqs \cup {<<Sig("a", "exponent")>>}}
           \cup {[Plain EXCEPT !.dss[E] = d, !.asks = 1, !.questions = {Q(E, "A"), Q(G, "A")}] :
                    d \in {s \in DSKinds \X DSKinds : "match" \in {s[1], s[2]}}}

MCWorlds == Mixed \cup Expiring \cup Hashing \cup Signing
=============================================================================
