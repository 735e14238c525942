------------------------------ MODULE MCQuery -------------------------------
(* Instance of Query: two lists on one host and the administrator's file.  *)
EXTENDS Query

MCSpellings == {"a", "b", "w", "v", "V", "junk"}
MCToLower == [s \in MCSpellings |-> IF s = "V" THEN "v" ELSE s]
MCHost == <<"h", "h">>
MCBody == <<<<"a", "V">>, <<"b">>>>
MCHosts == <<"w", "a">>
MCDirectory == <<<<"h", 1>>, <<"h", 2>>, <<"hosts", 1>>>>
MCBad == {<<"h", 2>>}
MCBlocklist == <<"b">>

Request(type, via, opt) == [name |-> "a", type |-> type, via |-> via, opt |-> opt]
MCRequests == {Request("A", "wire", "plain"), Request("A", "udp", "do"),
               Request("A", "json", "do"), Request("TXT", "tcp", "none")}
MCTargets == {<<"a", "A">>}

Idle == [lists |-> 0, crash |-> 0, api |-> 0, ask |-> 0, tick |-> 0, requests |-> {}]

\* Crashes and broken downloads; API calls during the load; two overlapping
\* queries; a query of every kind.
MCBudgets ==
    {[Idle EXCEPT !.lists = 2, !.crash = 1],
     [Idle EXCEPT !.lists = 1, !.api = 2],
     [Idle EXCEPT !.api = 1, !.ask = 2, !.tick = 1,
                  !.requests = {Request("A", "wire", "plain"), Request("A", "udp", "do")}],
     [Idle EXCEPT !.ask = 1, !.tick = 1, !.requests = MCRequests]}
=============================================================================
