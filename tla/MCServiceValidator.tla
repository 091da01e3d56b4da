------------------------- MODULE MCServiceValidator -------------------------
(* Instance of ServiceValidator for TLC: two validators on one shared cache *)
(* and one on a cache of its own.                                           *)
EXTENDS ServiceValidator

CONSTANTS v1, v2, v3, shared, local, HTTP, R, alice, bob, addr1

MCKeytabEntries ==
    << [principal |-> HTTP, realm |-> R, etype |-> 18, kvno |-> 1,
        timestamp |-> 1, key |-> "old"],
       [principal |-> HTTP, realm |-> R, etype |-> 18, kvno |-> 2,
        timestamp |-> 2, key |-> "new"] >>

MCCacheOf == [v \in Validators |-> IF v = v3 THEN local ELSE shared]
MCClientAddress == [v \in Validators |-> IF v = v1 THEN addr1 ELSE NoAddress]
MCRequireAddress == [v \in Validators |-> FALSE]

\* A request that passes every check while the clock is near its time.
Good == [sname |-> HTTP, stype |-> 2, srealm |-> R,
         etype |-> 18, kvno |-> 2, key |-> "new",
         start |-> 0, end |-> 3, invalid |-> FALSE, caddr |-> NoAddresses,
         pac |-> "none", authOpens |-> TRUE,
         tclient |-> [name |-> alice, type |-> 1, realm |-> R],
         aclient |-> [name |-> alice, type |-> 1, realm |-> R], ctime |-> 2, cusec |-> 0]

\* The same authenticator under a ticket that lives shorter: same replay key.
SameKey == [Good EXCEPT !.end = 0, !.kvno = 1, !.key = "old"]

\* The same instant written differently: another replay key.
OtherKey == [Good EXCEPT !.ctime = 1, !.cusec = 1, !.pac = "good"]

Future == [Good EXCEPT !.start = 3, !.end = 6, !.ctime = 4]

\* Accepted by v1 only, whose observed address the ticket names.
Addressed == [Good EXCEPT !.caddr = {addr1}]

Rejected == {[Good EXCEPT !.kvno = 3], [Good EXCEPT !.key = "stolen"],
             [Good EXCEPT !.invalid = TRUE], [Good EXCEPT !.pac = "bad"],
             [Good EXCEPT !.authOpens = FALSE],
             [Good EXCEPT !.aclient.name = bob]}

\* Requests that get as far as the replay cache, and one for every check.
MCRequests == {Good, SameKey, OtherKey, Future, Addressed} \cup Rejected

\* Bound: the two validators on the shared cache, or the one on its own cache.
Unused(v) == pc[v] = "idle" /\ verdict[v] = "None"
MCSides == Unused(v3) \/ \A v \in {v1, v2} : Unused(v)
=============================================================================
