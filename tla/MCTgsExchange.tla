--------------------------- MODULE MCTgsExchange ---------------------------
\* Instances of TgsExchange.
EXTENDS TgsExchange

\* A service of realm B, named with and without its realm, and the client
\* itself as the service that S4U2Self asks for.
Web == Principal("B", <<"HTTP", "b">>)
WebUnqualified == Principal(NoRealm, <<"HTTP", "b">>)
Alice == Principal("A", <<"alice">>)

MCRealms == {"A", "B"}
MCServices == {Web, WebUnqualified}
MCResolvedRealm == [s \in MCServices |-> IF s = WebUnqualified THEN "B" ELSE NoRealm]
MCUsers == {Alice}
=============================================================================
