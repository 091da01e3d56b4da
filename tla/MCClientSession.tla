--------------------------- MODULE MCClientSession ---------------------------
EXTENDS ClientSession
CONSTANTS home, foreign, web, remote
MCRealmOf == [s \in Services |-> IF s = remote THEN foreign ELSE home]
\* A session that cannot be renewed, and one the KDC may issue ahead of time.
MCOtherLogins == {<<0, FALSE>>, <<6, TRUE>>}
MCEveryTick == 0 .. 40
=============================================================================
