------------------------------- MODULE Keytab -------------------------------
(***************************************************************************)
(* Key selection from a keytab (src/keytab.rs).  A keytab is a sequence of  *)
(* entries                                                                  *)
(*   [principal, realm, etype, kvno, timestamp, key]                        *)
(* where principal stands for the whole component list: the code compares   *)
(* lengths and components one by one, which is equality.                    *)
(***************************************************************************)
EXTENDS Naturals, Sequences

\* A key version of 0 in a lookup means "any version".
AnyKvno == 0

NoMatchingKey == [found |-> FALSE]

\* The condition of find_key's loop.
EntryMatches(e, principal, realm, kvno, etype) ==
    /\ e.realm = realm
    /\ e.principal = principal
    /\ e.etype = etype
    /\ kvno = AnyKvno \/ e.kvno = kvno

MatchingEntries(entries, principal, realm, kvno, etype) ==
    {i \in DOMAIN entries :
        EntryMatches(entries[i], principal, realm, kvno, etype)}

\* The loop keeps the current selection while its timestamp is at least the
\* next match's: the newest match wins and, among equally new ones, the first.
Selected(entries, M) ==
    CHOOSE i \in M :
        \A j \in M : \/ entries[j].timestamp < entries[i].timestamp
                     \/ entries[j].timestamp = entries[i].timestamp /\ i <= j

find_key(entries, principal, realm, kvno, etype) ==
    LET M == MatchingEntries(entries, principal, realm, kvno, etype)
    IN  IF M = {}
        THEN NoMatchingKey
        ELSE LET e == entries[Selected(entries, M)]
             IN  [found |-> TRUE, key |-> e.key, kvno |-> e.kvno]

=============================================================================
