------------------------- MODULE MCCredentialFiles --------------------------
(* Instance of CredentialFiles for TLC.                                      *)
EXTENDS CredentialFiles, TLC

CONSTANTS p1, p2

Alice == [realm |-> "R", type |-> 1, names |-> <<"alice">>]
AliceOtherType == [Alice EXCEPT !.type = 10]
Bob == [realm |-> "R", type |-> 1, names |-> <<"bob">>]
Krbtgt == [realm |-> "R", type |-> 2, names |-> <<"krbtgt", "R">>]
Http == [realm |-> "R", type |-> 2, names |-> <<"HTTP", "host">>]

MCOffers == {[service |-> Krbtgt, end |-> 5, renew |-> Nil], [service |-> Http, end |-> 3, renew |-> 9]}
MCKeytabName == [principal |-> <<"HTTP", "host">>, realm |-> "R"]

\* Credentials as other programs leave them: no start time, addresses, an
\* expired TGT before the one that replaced it.
Foreign(client, server, end, ticket) ==
    [client |-> client, server |-> server, etype |-> 18, key |-> ticket,
     times |-> <<1, 0, end, 0>>, skey |-> 0, flags |-> 0,
     addresses |-> <<<<2, 7>>>>, auth_data |-> <<>>, ticket |-> ticket, second |-> 0]

CacheFile(version, fields, default, credentials) ==
    LET cache == [version |-> version, fields |-> fields, default |-> default,
                  credentials |-> credentials]
    IN  [file |-> to_bytes(cache), store |-> CacheContent(cache)]

NoFile(none) == [file |-> Nil, store |-> none]
Old(p) == [p EXCEPT !.type = 0]

Directory == [env |-> Nil, configured |-> [type |-> "DIR", rest |-> "/d"]]
Path == [env |-> [type |-> "FILE", rest |-> "/d/tkt"], configured |-> [type |-> "KCM", rest |-> ""]]
Subsidiary == [env |-> [type |-> "DIR:", rest |-> "/d/tkt"], configured |-> Nil]

Scenario(initial, name1, name2, client1, client2) ==
    [format |-> "ccache", initial |-> initial, name |-> p1 :> name1 @@ p2 :> name2,
     client |-> p1 :> client1 @@ p2 :> client2]

MCCacheConfigs ==
    {Scenario(NoFile(Nil), Directory, Directory, Alice, Bob),
     Scenario(CacheFile(4, <<<<1, 8>>>>, Alice,
                        <<Foreign(Alice, Krbtgt, 2, 101), Foreign(Alice, Krbtgt, 4, 102)>>),
              Directory, Path, AliceOtherType, Bob),
     Scenario(CacheFile(3, <<>>, Bob, <<Foreign(AliceOtherType, Http, 4, 101),
                                   config_entry(Bob, ConfigKey, <<"krbtgt/R@R">>, 7)>>),
              Path, Path, Alice, Bob),
     Scenario(CacheFile(1, <<>>, Old(Alice), <<Foreign(Old(Alice), Old(Krbtgt), 4, 101),
                                        config_entry(Old(Alice), ConfigKey, <<>>, 0)>>),
              Subsidiary, Path, Alice, Bob)}

\* A keytab of other tools: a deleted entry between two, one of them without
\* the 32 bits of its key version, and an end before the end of the file.
KeyEntry(kvno8, kvno, stamp, etype, key) ==
    [principal |-> MCKeytabName.principal, realm |-> "R", name_type |-> 1, timestamp |-> stamp,
     kvno8 |-> kvno8, etype |-> etype, key |-> key, kvno |-> kvno]
Short(cells) == <<[int |-> cells[1].int - 1]>> \o SubSeq(cells, 2, Len(cells) - 1)
Gap == <<[int |-> -2], [int |-> 1], [data |-> 0]>>
KeytabInitial(version, cells, keys) ==
    [file |-> IntCell(KEYTAB_FIRST_BYTE) \o IntCell(version) \o cells,
     store |-> [i \in DOMAIN keys |-> [kvno |-> keys[i][1], timestamp |-> keys[i][2],
                                       etype |-> keys[i][3], key |-> keys[i][4]]]]
MCInitialKeytabs ==
    {NoFile(<<>>),
     KeytabInitial(2, Gap \o Short(write_entry(KeyEntry(1, 1, 1, 18, 101), 2)) \o Gap
                      \o write_entry(KeyEntry(2, 0, 2, 18, 102), 2) \o IntCell(0) \o IntCell(7),
                   <<<<1, 1, 18, 101>>, <<2, 2, 18, 102>>>>),
     KeytabInitial(1, write_entry(KeyEntry(1, 1, 2, 18, 101), 1), <<<<1, 2, 18, 101>>>>),
     KeytabInitial(2, write_entry(KeyEntry(1, 1, 1, -1, 101), 2), <<<<1, 1, -1, 101>>>>)}

MCConfigs ==
    MCCacheConfigs \cup
    {[format |-> "keytab", initial |-> i, name |-> [p \in Processes |-> Path],
      client |-> [p \in Processes |-> Nil]] : i \in MCInitialKeytabs}
\* With two writes there is none left to set right what overlapping ones did.
MCWorthwhile == changes = MaxChanges => "overlap" \notin troubles
=============================================================================
