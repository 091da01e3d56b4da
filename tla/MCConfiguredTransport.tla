----------------------- MODULE MCConfiguredTransport ------------------------
(* Instance of ConfiguredTransport for TLC: two servers, the second reached *)
(* over IPv6, configured or found by DNS.                                   *)
EXTENDS ConfiguredTransport

Srv(p, w, t) == [priority |-> p, weight |-> w, target |-> t]

MCSrvAnswers == {{Srv(0, 0, 1), Srv(0, 5, 2)}, {Srv(0, 0, NoTarget)},
                 {Srv(0, 0, 3), Srv(1, 0, 1)}}

\* Requests that go out over UDP first if the limit allows, and not at all
\* over UDP.
MCSizes == {1, 9}

MCLower(label) == IF label = "WEB" THEN "web" ELSE label

-----------------------------------------------------------------------------
(* Texts are put together from these parts.                                 *)

Section(name) == [kind |-> "section", name |-> name]
Set(key, value) == [kind |-> "set", key |-> key, value |-> value]
Open(key) == [kind |-> "open", key |-> key]
Close == [kind |-> "close", key |-> "}"]
Junk == [kind |-> "junk", key |-> ""]
At(host) == [host |-> host, port |-> 0, literal |-> FALSE, final |-> FALSE]
Map(dotted, labels, realm) ==
    [kind |-> "set", key |-> "domain", domain |-> [dotted |-> dotted, labels |-> labels],
     value |-> [realm |-> realm]]

RealmA(servers) == <<Open("A")>> \o [i \in DOMAIN servers |-> Set("kdc", servers[i])] \o <<Close>>
Dns == <<Section("libdefaults"), Set("dns_lookup_kdc", [bool |-> TRUE])>>
Limit(n) == <<Section("libdefaults"), Set("udp_preference_limit", [int |-> n])>>
Mapping == <<Section("domain_realm"), Map(TRUE, <<"b">>, "A"), Map(FALSE, <<"WEB", "b">>, "B")>>

Parts ==
    {Mapping, Dns,
     <<Section("domain_realm"), Map(FALSE, <<"web", "b">>, "A"), Map(TRUE, <<"web", "b">>, "B")>>,
     <<Section("realms")>> \o RealmA(<<At(1), [At(2) EXCEPT !.final = TRUE], At(3)>>),
     <<Section("realms"), Open("B"), Open("other"), Set("kdc", At(3)), Close, Set("kdc", [At(1) EXCEPT !.port = 89]),
       Set("admin_server", [At(2) EXCEPT !.port = 749]), Close>>,
     RealmA(<<At(3)>>),
     <<Section("realms"), Open("A"), Set("kpasswd_server", At(3)), Set("admin_server", At(1))>>,
     <<Section("realms"), Open("A"), Set("admin_server", [At(2) EXCEPT !.literal = TRUE]), Close>>,
     <<Section("other"), Junk>>,
     <<Close>>,
     <<Section("libdefaults"), Set("dns_lookup_kdc", [text |-> "maybe"])>>}

Texts == {p \o q \o r : p \in Parts, q \in Parts, r \in Parts}

\* Where texts are: files of the environment, of which one goes on in the
\* next; a platform's file; or nowhere but in the program.
Source(first, second, env, platform, embedded, calls) ==
    [files |-> [path \in {"one", "two", "none", ""} |->
                    IF path = "one" THEN first ELSE IF path = "two" THEN second ELSE Missing],
     env |-> env, platform |-> platform, embedded |-> embedded, calls |-> calls]

Loads == {Source(t, Mapping, Missing, <<"one", "two", "none">>, <<>>, 0) : t \in Texts}

MCSources ==
    Loads \cup
    {Source(Mapping \o Limit(5), <<Section("realms")>> \o RealmA(<<At(1), At(2)>>),
            <<"one", "", "two">>, <<"none">>, <<>>, MaxCalls),
     Source(Limit(1) \o Dns, Mapping \o <<Section("realms"), Open("A"), Set("kpasswd_server", At(2))>> \o <<Close>>,
            Missing, <<"one", "two">>, Dns, 1),
     Source(<<>>, <<>>, Missing, <<"none">>,
            Limit(5) \o Mapping \o Dns \o <<Section("realms"), Open("B"), Set("kdc", At(1)),
                  Set("admin_server", [At(2) EXCEPT !.literal = TRUE]), Close>>, MaxCalls),
     Source(Mapping, Limit(0 - 1), <<"one", "two">>, <<>>, Dns, 1),
     Source(Mapping, <<>>, <<"one", "none">>, <<"one">>, Dns, 1)}

MCPaths == {"one", "two", "none", ""}
MCLines ==
    UNION {{t[i] : i \in DOMAIN t} :
               t \in UNION {{s.files[p] : p \in MCPaths} \cup {s.embedded} : s \in MCSources} \ {Missing}}
MCDomains == {<<"web", "b">>, <<"x", "b">>}
=============================================================================
