------------------------ MODULE ConfiguredTransport -------------------------
(***************************************************************************)
(* The transport with the configuration it works from: a process loads the  *)
(* default krb5.conf (Config::load_default_or_parse) and then sends         *)
(* requests to the servers of the realm that a host belongs to.             *)
(***************************************************************************)
EXTENDS KdcTransport, Krb5Conf

CONSTANTS Lines,        \* lines that the files may have
          Paths,        \* names that files may have
          Sources,      \* [files, env, platform, embedded, calls]
          Domains,      \* hosts that are asked for: sequences of labels
          DefaultRealm  \* the realm of hosts that no mapping covers

VARIABLES source,    \* where the configuration is, until it is loaded
          conf,      \* the configuration, Missing before
          target,    \* host that the last call to a realm was about
          declared   \* history: the servers as the files name them, per host

confVars == <<source, conf, declared>>
allVars == <<vars, confVars, target>>

-----------------------------------------------------------------------------
(* Lines, and what is made of them.                                         *)

ServerKeys == {"admin_server", "kdc", "kpasswd_server"}
ServerValues == [host : Hosts \cup {0}, port : Nat, literal : BOOLEAN, final : BOOLEAN]
ASSUME LineAssumption ==
    \A line \in Lines :
        /\ line.kind \in {"section", "set", "open", "close", "junk"}
        /\ line.kind = "set" =>
              /\ line.key \in ServerKeys => line.value \in ServerValues
              /\ "bool" \in DOMAIN line.value => line.value.bool \in BOOLEAN
              /\ "int" \in DOMAIN line.value => line.value.int \in Int
        /\ line.kind = "open" => line.key \notin ServerKeys
        /\ "domain" \in DOMAIN line => line.domain \in [dotted : BOOLEAN, labels : Seq(STRING) \ {<<>>}]

Assignments == {line \in Lines : IsAssignment(line)}
ServerRecords == [host : Hosts \cup {0}, port : Nat, literal : BOOLEAN]
RealmEntries == [ok : {TRUE}, realm : {line.key : line \in Assignments},
                 kdc : Seq(ServerRecords), kpasswd : Seq(ServerRecords)]
Mappings == {[domain |-> Domain(line), realm |-> Target(line)] : line \in Assignments}
Confs == [ok : {TRUE}, dns_lookup_kdc : BOOLEAN, udp_preference_limit : Int,
          realms : Seq(RealmEntries), domain_realm : SUBSET Mappings]
ASSUME MissingAssumption ==
    /\ Missing \notin Seq(Lines) /\ Missing \notin Seq(Paths)
    /\ Missing \notin RealmEntries /\ Missing \notin Confs /\ Missing # Failed
    /\ \A line \in Assignments : Target(line) # Missing
ASSUME SourceAssumption ==
    /\ \A s \in Sources :
          /\ s.files \in [Paths -> Seq(Lines) \cup {Missing}]
          /\ s.env \in Seq(Paths) \cup {Missing} /\ s.platform \in Seq(Paths)
          /\ s.embedded \in Seq(Lines)
    /\ \A d \in Domains : d \in Seq(STRING)

-----------------------------------------------------------------------------
(* What a text says, read without parsing it: by the places of its lines.   *)

LastOf(places) == CHOOSE i \in places : \A j \in places : j <= i

\* The header that line i of a text stands under, 0 without.
Header(text, i) == LastOf({0} \cup {j \in 1 .. i : text[j].kind = "section"})
InSection(text, i, name) ==
    text[i].kind # "section" /\ Header(text, i) > 0 /\ text[Header(text, i)].name = name

\* The depth of braces from line i to line j.
Depth(text, i, j) ==
    Cardinality({k \in i .. j : text[k].kind = "open"})
    - Cardinality({k \in i .. j : text[k].kind = "close"})

\* The lines that open a block of a realm, in any section of realms.
Openings(text, realm) ==
    {i \in DOMAIN text : /\ InSection(text, i, "realms")
                         /\ text[i].kind = "open" /\ text[i].key = realm
                         /\ Depth(text, Header(text, i), i - 1) = 0}
FirstBlock(text, realm) ==
    IF Openings(text, realm) = {} THEN 0 ELSE FirstOf(Openings(text, realm))

\* The same within the last section of realms.
LastRealms(text) ==
    LastOf({0} \cup {i \in DOMAIN text : text[i].kind = "section" /\ text[i].name = "realms"})
Opening(text, realm) ==
    {i \in DOMAIN text : /\ LastRealms(text) > 0 /\ i > LastRealms(text)
                         /\ Header(text, i) = LastRealms(text)
                         /\ text[i].kind = "open" /\ text[i].key = realm
                         /\ Depth(text, LastRealms(text), i - 1) = 0}
BlockOf(text, realm) == IF Opening(text, realm) = {} THEN 0 ELSE FirstOf(Opening(text, realm))

\* The lines of a block with some key, up to the first one that is final.
NamedLines(text, block, key) ==
    {i \in block + 1 .. Len(text) :
        /\ \A k \in block .. i : Depth(text, block, k) > 0
        /\ Depth(text, block, i) = 1 /\ text[i].kind = "set" /\ text[i].key = key}
UpToFinal(text, places) == {i \in places : \A j \in places : j < i => ~ text[j].value.final}
ServerLines(text, block, key) ==
    IF block = 0 THEN {} ELSE UpToFinal(text, NamedLines(text, block, key))

\* The servers on some lines, in their order.
ServersUpTo(text, places) ==
    LET servers[i \in 0 .. Len(text)] ==
            IF i = 0 THEN <<>>
            ELSE IF i \in places THEN Append(servers[i - 1], text[i].value) ELSE servers[i - 1]
    IN  servers
ServersOn(text, places) == ServersUpTo(text, places)[Len(text)]

\* The realm of a host: of the mapping for the host itself, or for the longest
\* domain it is in, the last one where there are several.
Covers(domain, labels) ==
    IF ~ domain.dotted THEN domain.labels = labels
    ELSE /\ Len(domain.labels) < Len(labels)
         /\ domain.labels = SubSeq(labels, Len(labels) - Len(domain.labels) + 1, Len(labels))
Covering(text, labels) ==
    {i \in DOMAIN text : InSection(text, i, "domain_realm") /\ Covers(Domain(text[i]), labels)}
BestCovering(text, labels) ==
    {i \in Covering(text, labels) : \A j \in Covering(text, labels) :
        Len(Domain(text[j]).labels) <= Len(Domain(text[i]).labels)}
RealmOfHost(text, labels) ==
    LET best == BestCovering(text, labels)
    IN  IF best = {} THEN DefaultRealm ELSE Target(text[LastOf(best)])

\* What the files name for a host: the KDCs with 88 for the port that is left
\* out, and the password servers, or else the hosts of the administrative
\* servers.
DeclaredIn(text, block) ==
    LET kdc == ServersOn(text, ServerLines(text, block, "kdc"))
        own == ServersOn(text, ServerLines(text, block, "kpasswd_server"))
        admin == ServersOn(text, ServerLines(text, block, "admin_server"))
    IN  [kdc |-> [i \in DOMAIN kdc |-> <<kdc[i].host, IF kdc[i].port = 0 THEN 88 ELSE kdc[i].port>>],
         kpasswd |-> IF own # <<>> THEN [i \in DOMAIN own |-> <<own[i].host, own[i].port>>]
                     ELSE [i \in DOMAIN admin |-> <<admin[i].host, 464>>]]

\* What the sections of realms say together, what the last one says by itself,
\* and whether the first block of the realm comes in an earlier one.
Declared(text, labels) ==
    LET realm == RealmOfHost(text, labels)
        first == FirstBlock(text, realm)
    IN  [together |-> DeclaredIn(text, first),
         last     |-> DeclaredIn(text, BlockOf(text, realm)),
         replaced |-> first # 0 /\ Header(text, first) # LastRealms(text)]

\* The text that a source stands for.
SourceText(s) ==
    LET paths == IF s.env # Missing THEN s.env ELSE s.platform
        present == {i \in DOMAIN paths : paths[i] # "" /\ s.files[paths[i]] # Missing}
    IN  IF s.env = Missing /\ present = {} THEN s.embedded
        ELSE Joined(s.files, paths, present)

-----------------------------------------------------------------------------
(* The process.                                                             *)

Load ==
    /\ conf = Missing
    /\ conf' = load_default_or_parse(source.files, source.env, source.platform, source.embedded)
    /\ declared' = [d \in Domains |-> Declared(SourceText(source), d)]
    /\ source' = [calls |-> source.calls]
    /\ UNCHANGED <<vars, target>>

\* service_realm, with the realm of the ticket where nothing is mapped.
service_realm(host) ==
    LET realm == resolve_realm(conf, host) IN IF realm = Missing THEN DefaultRealm ELSE realm

\* The servers of a realm for a service, as the transport takes them.
Listed(servers) == [i \in DOMAIN servers |-> IF servers[i].host = 0 THEN Malformed ELSE servers[i].host]
Servers(realm, service) ==
    LET entry == realm_entry(conf, realm)
    IN  IF entry = Missing THEN <<>> ELSE IF service = "kdc" THEN entry.kdc ELSE entry.kpasswd

RequestFor(service, host, size) ==
    /\ conf # Missing /\ conf.ok /\ request < source.calls
    /\ send_to_realm(service, [listed |-> Listed(Servers(service_realm(host), service)),
                               dns |-> conf.dns_lookup_kdc,
                               limit |-> conf.udp_preference_limit], size)
    /\ target' = host
    /\ UNCHANGED confVars

\* A call that names its server needs no configuration.
RequestTo(host, size) ==
    /\ conf # Missing /\ request < source.calls
    /\ send(host, size)
    /\ UNCHANGED <<confVars, target>>

Init2 ==
    /\ Init
    /\ source \in Sources
    /\ conf = Missing /\ target = Missing /\ declared = Missing

Next2 ==
    \/ Load
    \/ \E s \in {"kdc", "kpasswd"}, d \in Domains, n \in Sizes : RequestFor(s, d, n)
    \/ \E h \in Hosts, n \in Sizes : RequestTo(h, n)
    \/ /\ Progress \/ Serve \/ CancelCall
       /\ UNCHANGED <<confVars, target>>

ConfSpec == Init2 /\ [][Next2]_allVars

\* Lookups end, the task is scheduled, and the timeout of an attempt fires.
FairConfSpec == ConfSpec /\ WF_allVars(Progress /\ UNCHANGED <<confVars, target>>)

-----------------------------------------------------------------------------

Endpoints(servers) == [i \in DOMAIN servers |-> <<servers[i].host, servers[i].port>>]

\* What a realm's servers are expected to be: those that all sections of realms
\* name, but where another section of realms follows the one with the realm's
\* first block, those that the last section names, be it none.
NamedFor(host) ==
    IF declared[host].replaced THEN declared[host].last ELSE declared[host].together

\* Requests go to the servers that the administrator's files name for the
\* realm of the host, in their order and up to the final one, whatever is
\* spread over several files and sections, nested, repeated or continued: to
\* none that they do not name, over DNS only where they name none.  There are
\* two exceptions.  A section of realms replaces the ones before it, unlike any
\* other section: servers of a realm that only an earlier one names are lost,
\* and with them the realm goes to DNS.  Administrative servers that stand in
\* for password servers cannot be given by an address in brackets.
ServersAreDeclared ==
    conf # Missing => (conf.ok =>
        /\ \A d \in Domains :
              LET realm == service_realm(d)
              IN  /\ Endpoints(Servers(realm, "kdc")) = NamedFor(d).kdc
                  /\ \/ Endpoints(Servers(realm, "kpasswd")) = NamedFor(d).kpasswd
                     \/ Malformed \in {Listed(Servers(realm, "kpasswd"))[i] :
                                          i \in DOMAIN Servers(realm, "kpasswd")}
        /\ call.phase \in {"next", "wait"} /\ call.service # "address" =>
              LET named == IF call.service = "kdc" THEN NamedFor(target).kdc
                           ELSE NamedFor(target).kpasswd
              IN  IF named = <<>> THEN conf.dns_lookup_kdc
                  ELSE call.endpoints = [i \in DOMAIN named |-> named[i][1]])
=============================================================================
