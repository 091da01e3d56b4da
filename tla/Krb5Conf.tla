------------------------------ MODULE Krb5Conf ------------------------------
(***************************************************************************)
(* krb5.conf: how files are found, put together and read, and what is       *)
(* looked up in them (src/config.rs).                                       *)
(*                                                                          *)
(* A line, without its comment and not blank, has a kind:                   *)
(*   "section"  a header, with the section's name                           *)
(*   "set"      key = value          "open"   key = {                       *)
(*   "close"    }                    "junk"   a line without =              *)
(* Values are [bool], [int], [realm], [host, port, literal, final] for a    *)
(* server, where literal is an address in brackets, port is 0 when left out *)
(* and final the asterisk, and [text] for what is none of them.             *)
(* A line that maps a domain has it as [dotted, labels] in its field domain. *)
(* Of the library's settings two are kept, braces end their lines, and no   *)
(* block inside a realm is named like one of its lists of servers.          *)
(*                                                                          *)
(* The lines of a section are the places first .. last of a text, and those *)
(* of the block of a realm a set of places.  Loops over lines are recursive *)
(* functions: what they have after line i.                                  *)
(***************************************************************************)
EXTENDS Integers, Sequences

CONSTANTS Missing,    \* an absent file or value
          Lower(_)    \* a label in lower case

\* Results are configurations, or Failed.
Failed == [ok |-> FALSE]

NewConf == [ok |-> TRUE, dns_lookup_kdc |-> FALSE, udp_preference_limit |-> 1465,
            realms |-> <<>>, domain_realm |-> {}]

IsAssignment(line) == line.kind \in {"set", "open"}
IsV4(line) == line.key = "v4_realm"

FirstOf(places) == CHOOSE i \in places : \A j \in places : i <= j

-----------------------------------------------------------------------------
(* Sections.                                                                *)

Setting(conf, line) ==
    CASE line.key = "dns_lookup_kdc" ->
            IF line.kind = "set" /\ "bool" \in DOMAIN line.value
            THEN [conf EXCEPT !.dns_lookup_kdc = line.value.bool] ELSE Failed
      [] line.key = "udp_preference_limit" ->
            IF line.kind = "set" /\ "int" \in DOMAIN line.value
            THEN [conf EXCEPT !.udp_preference_limit = line.value.int] ELSE Failed
      [] OTHER -> conf

\* LibDefaults::parse_lines: later lines overwrite earlier ones.
ReadSetting(conf, line) ==
    IF ~ conf.ok \/ ~ IsAssignment(line) \/ IsV4(line) THEN Failed ELSE Setting(conf, line)
SettingsRead(conf, text, first, last) ==
    LET read[i \in 0 .. last] ==
            IF i < first THEN conf ELSE ReadSetting(read[i - 1], text[i])
    IN  read
parse_lines(conf, text, first, last) == SettingsRead(conf, text, first, last)[last]

\* The domain and the realm of a line; a line of another section that ended up
\* here counts as well, and maps its key to a realm of no file.
Domain(line) ==
    LET key == IF "domain" \in DOMAIN line THEN line.domain
               ELSE [dotted |-> FALSE, labels |-> <<line.key>>]
    IN  [dotted |-> key.dotted, labels |-> [i \in DOMAIN key.labels |-> Lower(key.labels[i])]]
Target(line) ==
    IF line.kind = "set" /\ "realm" \in DOMAIN line.value THEN line.value.realm ELSE "other"

\* A mapping is inserted under the domain in lower case, over an earlier one.
ReadMapping(conf, line) ==
    IF ~ conf.ok \/ ~ IsAssignment(line) THEN Failed
    ELSE [conf EXCEPT !.domain_realm = {m \in @ : m.domain # Domain(line)}
                                       \cup {[domain |-> Domain(line), realm |-> Target(line)]}]
MappingsRead(conf, text, first, last) ==
    LET read[i \in 0 .. last] ==
            IF i < first THEN conf ELSE ReadMapping(read[i - 1], text[i])
    IN  read
parse_domain_realm(conf, text, first, last) == MappingsRead(conf, text, first, last)[last]

Server(value) == [host |-> value.host, port |-> value.port, literal |-> value.literal]

\* A bug: servers after the final one are taken too.
append_until_finalAll(list, value) == [list EXCEPT !.servers = Append(@, Server(value))]
\* A list of servers ends with the first value that is marked as final.
append_until_final(list, value) ==
    IF list.final THEN list
    ELSE [servers |-> Append(list.servers, Server(value)), final |-> value.final]

\* (An address in brackets keeps its form, and gets the same port when it is
\* used.)
add_default_port(value, port) == [value EXCEPT !.port = IF @ = 0 THEN port ELSE @]

\* The password servers of a realm that names none are its administrative
\* servers.  Their names are cut at the first colon, which leaves of an address
\* in brackets nothing that could be used: host 0.
KpasswdFallback(admin) ==
    [i \in DOMAIN admin |->
        [host |-> IF admin[i].literal THEN 0 ELSE admin[i].host, port |-> 464, literal |-> FALSE]]

\* Realm::parse, of a block of lines.
NoServers == [servers |-> <<>>, final |-> FALSE]
NoLists == [ok |-> TRUE, admin |-> NoServers, kdc |-> NoServers, kpasswd |-> NoServers]
ReadServer(lists, line) ==
    IF ~ lists.ok \/ ~ IsAssignment(line) \/ IsV4(line) THEN Failed
    ELSE CASE line.key = "admin_server" ->
                 [lists EXCEPT !.admin = append_until_final(@, line.value)]
           [] line.key = "kdc" ->
                 [lists EXCEPT !.kdc = append_until_final(@, add_default_port(line.value, 88))]
           [] line.key = "kpasswd_server" ->
                 [lists EXCEPT !.kpasswd = append_until_final(@, line.value)]
           [] OTHER -> lists
ListsRead(text, block) ==
    LET read[i \in 0 .. Len(text)] ==
            IF i = 0 THEN NoLists
            ELSE IF i \in block THEN ReadServer(read[i - 1], text[i]) ELSE read[i - 1]
    IN  read
RealmOf(name, lists) ==
    IF ~ lists.ok THEN Failed
    ELSE [ok |-> TRUE, realm |-> name, kdc |-> lists.kdc.servers,
          kpasswd |-> IF lists.kpasswd.servers # <<>> THEN lists.kpasswd.servers
                      ELSE KpasswdFallback(lists.admin.servers)]
Realm_parse(name, text, block) == RealmOf(name, ListsRead(text, block)[Len(text)])

brace_delta(line) == CASE line.kind = "open" -> 1 [] line.kind = "close" -> -1 [] OTHER -> 0

\* One block per realm; what stands deeper than its first level is skipped.
RealmState(realms, depth, name, block) ==
    [ok |-> TRUE, realms |-> realms, depth |-> depth, name |-> name, block |-> block]
NoRealms == RealmState(<<>>, 0, Missing, {})
BeginRealm(acc, line) ==
    IF line.kind = "open" THEN RealmState(acc.realms, 1, line.key, {}) ELSE Failed
EndRealm(acc, realm) ==
    IF realm.ok THEN RealmState(Append(acc.realms, realm), 0, acc.name, acc.block) ELSE Failed
InsideRealm(acc, text, i) ==
    LET block == IF acc.depth = 1 /\ text[i].kind # "close" THEN acc.block \cup {i} ELSE acc.block
        depth == acc.depth + brace_delta(text[i])
    IN  IF depth > 0 THEN RealmState(acc.realms, depth, acc.name, block)
        ELSE EndRealm(acc, Realm_parse(acc.name, text, block))
ReadRealmLine(acc, text, i) ==
    IF ~ acc.ok THEN acc
    ELSE IF acc.depth = 0 THEN BeginRealm(acc, text[i]) ELSE InsideRealm(acc, text, i)
RealmsRead(text, first, last) ==
    LET read[i \in 0 .. last] ==
            IF i < first THEN NoRealms ELSE ReadRealmLine(read[i - 1], text, i)
    IN  read
WithRealms(conf, read) ==
    IF ~ read.ok THEN Failed
    ELSE IF read.depth # 0 THEN Failed
    ELSE [conf EXCEPT !.realms = read.realms]
parse_realms(conf, text, first, last) == WithRealms(conf, RealmsRead(text, first, last)[last])

\* Sections of settings and of domains add up; one of realms replaces those
\* before it.
apply_section(conf, section, text, first, last) ==
    CASE section = "libdefaults"  -> parse_lines(conf, text, first, last)
      [] section = "realms"       -> parse_realms(conf, text, first, last)
      [] section = "domain_realm" -> parse_domain_realm(conf, text, first, last)
      [] OTHER                    -> conf

\* Config::parse: a section is applied where the next one begins, and at the
\* end.  header is the line of the last header, 0 before the first.
Applied(acc, text, last) ==
    IF acc.conf.ok
    THEN apply_section(acc.conf, IF acc.header = 0 THEN "unknown" ELSE text[acc.header].name,
                       text, acc.header + 1, last)
    ELSE Failed
ReadLine(acc, text, i) ==
    IF text[i].kind = "section" THEN [conf |-> Applied(acc, text, i - 1), header |-> i] ELSE acc
SectionsRead(text) ==
    LET read[i \in 0 .. Len(text)] ==
            IF i = 0 THEN [conf |-> NewConf, header |-> 0] ELSE ReadLine(read[i - 1], text, i)
    IN  read
conf_parse(text) == Applied(SectionsRead(text)[Len(text)], text, Len(text))

-----------------------------------------------------------------------------
(* Files.  files maps paths to their lines, or to Missing.                  *)

\* The files at some places of a list of paths are read as one: a section goes
\* on in the next file.
JoinedUpTo(files, paths, places) ==
    LET joined[i \in 0 .. Len(paths)] ==
            IF i = 0 THEN <<>>
            ELSE IF i \in places THEN joined[i - 1] \o files[paths[i]] ELSE joined[i - 1]
    IN  joined
Joined(files, paths, places) == JoinedUpTo(files, paths, places)[Len(paths)]

load_paths(files, paths, places) ==
    LET named == {i \in places : paths[i] # ""}
    IN  IF named = {} \/ \E i \in named : files[paths[i]] = Missing THEN Failed
        ELSE conf_parse(Joined(files, paths, named))

existing_default_config_paths(files, platform) ==
    {i \in DOMAIN platform : files[platform[i]] # Missing}

\* The environment, else the platform's files, else what is built in.
load_default_or_parse(files, env, platform, embedded) ==
    LET existing == existing_default_config_paths(files, platform)
    IN  IF env # Missing THEN load_paths(files, env, DOMAIN env)
        ELSE IF existing # {} THEN load_paths(files, platform, existing)
        ELSE conf_parse(embedded)

-----------------------------------------------------------------------------
(* Lookups.                                                                 *)

\* The entry of a realm: the first one, or Missing.
realm_entry(conf, realm) ==
    LET found == {i \in DOMAIN conf.realms : conf.realms[i].realm = realm}
    IN  IF found = {} THEN Missing ELSE conf.realms[FirstOf(found)]

\* resolve_realm: the domain itself, then its suffixes from the longest on.
Tried_domain(labels, n) ==
    IF n = 0 THEN [dotted |-> FALSE, labels |-> labels]
    ELSE [dotted |-> TRUE, labels |-> SubSeq(labels, n + 1, Len(labels))]
resolve_realm(conf, labels) ==
    LET Mapped(n) == {m \in conf.domain_realm : m.domain = Tried_domain(labels, n)}
        hits == {n \in {0} \cup 1 .. Len(labels) - 1 : Mapped(n) # {}}
    IN  IF hits = {} THEN Missing ELSE (CHOOSE m \in Mapped(FirstOf(hits)) : TRUE).realm

=============================================================================
