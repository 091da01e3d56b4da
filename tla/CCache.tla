------------------------------- MODULE CCache -------------------------------
(***************************************************************************)
(* MIT credential caches: the file format and the operations on a cache     *)
(* (src/ccache.rs).                                                         *)
(*   principal   [realm, type, names]                                       *)
(*   credential  [client, server, etype, key, times, skey, flags,           *)
(*                addresses, auth_data, ticket, second]                     *)
(*   cache       [version, fields, default, credentials]                    *)
(* An empty byte string is 0.                                               *)
(***************************************************************************)
EXTENDS Cells

Principals == [realm : Text, type : Int, names : Seq(Text)]
CredentialRecords ==
    [client : Principals, server : Principals, etype : Int, key : Int, times : [1 .. 4 -> Int],
     skey : Int, flags : Int, addresses : Seq(Int \X Int), auth_data : Seq(Int \X Int),
     ticket : Int, second : Int]
Caches == [version : 1 .. 4, fields : Seq(Int \X Int), default : Principals,
           credentials : Seq(CredentialRecords)]

CCACHE_FIRST_BYTE == 5
KDC_OFFSET_TAG == 1

\* A counted list of pairs of an integer and a byte string: addresses and
\* authorization data.
write_pairs(pairs) ==
    IntCell(Len(pairs))
    \o [i \in 1 .. 2 * Len(pairs) |-> IF i % 2 = 1 THEN [int |-> pairs[(i + 1) \div 2][1]]
                                      ELSE [data |-> pairs[i \div 2][2]]]
read_pairs(file, at) ==
    LET count == file[at].int
        kinds == [i \in 1 .. 2 * count |-> IF i % 2 = 1 THEN "int" ELSE "data"]
    IN  IF ~ CanRead(file, at, <<"int">>) THEN Error
        ELSE IF count < 0 \/ ~ CanRead(file, at + 1, kinds) THEN Error
        ELSE Value([i \in 1 .. count |-> <<file[at + 2 * i - 1].int, file[at + 2 * i].data>>],
                   at + 1 + 2 * count)

-----------------------------------------------------------------------------
(* Principals: version 1 has no name type and counts the realm.             *)

Principal_write_to(p, version) ==
    (IF version = 1 THEN IntCell(Len(p.names) + 1) ELSE IntCell(p.type) \o IntCell(Len(p.names)))
    \o StrCell(p.realm) \o [i \in DOMAIN p.names |-> [str |-> p.names[i]]]

Principal_parse(file, at, version) ==
    LET first == IF version = 1 THEN at ELSE at + 1
        count == file[first].int - (IF version = 1 THEN 1 ELSE 0)
    IN  IF ~ CanRead(file, at, IF version = 1 THEN <<"int">> ELSE <<"int", "int">>) THEN Error
        ELSE IF count < 0 \/ ~ CanRead(file, first + 1, [i \in 1 .. count + 1 |-> "str"]) THEN Error
        ELSE Value([realm |-> file[first + 1].str,
                    type  |-> IF version = 1 THEN 0 ELSE file[at].int,
                    names |-> [i \in 1 .. count |-> file[first + 1 + i].str]],
                   first + 2 + count)

same_principal_identity(p, q) == p.realm = q.realm /\ p.names = q.names

-----------------------------------------------------------------------------
(* Credentials.                                                             *)

\* Version 3 has the enctype twice.
Credential_write_to(c, version) ==
    Principal_write_to(c.client, version) \o Principal_write_to(c.server, version)
    \o (IF version = 3 THEN IntCell(c.etype) ELSE <<>>)
    \o <<[int |-> c.etype], [data |-> c.key], [int |-> c.times[1]], [int |-> c.times[2]],
         [int |-> c.times[3]], [int |-> c.times[4]], [int |-> c.skey], [data |-> c.flags]>>
    \o write_pairs(c.addresses) \o write_pairs(c.auth_data)
    \o <<[data |-> c.ticket], [data |-> c.second]>>

CredentialFields == <<"int", "data", "int", "int", "int", "int", "int", "data">>

\* Of the two enctypes of version 3 the second one counts.
Credential_parse(file, at, version) ==
    LET client == Principal_parse(file, at, version)
        server == Principal_parse(file, client.next, version)
        etype == IF version = 3 THEN server.next + 1 ELSE server.next
        addresses == read_pairs(file, etype + 8)
        auth_data == read_pairs(file, addresses.next)
        last == auth_data.next
    IN  IF /\ client.ok /\ server.ok /\ CanRead(file, etype, CredentialFields)
           /\ addresses.ok /\ auth_data.ok /\ CanRead(file, last, <<"data", "data">>)
        THEN Value([client |-> client.value, server |-> server.value,
                    etype |-> file[etype].int, key |-> file[etype + 1].data,
                    times |-> [i \in 1 .. 4 |-> file[etype + 1 + i].int],
                    skey |-> file[etype + 6].int, flags |-> file[etype + 7].data,
                    addresses |-> addresses.value, auth_data |-> auth_data.value,
                    ticket |-> file[last].data, second |-> file[last + 1].data],
                   last + 2)
        ELSE Error

-----------------------------------------------------------------------------
(* The header of version 4: its length and fields <<tag, length of value>>. *)

ValidField(field) == field[1] = KDC_OFFSET_TAG => field[2] = 8

Header_write_to(fields) ==
    IntCell(2 * Len(fields))
    \o [i \in 1 .. 2 * Len(fields) |-> [int |-> IF i % 2 = 1 THEN fields[(i + 1) \div 2][1]
                                                ELSE fields[i \div 2][2]]]

Header_parse(file, at) ==
    LET length == file[at].int
        fields == [i \in 1 .. length \div 2 |-> <<file[at + 2 * i - 1].int, file[at + 2 * i].int>>]
    IN  IF ~ CanRead(file, at, <<"int">>) THEN Error
        ELSE IF length < 0 \/ ~ CanRead(file, at + 1, [i \in 1 .. length |-> "int"]) THEN Error
        ELSE IF length % 2 # 0 \/ \E i \in DOMAIN fields : ~ ValidField(fields[i]) THEN Error
        ELSE Value(fields, at + 1 + length)

-----------------------------------------------------------------------------
(* Caches.                                                                  *)

NewCache(principal) ==
    [version |-> 4, fields |-> <<>>, default |-> principal, credentials |-> <<>>]

\* The cells of the first i credentials, for every i.
CredentialCells(credentials, version) ==
    LET written[i \in 0 .. Len(credentials)] ==
            IF i = 0 THEN <<>>
            ELSE written[i - 1] \o Credential_write_to(credentials[i], version)
    IN  written

to_bytes(cache) ==
    IntCell(CCACHE_FIRST_BYTE) \o IntCell(cache.version)
    \o (IF cache.version = 4 THEN Header_write_to(cache.fields) ELSE <<>>)
    \o Principal_write_to(cache.default, cache.version)
    \o CredentialCells(cache.credentials, cache.version)[Len(cache.credentials)]

\* A bug: what cannot be read as a credential is taken for the end.
ReadCredentialLenient(file, version, sofar) ==
    LET read == Credential_parse(file, sofar.next, version)
    IN  IF sofar.next > Len(file) \/ ~ read.ok THEN Value(sofar.value, Len(file) + 1)
        ELSE Value(Append(sofar.value, read.value), read.next)
\* The loop of parse: a credential after those that were read so far, until the
\* end of the file.
WithCredential(sofar, read) ==
    IF read.ok THEN Value(Append(sofar.value, read.value), read.next) ELSE Error
ReadCredential(file, version, sofar) ==
    IF ~ sofar.ok \/ sofar.next > Len(file) THEN sofar
    ELSE WithCredential(sofar, Credential_parse(file, sofar.next, version))

\* The credentials after each turn of the loop.
CredentialsRead(file, first, version) ==
    LET read[i \in 0 .. Len(file)] ==
            IF i = 0 THEN Value(<<>>, first) ELSE ReadCredential(file, version, read[i - 1])
    IN  read
Credentials_parse(file, first, version) == CredentialsRead(file, first, version)[Len(file)]

CacheOf(version, header, default, credentials) ==
    IF header.ok /\ default.ok /\ credentials.ok
    THEN Value([version |-> version, fields |-> header.value, default |-> default.value,
                credentials |-> credentials.value], credentials.next)
    ELSE Error
parse(file) ==
    LET version == file[2].int
        header == IF version = 4 THEN Header_parse(file, 3) ELSE Value(<<>>, 3)
        default == Principal_parse(file, header.next, version)
        credentials == Credentials_parse(file, default.next, version)
    IN  IF /\ CanRead(file, 1, <<"int", "int">>) /\ file[1].int = CCACHE_FIRST_BYTE
           /\ version \in 1 .. 4
        THEN CacheOf(version, header, default, credentials)
        ELSE Error

\* Replaces the credential of the same client and server, name types included.
upsert_credential(cache, c) ==
    LET same == {i \in DOMAIN cache.credentials :
                    /\ cache.credentials[i].client = c.client
                    /\ cache.credentials[i].server = c.server}
        first == CHOOSE i \in same : \A j \in same : i <= j
    IN  IF same = {} THEN [cache EXCEPT !.credentials = Append(@, c)]
        ELSE [cache EXCEPT !.credentials[first] = c]

is_config_credential(c) ==
    /\ c.server.realm = X_CACHECONF_REALM
    /\ Len(c.server.names) \in 2 .. 3
    /\ c.server.names[1] = X_CACHECONF_COMPONENT

\* principal, which a value may be about, is a sequence of at most one name.
config_entry(client, key, principal, value) ==
    [client |-> client,
     server |-> [realm |-> X_CACHECONF_REALM, type |-> 0,
                 names |-> <<X_CACHECONF_COMPONENT, key>> \o principal],
     etype |-> 0, key |-> 0, times |-> <<0, 0, 0, 0>>, skey |-> 0, flags |-> 0,
     addresses |-> <<>>, auth_data |-> <<>>, ticket |-> value, second |-> 0]

upsert_config_entry(cache, key, principal, value) ==
    upsert_credential(cache, config_entry(cache.default, key, principal, value))

\* The first entry with the key and principal, whichever client set it.
config_entry_value(cache, key, principal, none) ==
    LET found == {i \in DOMAIN cache.credentials :
                    /\ is_config_credential(cache.credentials[i])
                    /\ Tail(cache.credentials[i].server.names) = <<key>> \o principal}
        first == CHOOSE i \in found : \A j \in found : i <= j
    IN  IF found = {} THEN none ELSE cache.credentials[first].ticket

\* What is at some places of a list, in its order: the first i places, for
\* every i.
KeptOf(list, places) ==
    LET kept[i \in 0 .. Len(list)] ==
            IF i = 0 THEN <<>>
            ELSE IF i \in places THEN Append(kept[i - 1], list[i]) ELSE kept[i - 1]
    IN  kept
Retained(list, places) == KeptOf(list, places)[Len(list)]

\* A bug: the name type counts, and metadata goes with the tickets.
remove_entries_for_clientExact(cache, client) ==
    [cache EXCEPT !.credentials = Retained(@, {i \in DOMAIN @ : @[i].client # client})]
remove_entries_for_client(cache, client) ==
    [cache EXCEPT !.credentials = Retained(@, {i \in DOMAIN @ :
        ~ same_principal_identity(@[i].client, client) \/ is_config_credential(@[i])})]

entries(cache) ==
    Retained(cache.credentials, {i \in DOMAIN cache.credentials : ~ is_config_credential(cache.credentials[i])})

=============================================================================
