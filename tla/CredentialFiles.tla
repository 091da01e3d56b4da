-------------------------- MODULE CredentialFiles ---------------------------
(***************************************************************************)
(* Processes that keep credentials in one file: clients that save, update   *)
(* and reload their sessions in a credential cache (the ccache methods of   *)
(* TokioClient, src/client.rs), or administrators that add keys to a keytab *)
(* (src/keytab.rs).                                                         *)
(*                                                                          *)
(* Nothing locks the file.  An update reads it whole, and later truncates   *)
(* it and writes it anew (std::fs::write); other processes may come between *)
(* any two of these steps, and the writer may die or run out of space       *)
(* before the last.                                                         *)
(***************************************************************************)
EXTENDS CCache, KeytabFile, FiniteSets

CONSTANTS Nil,
          Processes,
          Configs,      \* [format, client, name, initial]: see FilesInit
          KeytabName,   \* [principal, realm]: whose keys the keytab holds
          Stamps, Kvnos,
          Offers,       \* new tickets: [service, end, renew]
          Now,          \* the clock, at rest
          TimeLimit,    \* the last second that 32 bits hold
          ConfigKey,
          Cuts,         \* bound: after how many cells writing may stop for a moment
          MaxTickets, MaxKeys, MaxChanges    \* bounds

VARIABLES config,
          primary,   \* the file "primary" of the DIR collection
          file,      \* its cells, Nil when it is absent
          process,   \* [pc, op, client, sessions, todo, after, at, seen]
          tickets,   \* tickets issued, keys made
          changes,   \* times the file was opened for writing
          store,     \* history: the content as atomic updates would leave it
          troubles,  \* history: why the file may differ from it
          issued     \* history: the credentials that clients had

fileVars == <<config, primary, file, process, tickets, changes, store, troubles, issued>>

-----------------------------------------------------------------------------
(* Sessions and credentials.                                                *)

is_tgt(service) == Len(service.names) >= 2 /\ service.names[1] = "krbtgt"

\* Where a session is kept: TGTs by realm, tickets by service.
SessionKey(s) ==
    IF is_tgt(s.service) THEN [tgt |-> TRUE, realm |-> s.service.names[Len(s.service.names)], names |-> <<>>]
    ELSE [tgt |-> FALSE, realm |-> s.service.realm, names |-> s.service.names]

Seconds(s) == {s.auth, s.start, s.end} \cup (IF s.renew = Nil THEN {} ELSE {s.renew})
InRange(s) == \A t \in Seconds(s) : t <= TimeLimit

to_ccache_credential(s) ==
    [client |-> s.client, server |-> s.service, etype |-> 18, key |-> s.key,
     times |-> <<s.auth, s.start, s.end, IF s.renew = Nil THEN 0 ELSE s.renew>>,
     skey |-> 0, flags |-> s.flags, addresses |-> <<>>, auth_data |-> <<>>,
     ticket |-> s.ticket, second |-> 0]

ccache_credential_session(c) ==
    [client |-> c.client, service |-> c.server, key |-> c.key, ticket |-> c.ticket,
     flags |-> c.flags, auth |-> c.times[1],
     start |-> IF c.times[2] = 0 THEN c.times[1] ELSE c.times[2],
     end |-> c.times[3], renew |-> IF c.times[4] = 0 THEN Nil ELSE c.times[4]]

session_valid(s) == s.start <= Now /\ Now < s.end
prefer_current(current, candidate) ==
    IF session_valid(current) # session_valid(candidate) THEN session_valid(current)
    ELSE current.end >= candidate.end

\* cache_tgt_session_at and cache_service_ticket.
CacheSession(sessions, s) ==
    LET current == {x \in sessions : SessionKey(x) = SessionKey(s)}
    IN  IF \E x \in current : prefer_current(x, s) THEN sessions
        ELSE (sessions \ current) \cup {s}

\* The sessions one by one, TGTs first.
SessionLists(sessions) ==
    {list \in [1 .. Cardinality(sessions) -> sessions] :
        \A i, j \in DOMAIN list : i < j =>
            list[i] # list[j] /\ (is_tgt(list[j].service) => is_tgt(list[i].service))}
ccache_credentials(sessions) ==
    LET list == CHOOSE x \in SessionLists(sessions) : TRUE
    IN  [i \in DOMAIN list |-> to_ccache_credential(list[i])]

\* The cache after the first i credentials, for every i.
Upserts(cache, credentials) ==
    LET after[i \in 0 .. Len(credentials)] ==
            IF i = 0 THEN cache ELSE upsert_credential(after[i - 1], credentials[i])
    IN  after
Upserted(cache, credentials) == Upserts(cache, credentials)[Len(credentials)]

to_ccache(client, sessions) == Upserted(NewCache(client), ccache_credentials(sessions))

update_ccache(cache, client, sessions) ==
    Upserted(remove_entries_for_client([cache EXCEPT !.default = client], client),
             ccache_credentials(sessions))

\* from_ccache: a session for each credential of the cache's default principal.
\* A bug: for those of all clients.
AddSessionAll(sessions, c, client) == CacheSession(sessions, ccache_credential_session(c))
AddSession(sessions, c, client) ==
    IF same_principal_identity(c.client, client)
    THEN CacheSession(sessions, ccache_credential_session(c)) ELSE sessions
SessionsOf(list, client) ==
    LET sessions[i \in 0 .. Len(list)] ==
            IF i = 0 THEN {} ELSE AddSession(sessions[i - 1], list[i], client)
    IN  sessions
from_ccache(cache) == SessionsOf(entries(cache), cache.default)[Len(entries(cache))]

\* The content of a cache: tickets and settings, in whichever order.
Stores == [version : 1 .. 4, default : Principals, entries : SUBSET CredentialRecords,
           conf : SUBSET CredentialRecords]
CacheContent(cache) ==
    LET found == {cache.credentials[i] : i \in DOMAIN cache.credentials}
        conf == {c \in found : is_config_credential(c)}
    IN  [version |-> cache.version, default |-> cache.default,
         entries |-> found \ conf, conf |-> conf]

\* Nothing is set twice for the same client.
OneSetting(cache) ==
    \A i, j \in DOMAIN cache.credentials :
        LET c == cache.credentials[i]
            d == cache.credentials[j]
        IN  is_config_credential(c) /\ c.client = d.client /\ c.server = d.server => i = j

\* The keys of a keytab that are under KeytabName.
KeytabContent(keytab) ==
    {[kvno |-> e.kvno, timestamp |-> e.timestamp, etype |-> e.etype, key |-> e.key] :
        e \in {keytab.entries[i] : i \in {j \in DOMAIN keytab.entries :
                    /\ keytab.entries[j].principal = KeytabName.principal
                    /\ keytab.entries[j].realm = KeytabName.realm}}}

ASSUME NilAssumption == Nil \notin Seq(Cell) /\ Nil \notin Stores
ASSUME InputAssumption ==
    /\ \A o \in Offers : /\ o.service \in Principals /\ o.end \in Int /\ o.renew \in Int \cup {Nil}
                        /\ ~ is_config_credential([server |-> o.service])
    /\ ConfigKey \in Text /\ KeytabName \in [principal : Seq(Text), realm : Text]
    /\ Stamps \subseteq Int /\ Kvnos \subseteq Int /\ Now \in Int /\ Cuts \subseteq Nat
\* The file is absent, or one that other programs left.
ASSUME ConfigAssumption ==
    \A c \in Configs :
        LET old == c.initial.file
            content == c.initial.store
        IN  \/ c.format = "ccache" /\ old = Nil /\ content = Nil
            \/ c.format = "keytab" /\ old = Nil /\ content = <<>>
            \/ /\ c.format = "ccache" /\ old \in Seq(Cell) /\ parse(old).ok
               /\ old = to_bytes(parse(old).value) /\ OneSetting(parse(old).value)
               /\ content = CacheContent(parse(old).value)
            \/ /\ c.format = "keytab" /\ old \in Seq(Cell) /\ keytab_parse(old).ok
               /\ content \in Seq([kvno : Int, timestamp : Int, etype : Int, key : Int])
               /\ {content[i] : i \in DOMAIN content} = KeytabContent(keytab_parse(old).value)
ASSUME ClientAssumption ==
    \A c \in Configs, p \in Processes : c.format = "ccache" => c.client[p] \in Principals

-----------------------------------------------------------------------------
(* Names: [type, rest] with an empty type for a bare path; every path here  *)
(* is that of the file, "/d/tkt", or of its directory.                      *)

\* The environment comes before the configuration.
default_ccache_name(names) ==
    IF names.env # Nil THEN names.env ELSE names.configured

file_path_from_name(name, allowed) ==
    IF name.rest = "" THEN Nil
    ELSE IF name.type \in allowed \cup {""} THEN name.rest ELSE Nil

validate_dir_subsidiary_path(path) == IF path = "/d/tkt" THEN path ELSE Nil

\* parse_dir_primary_name: without a whole line there is no name.
dir_collection_primary_path(directory) ==
    IF directory = "/d" /\ primary = "tkt\n" THEN "/d/tkt" ELSE Nil

\* DIR:directory and DIR::path.
is_collection(name) == name.type = "DIR"
file_path_from_cache_name(name) ==
    IF name = Nil THEN Nil
    ELSE IF is_collection(name) THEN dir_collection_primary_path(name.rest)
    ELSE IF name.type = "DIR:" THEN validate_dir_subsidiary_path(name.rest)
    ELSE file_path_from_name(name, {"FILE", "WRFILE"})

file_path_from_keytab_name(name) == file_path_from_name(name, {"FILE", "WRFILE"})

-----------------------------------------------------------------------------
(* The processes.                                                           *)

Resting(p) == [pc |-> "idle", op |-> Nil, client |-> process[p].client,
               sessions |-> process[p].sessions, after |-> Nil, todo |-> <<>>, at |-> 0, seen |-> 0]

FilesInit ==
    /\ config \in Configs
    /\ primary = "absent"
    /\ file = config.initial.file
    /\ process = [p \in Processes |->
            [pc |-> "idle", op |-> Nil, client |-> config.client[p], sessions |-> {},
             after |-> Nil, todo |-> <<>>, at |-> 0, seen |-> 0]]
    /\ tickets = 0 /\ changes = 0
    /\ store = config.initial.store
    /\ troubles = {}
    /\ issued = IF config.format = "ccache" /\ store # Nil THEN store.entries ELSE {}

\* The client gets a ticket, by exchanges that are not modelled here.
Obtain(p, offer) ==
    LET s == [client |-> process[p].client, service |-> offer.service, key |-> tickets + 1,
              ticket |-> tickets + 1, flags |-> 0, auth |-> 1, start |-> 1,
              end |-> offer.end, renew |-> offer.renew]
    IN  /\ config.format = "ccache" /\ process[p].pc = "idle" /\ tickets < MaxTickets
        /\ tickets' = tickets + 1
        /\ process' = [process EXCEPT ![p].sessions = CacheSession(@, s)]
        /\ issued' = issued \cup {to_ccache_credential(s)}
        /\ UNCHANGED <<config, primary, file, changes, store, troubles>>

\* An operation that finds a collection without its primary file creates the
\* file, which is empty for a moment, and goes on.
Name(p) == default_ccache_name(config.name[p])
NoPrimary(p) == is_collection(Name(p)) /\ primary = "absent"
Goto(p, pc) == process' = [process EXCEPT ![p].pc = pc]
FindNoPrimary(p) ==
    /\ process[p].pc = "idle" /\ NoPrimary(p)
    /\ Goto(p, "no primary")
    /\ UNCHANGED <<config, primary, file, tickets, changes, store, troubles, issued>>
CreatePrimary(p) ==
    /\ process[p].pc = "no primary"
    /\ primary' = ""
    /\ Goto(p, "primary")
    /\ UNCHANGED <<config, file, tickets, changes, store, troubles, issued>>
WritePrimary(p) ==
    /\ process[p].pc = "primary"
    /\ primary' = "tkt\n"
    /\ Goto(p, "idle")
    /\ UNCHANGED <<config, file, tickets, changes, store, troubles, issued>>

\* The process may begin an operation, and finds the path of the file.
Resolved(p, format) ==
    /\ config.format = format /\ process[p].pc = "idle" /\ ~ NoPrimary(p)
    /\ Nil # IF format = "keytab" THEN file_path_from_keytab_name(Name(p))
             ELSE file_path_from_cache_name(Name(p))

\* Others are between truncating the file and having written it.
Writing(p) == \E q \in Processes \ {p} : process[q].pc = "writing"

\* A principal and a credential as a cache of some version keeps them: version 1
\* has no name types.
Stored(version, p) == IF version = 1 THEN [p EXCEPT !.type = 0] ELSE p
StoredCredential(version, c) ==
    [c EXCEPT !.client = Stored(version, @), !.server = Stored(version, @)]

\* The new content is ready to be written: cells, and the store as the
\* operation by itself would leave it.  seen is the state of the file that was
\* read, -1 when another process was writing it.
Prepare(p, op, cells, after) ==
    /\ changes < MaxChanges
    /\ process' = [process EXCEPT ![p].pc = "prepared", ![p].op = op,
                                  ![p].todo = cells, ![p].after = after,
                                  ![p].seen = IF Writing(p) THEN 0 - 1 ELSE changes]
    /\ UNCHANGED <<config, primary, file, tickets, changes, store, troubles, issued>>
\* The operation returns an error and leaves the file alone.
Refuse(p) ==
    /\ process' = [process EXCEPT ![p] = Resting(p)]
    /\ UNCHANGED <<config, primary, file, tickets, changes, store, troubles, issued>>

Credentials(p) == {to_ccache_credential(s) : s \in process[p].sessions}
Convertible(p) == \A s \in process[p].sessions : InRange(s)
NewStore(p) ==
    [version |-> 4, default |-> process[p].client, entries |-> Credentials(p), conf |-> {}]

save_ccache(p) ==
    /\ Resolved(p, "ccache")
    /\ IF Convertible(p)
       THEN Prepare(p, "save", to_bytes(to_ccache(process[p].client, process[p].sessions)), NewStore(p))
       ELSE Refuse(p)

\* A missing file is created; one that cannot be read is left alone.
update_ccache_file(p) ==
    LET client == process[p].client
        cache == IF file = Nil THEN Value(NewCache(client), 1) ELSE parse(file)
        others == {c \in store.entries : \/ c.client.realm # client.realm
                                         \/ c.client.names # client.names}
    IN  /\ Resolved(p, "ccache")
        /\ IF cache.ok /\ Convertible(p)
           THEN Prepare(p, "update", to_bytes(update_ccache(cache.value, client, process[p].sessions)),
                        IF store = Nil THEN NewStore(p)
                        ELSE [store EXCEPT
                                !.default = Stored(store.version, client),
                                !.entries = others \cup {StoredCredential(store.version, c) :
                                                            c \in Credentials(p)}])
           ELSE Refuse(p)

\* An application loads a cache, sets a configuration entry and saves it.
SetConfig(p) ==
    LET cache == IF file = Nil THEN Error ELSE parse(file)
        value == changes + 1
        entry == config_entry(store.default, ConfigKey, <<>>, value)
    IN  /\ Resolved(p, "ccache")
        /\ IF cache.ok
           THEN Prepare(p, "config", to_bytes(upsert_config_entry(cache.value, ConfigKey, <<>>, value)),
                        IF store = Nil THEN Nil
                        ELSE [store EXCEPT !.conf = {entry} \cup
                                {x \in @ : x.client # entry.client \/ x.server # entry.server}])
           ELSE Refuse(p)

\* A client is made from the file.
from_ccache_name(p) ==
    LET cache == IF file = Nil THEN Error ELSE parse(file)
        sessions == from_ccache(cache.value)
    IN  /\ Resolved(p, "ccache")
        /\ IF cache.ok
           THEN /\ process' = [process EXCEPT ![p] =
                        [Resting(p) EXCEPT !.client = cache.value.default, !.sessions = sessions]]
                /\ issued' = issued \cup {to_ccache_credential(s) : s \in sessions}
                /\ UNCHANGED <<config, primary, file, tickets, changes, store, troubles>>
           ELSE Refuse(p)

\* An administrator loads a keytab, adds a key and saves it.
AddKey(p, stamp, kvno) ==
    LET keytab == IF file = Nil THEN Value(NewKeytab, 1) ELSE keytab_parse(file)
        added == add_entry_from_password(keytab.value, KeytabName.principal, KeytabName.realm,
                                         tickets + 1, stamp, kvno, 18)
        key == [kvno |-> kvno, timestamp |-> stamp, etype |-> 18, key |-> tickets + 1]
    IN  /\ Resolved(p, "keytab") /\ tickets < MaxKeys /\ changes < MaxChanges
        /\ IF keytab.ok /\ \A i \in DOMAIN keytab.value.entries : CanWrite(keytab.value.entries[i])
           THEN /\ tickets' = tickets + 1
                /\ process' = [process EXCEPT ![p].pc = "prepared", ![p].op = "add",
                        ![p].todo = keytab_to_bytes(added), ![p].after = Append(store, key),
                        ![p].seen = IF Writing(p) THEN 0 - 1 ELSE changes]
                /\ UNCHANGED <<config, primary, file, changes, store, troubles, issued>>
           ELSE Refuse(p)

\* save opens the file and truncates it.  A file that was changed since it was
\* read, or is being written, makes this an overlap.
Open(p) ==
    LET fresh == process[p].op = "save"
        overlaps == Writing(p) \/ (~ fresh /\ process[p].seen # changes)
    IN  /\ process[p].pc = "prepared" /\ changes < MaxChanges
        /\ file' = <<>>
        /\ changes' = changes + 1
        /\ process' = [process EXCEPT ![p].pc = "writing",
                                      ![p].seen = IF Writing(p) THEN 0 - 1 ELSE changes + 1]
        /\ troubles' = IF overlaps THEN troubles \cup {"overlap"} ELSE troubles
        /\ UNCHANGED <<config, primary, tickets, store, issued>>

\* Cells written over a file from some place on; a gap reads as a hole.
Overlaid(cells, at) ==
    [i \in 1 .. IF Len(file) > at + Len(cells) THEN Len(file) ELSE at + Len(cells) |->
        IF i \in at + 1 .. at + Len(cells) THEN cells[i - at]
        ELSE IF i <= Len(file) THEN file[i] ELSE [part |-> 0]]

\* The first part of the content; the second is the rest.
WriteSome(p, n) ==
    /\ process[p].pc = "writing" /\ process[p].at = 0 /\ n < Len(process[p].todo)
    /\ file' = Overlaid(SubSeq(process[p].todo, 1, n), 0)
    /\ process' = [process EXCEPT ![p].at = n]
    /\ UNCHANGED <<config, primary, tickets, changes, store, troubles, issued>>

WriteRest(p) ==
    LET at == process[p].at
    IN  /\ process[p].pc = "writing"
        /\ file' = Overlaid(SubSeq(process[p].todo, at + 1, Len(process[p].todo)), at)
        /\ process' = [process EXCEPT ![p] = Resting(p)]
        /\ store' = process[p].after
        \* A fresh cache, with nobody else writing, makes up for all before.
        /\ troubles' = IF process[p].op = "save" /\ process[p].seen = changes
                       THEN {} ELSE troubles
        /\ UNCHANGED <<config, primary, tickets, changes, issued>>

\* Writing fails or the process dies, between two fields or inside one.  A
\* process that died is one that takes no more steps.
Damage(p, inside) ==
    /\ process[p].pc = "writing"
    /\ file' = IF inside THEN Overlaid(<<[part |-> 0]>>, process[p].at) ELSE file
    /\ process' = [process EXCEPT ![p] = Resting(p)]
    /\ troubles' = troubles \cup {"damage"}
    /\ UNCHANGED <<config, primary, tickets, changes, store, issued>>

FilesNext ==
    \E p \in Processes :
        \/ \E offer \in Offers : Obtain(p, offer)
        \/ FindNoPrimary(p) \/ CreatePrimary(p) \/ WritePrimary(p)
        \/ save_ccache(p) \/ update_ccache_file(p) \/ SetConfig(p) \/ from_ccache_name(p)
        \/ \E stamp \in Stamps, kvno \in Kvnos : AddKey(p, stamp, kvno)
        \/ Open(p)
        \/ \E n \in Cuts : WriteSome(p, n)
        \/ WriteRest(p)
        \/ \E inside \in BOOLEAN : Damage(p, inside)

FilesSpec == FilesInit /\ [][FilesNext]_fileVars

-----------------------------------------------------------------------------
(* Properties.                                                              *)

Quiet == \A p \in Processes : process[p].pc # "writing"

FilesTypeOK ==
    /\ primary \in {"absent", "", "tkt\n"}
    /\ \A p \in Processes :
          process[p].pc \in {"idle", "no primary", "primary", "prepared", "writing"}
    /\ tickets \in Nat /\ changes \in Nat
    /\ troubles \subseteq {"overlap", "damage"}

\* Updates and saves that do not overlap lose nothing: the file is what the
\* operations would leave one after another.  update_ccache_file replaces all
\* tickets of its own client, whatever name type they are under, and keeps the
\* tickets of other clients and the configuration entries; errors on the way
\* (a file that cannot be read, a time that does not fit) change nothing.  A
\* configuration entry is read back as it was last set, unless it was set for
\* two default principals.
FileIsLatest ==
    config.format = "ccache" /\ troubles = {} /\ Quiet =>
        IF store = Nil THEN file = Nil
        ELSE LET cache == parse(file)
             IN  /\ file # Nil /\ cache.ok
                 /\ CacheContent(cache.value) = store
                 /\ \A x \in store.conf :
                        {y \in store.conf : Tail(y.server.names) = <<ConfigKey>>} = {x} =>
                        config_entry_value(cache.value, ConfigKey, <<>>, Nil) = x.ticket

\* A cache that was cut short, by a writer that died or failed or because it is
\* being written, is refused or read as what was there: every cell of it is
\* accounted for, and every credential in it is one that a client had, with its
\* own key and ticket.  Writers that overlap may leave a mixture.
DamageIsNoticed ==
    config.format = "ccache" /\ file # Nil /\ "overlap" \notin troubles =>
        LET cache == parse(file)
        IN  cache.ok =>
                /\ to_bytes(cache.value) = file
                /\ \A i \in DOMAIN cache.value.credentials :
                        LET c == cache.value.credentials[i]
                        IN  is_config_credential(c) \/
                            c \in {StoredCredential(cache.value.version, x) : x \in issued}

\* A client made from a file that nothing happened to is that of the last
\* client that saved there, and has one session for each realm and service it
\* had tickets for: a valid one, if there is one, and none that ends later.
Reloads(p) ==
    LET sessions == process'[p].sessions
        own == {ccache_credential_session(c) :
                    c \in {x \in store.entries : same_principal_identity(x.client, store.default)}}
    IN  /\ process'[p].client = store.default
        /\ sessions \subseteq own
        /\ \A s \in own : Cardinality({x \in sessions : SessionKey(x) = SessionKey(s)}) = 1
        /\ \A s \in own, x \in sessions : SessionKey(x) = SessionKey(s) =>
                /\ session_valid(s) => session_valid(x)
                /\ session_valid(s) = session_valid(x) => s.end <= x.end
ReloadedIsSaved ==
    [][\A p \in Processes :
            troubles = {} /\ Quiet /\ store # Nil /\ from_ccache_name(p) => Reloads(p)]_fileVars

\* Keys can be found in a keytab that administrators added to one after
\* another, also in one that other tools left entries, deleted entries and old
\* formats in: by key version, and the newest for any version.
KeysFound ==
    config.format = "keytab" /\ troubles = {} /\ Quiet /\ file # Nil =>
        LET keytab == keytab_parse(file)
        IN  /\ keytab.ok
            /\ \A kvno \in {AnyKvno} \cup {store[i].kvno : i \in DOMAIN store} :
                LET match == find_key(keytab.value.entries, KeytabName.principal,
                                      KeytabName.realm, kvno, 18)
                    keys == {i \in DOMAIN store : store[i].etype = 18 /\ kvno \in {AnyKvno, store[i].kvno}}
                IN  IF keys = {} THEN ~ match.found
                    ELSE /\ match.found
                         /\ \E i \in keys :
                                /\ match.key = store[i].key /\ match.kvno = store[i].kvno
                                /\ \A j \in keys : store[j].timestamp <= store[i].timestamp
=============================================================================
