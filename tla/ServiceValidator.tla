-------------------------- MODULE ServiceValidator --------------------------
(***************************************************************************)
(* The AP-REQ acceptor of src/service.rs: validators running concurrently,  *)
(* each with a validation in progress, and the replay caches they share or  *)
(* own.  validate_ap_req reads the clock twice (for the ticket, then for    *)
(* the authenticator) and only then takes the lock of the replay cache, so  *)
(* a validation is three steps here; purges run between any two of them.    *)
(*                                                                          *)
(* A request is a record of what validation distinguishes:                  *)
(*   sname, stype, srealm             service: components, name type, realm *)
(*   etype, kvno, key                 enctype, version (0: absent) and key  *)
(*                                    the ticket was sealed with            *)
(*   start, end, invalid              ticket lifetime and INVALID flag      *)
(*   caddr                            ticket addresses or NoAddresses       *)
(*   pac                              "none", "good" or "bad" signatures    *)
(*   authOpens                        authenticator decrypts and decodes    *)
(*   tclient, aclient                 client of ticket and authenticator,   *)
(*                                    [name, type, realm]                   *)
(*   ctime, cusec                     authenticator time                    *)
(***************************************************************************)
EXTENDS Integers, Keytab

CONSTANTS Validators,           \* ServiceValidator instances
          Caches,               \* replay caches
          SharedCaches,         \* those held through a SharedReplayCache
          CacheOf,              \* cache each validator records in
          KeytabEntries,        \* keytab of the service
          KeytabPrincipal,      \* lookup principal override, or NoOverride
          NoOverride,
          ClientAddress,        \* observed address per validator, or NoAddress
          NoAddress,
          RequireClientAddress, \* per validator
          NoAddresses,          \* caddr of a ticket without addresses
          Requests,             \* AP-REQs that may be presented
          NoRequest,
          MaxClockSkew,         \* max_clock_skew
          MaxAge,               \* age the owner purges at
          MaxDelay,             \* longest validation, environment
          MaxTime               \* bound on the clock

ASSUME CacheAssumption ==
    /\ SharedCaches \subseteq Caches
    /\ CacheOf \in [Validators -> Caches]
    \* A local cache is a field of one validator.
    /\ \A v, w \in Validators :
          CacheOf[v] = CacheOf[w] /\ CacheOf[v] \notin SharedCaches => v = w

ASSUME TimeAssumption ==
    /\ MaxClockSkew \in Nat /\ MaxAge \in Nat /\ MaxDelay \in Nat
    /\ MaxTime \in Nat
    /\ \A r \in Requests : /\ r.ctime \in Nat /\ r.cusec \in Nat
                           /\ r.start \in Nat /\ r.end \in Nat
    /\ NoRequest \notin Requests

\* The retention the owner of a cache has to choose: a request may be first
\* presented MaxClockSkew before its authenticator's time and again
\* MaxClockSkew after it, by a validator that is MaxDelay slow.
ASSUME RetentionAssumption == MaxAge >= 2 * MaxClockSkew + MaxDelay

VARIABLES now,        \* system clock
          cache,      \* ReplayCache::entries: key -> presented_at, per cache
          pc,         \* progress of each validator
          job,        \* request each validator is working on
          began,      \* clock reading of validate_ticket_times
          stamp,      \* clock reading of the skew check
          verdict,    \* last result of each validator
          presented   \* history: <<cache, key>> recorded since the last clear

validatorVars == <<now, cache, pc, job, began, stamp, verdict, presented>>

\* Entry of a key that is not in the map.
Absent == -1

\* The key under which an AP-REQ is remembered: the authenticator's own
\* client, not the ticket's, and both principals with their name types.
ReplayKey(r) == [service |-> <<r.sname, r.stype, r.srealm>>,
                 client |-> r.aclient, ctime |-> r.ctime, cusec |-> r.cusec]

ReplayKeys == {ReplayKey(r) : r \in Requests}

\* authenticator_time of a request, or of its replay key.
AuthTime(r) == r.ctime + r.cusec

TicketErrors == {"NoKey", "Decrypt", "TicketNotYetValid", "TicketExpired",
                 "RequiredClientAddressMissing", "BadClientAddress", "Pac"}
AuthenticatorErrors == {"Authenticator", "ClientPrincipalMismatch", "ClockSkew"}
Verdicts == TicketErrors \cup AuthenticatorErrors \cup {"None", "Ok", "Replay"}

-----------------------------------------------------------------------------
(* Checks of validate_ap_req, in its order.                                 *)

starts_after_skew(start, t) == start - t > MaxClockSkew
expired_after_skew(t, end) == t - end > MaxClockSkew

abs_duration(left, right) == IF left >= right THEN left - right ELSE right - left

\* A bug: the expiry is not looked at.
validate_ticket_timesNoExpiry(r, t) ==
    IF starts_after_skew(r.start, t) \/ r.invalid THEN "TicketNotYetValid" ELSE "Ok"

validate_ticket_times(r, t) ==
    IF starts_after_skew(r.start, t) \/ r.invalid THEN "TicketNotYetValid"
    ELSE IF expired_after_skew(t, r.end) THEN "TicketExpired"
    ELSE "Ok"

validate_client_address(v, r) ==
    IF r.caddr = NoAddresses
    THEN IF RequireClientAddress[v] THEN "RequiredClientAddressMissing" ELSE "Ok"
    ELSE IF ClientAddress[v] # NoAddress /\ ClientAddress[v] \in r.caddr
         THEN "Ok"
         ELSE "BadClientAddress"

\* Up to and including the PAC: everything that depends on the ticket only.
TicketVerdict(v, r, t) ==
    LET principal == IF KeytabPrincipal = NoOverride THEN r.sname
                                                     ELSE KeytabPrincipal
        entry == find_key(KeytabEntries, principal, r.srealm, r.kvno, r.etype)
        times == validate_ticket_times(r, t)
        addr  == validate_client_address(v, r)
    IN  IF ~ entry.found THEN "NoKey"
        ELSE IF entry.key # r.key THEN "Decrypt"
        ELSE IF times # "Ok" THEN times
        ELSE IF addr # "Ok" THEN addr
        ELSE IF r.pac = "bad" THEN "Pac"
        ELSE "Ok"

\* From the authenticator to the skew check.  Only the client's components
\* are compared, not its realm.
AuthenticatorVerdict(r, t) ==
    IF ~ r.authOpens THEN "Authenticator"
    ELSE IF r.aclient.name # r.tclient.name THEN "ClientPrincipalMismatch"
    ELSE IF abs_duration(t, AuthTime(r)) > MaxClockSkew THEN "ClockSkew"
    ELSE "Ok"

-----------------------------------------------------------------------------
ValidatorInit ==
    /\ now = 0
    /\ cache = [c \in Caches |-> [k \in ReplayKeys |-> Absent]]
    /\ pc = [v \in Validators |-> "idle"]
    /\ job = [v \in Validators |-> NoRequest]
    /\ began = [v \in Validators |-> 0]
    /\ stamp = [v \in Validators |-> 0]
    /\ verdict = [v \in Validators |-> "None"]
    /\ presented = {}

\* validate_ap_req up to the PAC, with the first clock reading.
CheckTicket(v, r) ==
    LET result == TicketVerdict(v, r, now) IN
    /\ pc[v] = "idle"
    /\ \/ /\ result = "Ok"
          /\ pc' = [pc EXCEPT ![v] = "authenticator"]
          /\ job' = [job EXCEPT ![v] = r]
          /\ began' = [began EXCEPT ![v] = now]
          /\ verdict' = [verdict EXCEPT ![v] = "None"]
       \/ /\ result # "Ok"
          /\ verdict' = [verdict EXCEPT ![v] = result]
          /\ UNCHANGED <<pc, job, began>>
    /\ UNCHANGED <<now, cache, stamp, presented>>

\* validate_ap_req returns: its locals are gone.
Return(v, result) ==
    /\ pc' = [pc EXCEPT ![v] = "idle"]
    /\ job' = [job EXCEPT ![v] = NoRequest]
    /\ began' = [began EXCEPT ![v] = 0]
    /\ stamp' = [stamp EXCEPT ![v] = 0]
    /\ verdict' = [verdict EXCEPT ![v] = result]

\* The authenticator, with the second clock reading.
CheckAuthenticator(v) ==
    LET result == AuthenticatorVerdict(job[v], now) IN
    /\ pc[v] = "authenticator"
    /\ \/ /\ result = "Ok"
          /\ pc' = [pc EXCEPT ![v] = "record"]
          /\ stamp' = [stamp EXCEPT ![v] = now]
          /\ UNCHANGED <<job, began, verdict>>
       \/ /\ result # "Ok"
          /\ Return(v, result)
    /\ UNCHANGED <<now, cache, presented>>

\* ReplayCache::insert: the stamp is replaced even when the key was there.
insert(c, k, presented_at) == cache' = [cache EXCEPT ![c][k] = presented_at]

\* A bug: a key counts as known only with the stamp it is recorded with.
record_replayByStamp(v) ==
    LET c == CacheOf[v]
        k == ReplayKey(job[v])
    IN  /\ pc[v] = "record"
        /\ insert(c, k, stamp[v])
        /\ Return(v, IF cache[c][k] # stamp[v] THEN "Ok" ELSE "Replay")
        /\ presented' = presented \cup {<<c, k>>}
        /\ UNCHANGED now

\* record_replay, under the cache's lock, and the end of validate_ap_req.
record_replay(v) ==
    LET c == CacheOf[v]
        k == ReplayKey(job[v])
    IN  /\ pc[v] = "record"
        /\ insert(c, k, stamp[v])
        /\ Return(v, IF cache[c][k] = Absent THEN "Ok" ELSE "Replay")
        /\ presented' = presented \cup {<<c, k>>}
        /\ UNCHANGED now

\* replay_cache_mut borrows the validator: its own cache can only be purged
\* between validations.  A shared cache can be purged at any time.
MayBorrow(c) ==
    c \in SharedCaches \/ \A v \in Validators : CacheOf[v] = c => pc[v] = "idle"

\* A bug: an entry exactly MaxAge old is dropped.
RetainedStrictly(presented_at) == now - presented_at < MaxAge

\* Entries stay while their age is at most MaxAge.  A stamp ahead of the
\* clock (duration_since fails) stays too.
Retained(presented_at) == now - presented_at <= MaxAge

clear_older_than(c) ==
    /\ MayBorrow(c)
    /\ cache' = [cache EXCEPT ![c] =
                    [k \in ReplayKeys |->
                        IF Retained(cache[c][k]) THEN cache[c][k] ELSE Absent]]
    /\ UNCHANGED <<now, pc, job, began, stamp, verdict, presented>>

clear(c) ==
    /\ MayBorrow(c)
    /\ cache' = [cache EXCEPT ![c] = [k \in ReplayKeys |-> Absent]]
    /\ presented' = {p \in presented : p[1] # c}
    /\ UNCHANGED <<now, pc, job, began, stamp, verdict>>

\* Time passes (the clock is assumed not to be set back); no validation takes
\* longer than MaxDelay.
Tick ==
    /\ now < MaxTime
    /\ \A v \in Validators : pc[v] # "idle" => now - began[v] < MaxDelay
    /\ now' = now + 1
    /\ UNCHANGED <<cache, pc, job, began, stamp, verdict, presented>>

ValidatorNext ==
    \/ \E v \in Validators, r \in Requests : CheckTicket(v, r)
    \/ \E v \in Validators : CheckAuthenticator(v)
    \/ \E v \in Validators : record_replay(v)
    \/ \E c \in Caches : clear_older_than(c)
    \/ \E c \in Caches : clear(c)
    \/ Tick

ValidatorSpec == ValidatorInit /\ [][ValidatorNext]_validatorVars

-----------------------------------------------------------------------------
(* Properties.                                                              *)

ValidatorTypeOK ==
    /\ now \in Nat
    /\ cache \in [Caches -> [ReplayKeys -> Nat \cup {Absent}]]
    /\ pc \in [Validators -> {"idle", "authenticator", "record"}]
    /\ job \in [Validators -> Requests \cup {NoRequest}]
    /\ \A v \in Validators : pc[v] # "idle" => job[v] \in Requests
    /\ began \in [Validators -> Nat]
    /\ stamp \in [Validators -> Nat]
    /\ verdict \in [Validators -> Verdicts]
    /\ presented \subseteq Caches \X ReplayKeys

\* A cached stamp never leaves the skew window of its authenticator, although
\* a replay overwrites the stamp and a slow validator may write an older one:
\* presenting a request again and again cannot pin its entry in the cache.
StampsInWindow ==
    \A c \in Caches, k \in ReplayKeys :
        cache[c][k] # Absent => abs_duration(cache[c][k], AuthTime(k)) <= MaxClockSkew

\* Whatever was recorded since the last clear is still in the cache, or is so
\* old that no validation in progress or to come can pass the skew check with
\* it: clear_older_than never removes an entry that is still needed.
RetentionCoversReplays ==
    \A p \in presented :
        \/ cache[p[1]][p[2]] # Absent
        \/ now > AuthTime(p[2]) + MaxClockSkew + MaxDelay

\* The step in which validator v accepts the request it works on.
AcceptsRequest(v) == pc[v] = "record" /\ pc'[v] = "idle" /\ verdict'[v] = "Ok"

\* At the moment a request is accepted, with both clock readings already
\* stale, its ticket and its authenticator are current up to the skew and the
\* duration of the validation.
AcceptedCurrent(r) ==
    /\ r.start <= now + MaxClockSkew
    /\ now <= r.end + MaxClockSkew + MaxDelay
    /\ ~ r.invalid
    /\ AuthTime(r) <= now + MaxClockSkew
    /\ now <= AuthTime(r) + MaxClockSkew + MaxDelay

AcceptedWhileCurrent ==
    [][\A v \in Validators : AcceptsRequest(v) => AcceptedCurrent(job[v])]_validatorVars

\* Between two steps of a validation: the clock readings it carries are at
\* most MaxDelay old, and it passed its checks with them.
ValidationsInTime ==
    \A v \in Validators :
        /\ pc[v] # "idle" =>
              /\ began[v] <= now /\ now <= began[v] + MaxDelay
              /\ validate_ticket_times(job[v], began[v]) = "Ok"
        /\ pc[v] = "record" =>
              /\ began[v] <= stamp[v] /\ stamp[v] <= now
              /\ abs_duration(stamp[v], AuthTime(job[v])) <= MaxClockSkew

\* Nothing is in a cache that was not recorded there since it was cleared.
CachedWasPresented ==
    \A c \in Caches, k \in ReplayKeys :
        cache[c][k] # Absent => <<c, k>> \in presented

\* The inductive invariant.
ValidatorInv ==
    /\ ValidatorTypeOK
    /\ StampsInWindow
    /\ ValidationsInTime
    /\ RetentionCoversReplays
    /\ CachedWasPresented

\* The aged, concurrently purged cache gives every request the verdict a
\* memory that never forgets would give it: a key is accepted once, whichever
\* validators present it in whatever order, and "Replay" is only said of a key
\* that was presented before.
Guard == INSTANCE ReplayGuard
             WITH OtherErrors <- TicketErrors \cup AuthenticatorErrors

PurgingIsInvisible == Guard!GuardSpec

=============================================================================
