# A TLA+ verification of rskrb5

rskrb5 is a Kerberos 5 library in Rust: a client that obtains, caches and renews
tickets, and an acceptor that validates the requests (AP-REQ) of clients, with
HTTP Negotiate, SPNEGO, password change and file formats around them.  This
directory holds TLA+ models of its stateful parts, the TLC configurations that
check them on small instances, and TLAPS proofs of the main results for every
value of the constants.  `PROJECT.json` maps every definition to the lines it
translates and lists runs, mutants, hazards, findings and theorems.

Run a model with `tlc -config X.cfg M` and a proof module with `tlapm M.tla`.

## 1. The system

| component | source | state | operations | hard behaviour |
|---|---|---|---|---|
| AP-REQ acceptor | `service.rs` | replay cache (key -> time presented), owned or shared behind a mutex | `validate_ap_req`, `clear`, `clear_older_than` | threads share a cache that is purged while validations run; two clock readings, both before the lock |
| keytab | `keytab.rs` | list of keys in a file | `find_key`, reader, writer, `add_entry_from_password` | choice between key versions; deleted slots of other tools |
| client sessions | `client.rs` (`TokioClient`) | credentials, primary TGT, TGT per realm, ticket per service | `login`, `affirm_login`, `refresh_tgt_if_needed`, `renew_tgt*`, `get_service_ticket`, S4U, cache editors, `prune_*`, `destroy` | exchanges suspended at awaits and dropped there; the same TGT in two fields; clocks that differ |
| auto-renewal | `client.rs` (`spawn_auto_renewal`) | a task, its sleep | plan, sleep, refresh, back off, abort | contends with the application for the client's mutex; aborted in mid-exchange |
| KDC transport | `client/transport.rs` | one socket per attempt | `send_udp`, `send_tcp`, `send_to_realm`, discovery | failover, UDP/TCP fallback, timeouts, late replies |
| TGS exchanges, referrals | `client.rs`, `client/transport.rs` | trace of tickets obtained | `renew_tgt`, `renew_ticket`, S4U, `get_service_ticket_with_referral_trace_limit`, `process_tgs_rep` | realms that refer in circles; repeated replies |
| AS exchange | `client.rs`, `client/transport.rs` | login in progress | `login_as_service_*`, `process_as_rep` | preauthentication hints and retry, answers to the first request that arrive at the second |
| ccache | `ccache.rs`, `client.rs`, `file_name.rs` | credentials in a file, primary file of a collection | upsert, remove, configuration entries, `save_ccache`, `update_ccache_file`, `from_ccache` | load-change-save by several processes, writes that stop half way, four versions of the format |
| HTTP Negotiate | `http.rs` | replay cache of a layer, wrapped service's futures | client retry on 401, Tower middleware | a request is recorded before the answer is built; requests and responses repeated or exchanged by proxies; restarts |
| SPNEGO/GSS | `spnego.rs` | initiator context; token under construction | contexts, negotiation tokens, MIC and Wrap tokens | calls on a token in any order, some failing half way; unprotected counts |
| password change | `client/kpasswd.rs`, `kadmin.rs`, `krb_priv.rs` | the client's stored password | login, request, check of the answer | a change carried out whose answer is lost, sent twice, or carried out late |
| configuration | `config.rs`, `client/options.rs` | realms, servers, domains | search for files, parser, lookups | sections repeated and continued over files |
| codecs, PAC, crypto | `messages.rs`, `ticket.rs`, `pac.rs`, `crypto.rs`, ... | - | encode, decode, encrypt | - |
| compatibility report | `evaluation/` | - | - | - |

How they interact: an application (or the Negotiate facade, or the HTTP client
side) calls `TokioClient`; it builds requests, hands them to the transport,
processes the replies and files the sessions in its caches.  The renewal task
calls the same methods through the client's mutex.  On the server side the HTTP
middleware calls `ServiceValidator`, which looks up a key in the keytab, opens
the ticket and the authenticator and asks the replay cache.

What makes each part correct:

* acceptor: a request is accepted at most once although the cache is purged,
  and only while its ticket and authenticator are current;
* client: the fields that hold the primary TGT agree; a lapsed or superseded TGT
  is not used; a good one is not replaced by a worse one; calls return; a
  destroyed client stays silent;
* auto-renewal: the TGT is replaced before it lapses, the task sleeps between
  refreshes, the lock is not leaked, the task ends with the client;
* transport: an error is reported only when every endpoint was tried; the reply
  belongs to the request; the caller always gets an answer;
* referrals: the trace is bounded and ends at the requested service;
* exchanges: nothing reaches a session that did not pass every check;
* ccache and keytab: updates one after another lose nothing, a damaged file is
  noticed or yields only what was there, keys can be found again;
* HTTP Negotiate: mutual authentication is real, the service runs once per
  request, and a call that can succeed does;
* tokens: only what was protected is accepted, what was protected arrives, and
  what was to be sealed is not sent in clear;
* password change: the result is the server's answer to this call, and the
  stored password follows the database;
* configuration: requests go to the servers that the files name.

## 2. Modules

| module | models | role |
|---|---|---|
| `Keytab` | `Keytab::find_key` | operators |
| `ServiceValidator` | `service.rs`: validators, replay caches, `SharedReplayCache` | state machine |
| `ReplayGuard` | what an acceptor promises about replays | abstract specification |
| `MCServiceValidator` | instance of `ServiceValidator` | model checking |
| `ClientSession` | `TokioClient` and `spawn_auto_renewal` | state machine |
| `MCClientSession` | instance of `ClientSession` | model checking |
| `KdcTransport` | `TokioKdcTransport`: `send`, `send_to_realm`, `send_to_kpasswd_realm` | state machine |
| `KdcTransportProofs` | theorems about `KdcTransport`, `Krb5Conf` and `ConfiguredTransport` | proofs |
| `TgsExchange` | TGS requests, the checks of a TGS-REP, the referral loop | state machine |
| `MCTgsExchange` | instances of `TgsExchange` | model checking |
| `TgsExchangeProofs` | theorems about `TgsExchange` | proofs |
| `AsExchange` | password and keytab logins, the checks of an AS-REP | state machine |
| `MCAsExchange` | instance of `AsExchange` | model checking |
| `AsExchangeProofs` | theorems about `AsExchange` and `find_key` | proofs |
| `Krb5Conf` | `config.rs`: files, parser, lookups | operators |
| `ConfiguredTransport` | a process that loads its configuration and sends requests; extends `KdcTransport` and `Krb5Conf` | composition |
| `MCConfiguredTransport` | instance of `ConfiguredTransport` | model checking |
| `Spnego` | negotiation tokens, headers, initiator contexts | operators |
| `HttpNegotiate` | callers, proxies and Tower services; extends `Spnego` | state machine |
| `MCHttpNegotiate` | instance of `HttpNegotiate` | model checking |
| `HttpNegotiateProofs` | theorems about `HttpNegotiate` | proofs |
| `GssToken` | MIC and Wrap tokens, sender, network, receiver | state machine |
| `MCGssToken` | instance of `GssToken` | model checking |
| `AcceptorProofs` | theorems about `ServiceValidator` and `GssToken` | proofs |
| `Kpasswd` | frames and messages of the password-change protocol | operators |
| `PasswordChange` | `change_password_for` with its servers; extends `Kpasswd` | state machine |
| `MCPasswordChange` | instance of `PasswordChange` | model checking |
| `PasswordChangeProofs` | theorems about `PasswordChange` | proofs |
| `Cells` | integers, strings and byte strings of a file | operators |
| `CCache` | the cache format and the operations on a cache | operators |
| `KeytabFile` | the keytab format; extends `Keytab` | operators |
| `CredentialFiles` | processes that share a cache or a keytab; extends `CCache`, `KeytabFile` | composition |
| `MCCredentialFiles` | instance of `CredentialFiles` | model checking |
| `CacheFormatProofs` | theorems about `CCache` and the sessions in a cache | proofs |
| `ClientFilesProofs` | theorems about `ClientSession`, `KeytabFile` and `CredentialFiles` | proofs |

The components call each other: `ClientSession` takes an exchange as one step
that succeeds or fails; `AsExchange` and `TgsExchange` open that step up into
requests and checked replies, over a network that may lose, repeat and delay
them; `KdcTransport` opens up one request into lookups, sockets and attempts.
What one level assumes the next one shows: that an exchange ends
(`CallsEnd`, `TracesEnd`), and that it returns what was asked for
(`RepliesAreOurs`, `ResultIsRequested`, `SessionIsOurs`).  `ConfiguredTransport`
puts the parser of `krb5.conf` in front of the transport.  `HttpNegotiate` takes
from the acceptor what `ServiceValidator` shows to implement: the memory of
`ReplayGuard`.  `PasswordChange` takes the transport as it is shown to be: one
attempt after another, each answered, failed or answered late.  `CredentialFiles`
is what happens to the sessions of `ClientSession` between processes.

Definitions named `...NoExpiry`, `...MapOnly` and the like, marked as a bug in
their comment, are variants of the next definition with a plausible bug in it.
Nothing refers to them; `PROJECT.json` lists which property notices which.

### 2.1 ServiceValidator

`validate_ap_req` reads the clock for the ticket's times, reads it again for the
authenticator, and then takes the lock of the replay cache.  These are the only
points at which another thread's action can matter, so a validation is three
steps: `CheckTicket` (decoding, key lookup, decryption, ticket times, address,
PAC), `CheckAuthenticator` (decryption, client name, skew), `record_replay`.
`began` and `stamp` are the two readings the thread carries.  Anything may run
in between: other validators, `clear_older_than`, `clear`.  A cache that is not
shared is a field of its validator, and `replay_cache_mut` needs `&mut`, so it
is only purged while that validator is idle (`MayBorrow`).

`cache[c][k]` is the map of `ReplayCache`, with `Absent` for a missing key.
`insert` writes the stamp even when the key is there, as `HashMap::insert`
does.  A request is a record of the facts the checks distinguish; decryption
succeeds when the key the keytab gives is the one the ticket was sealed with.
`presented` is a history variable: what was recorded since the last `clear`.

The purging age `MaxAge` is chosen by the owner of the cache.  The assumption
`RetentionAssumption` says `MaxAge >= 2 * MaxClockSkew + MaxDelay`: a request is
first acceptable `MaxClockSkew` before its authenticator's time and last
`MaxClockSkew` after it, by a thread that may take `MaxDelay` from its first
clock reading to the lock.  The result of the module is that this is enough;
the mutant `RetainedStrictly` shows that it is needed.

### 2.2 ClientSession

All methods take `&mut self` and the task holds the client's mutex, so one call
is in progress at a time; `call` holds what it carries over its await: who
called, which exchange it waits for, the session it picked, what it wants the
TGT for.  A method runs from its start, or from one await, to the next in one
step; `KdcReply`, `KdcFailure` and `CancelCall` are the three ways an await
ends.  `login_next`, `affirm_login_next` and `ensure_tgt_next` are the decisions
of the methods of the same name; `TgtFor` is the choice of a TGT inside
`get_service_ticket`.

`tgt` and `tgt_sessions[Home]` are separate fields in the code and here.
`cache_tgt_session_at` is the only place that compares sessions; `RenewReply`
overwrites; `LoginReply` empties the realm map first, as `login` does.

The KDC is external: `AsTicket`, `TgsTicket` and `RenewedTicket` give what a KDC
issues (a renewed ticket keeps `authtime` and `renew-till`), and its clock may be
`KdcAhead` ahead.  A referral trace is one exchange here that yields at most one
referral TGT.  Sessions of other processes (`OtherSessions`), renewable or not, enter
through the cache methods, as with a ccache.  Time goes from one of the `Instants` to
the next: a run names the readings of the clock that its properties can tell apart.

The renewal task is `plan` (lock, compute the delay), `sleep`, `ready` (lock,
check for something to refresh, refresh), `retry` after an error.  `abort` stops
it at any await, together with the exchange it had in progress.

### 2.3 KdcTransport

A call is cut at its awaits: an SRV lookup (`Discover`, and `DiscoverAdm` for the
second lookup of a password change) and the answer to each attempt (`SendNext`
to `Receive` or `Timeout`).  `call.legs` are the protocols still to go through:
one, or two with `KdcProtocol::Auto`, in the order of `auto_uses_udp_first`.
A leg discovers its endpoints and tries them in order; `EndpointFailed` goes to
the next one, `LegFailed` to the other protocol, `LegReply` to TCP if the reply
was too big for UDP.  Each attempt has a socket of its own (`OnSocket`), so late
replies of earlier attempts and calls are on the `wire` but are not received.
`plan`, `found` and `tried` are history variables for the properties on failover.

Servers and DNS are external: a server may carry out a request and its answer
may come late or never.  SRV records are sorted by priority, weight and target
as in the code, which does not draw by weight.

### 2.4 TgsExchange

One action per entry point (`renew_tgt`, `renew_ticket`, `s4u2self`,
`s4u2proxy`, `get_service_ticket_with_referral_trace_limit`), then `Receive` with
the checks of `process_tgs_rep_inner`, and `Follow` for a referral.  A ticket is
client, service and session key; the client's session holds what the reply's
encrypted part said next to the ticket.  KDCs are external: they issue any
ticket for a service or TGT they hold the key of, refer at will, and their
replies stay in `replies`, from where each may be delivered any number of times.
`MaxKeys` bounds the session keys that are issued.  Termination does not rest on
it: replies may be delivered again, so a client that went round would go round
for ever (mutant `FollowRestart`).

### 2.5 AsExchange

A login is two exchanges at most: the probe (`login_as_service`, with a timestamp
if `assume_preauthentication` is set), and, if it is answered by an error with
hints, the preauthenticated request (`PreauthRequest`).  A key is its enctype,
salt and password version, so that string-to-key is injective; the keytab lookup
is that of `Keytab`.  An account has a set of enctypes, and the KDC hints at
those that were requested in whatever order it likes.  A case is an environment: in
some the KDC also answers oddly (`Oddities`), late and
repeatedly, while the password changes; in cases marked `in_order` the KDC is in
order and the network works.

Limits of the code that the model shows, as premises in `CanLogin`: without
hints the salt is the default one, even if the AS-REP says otherwise; a keytab
must have a key of the first hinted enctype, although for an assumed
preauthentication the next enctype is tried.

### 2.6 Krb5Conf and ConfiguredTransport

A text is a sequence of lines that were stripped of comments and told apart as
the code does: header, assignment, opening and closing brace, anything else.
`conf_parse`, `apply_section`, `parse_realms` and `Realm_parse` are the functions
of the same names; every error of theirs is `Failed`.  A loop over lines is a
recursive function that gives what the loop has after line `i` (`SettingsRead`,
`MappingsRead`, `ListsRead`, `RealmsRead`, `SectionsRead`), with the body of the loop
as an operator of its own (`ReadSetting`, `ReadMapping`, `ReadServer`, `ReadRealmLine`,
`ReadLine`).  A section is a range of places of the text and the block of a realm a
set of them, where the code copies the lines.
`load_default_or_parse` chooses the files.  Of `[libdefaults]` only the two
settings that steer the transport are kept.  `Load` is one step, and then
`RequestFor` looks up the realm of a host and its servers and starts the call of
`KdcTransport`, whose other actions are taken over as they are.

`Declared` says what a text means without parsing it, by the places of its lines: the
first block of the realm in any `[realms]` section and the lines at its first level up to
the one marked final.  That is what an administrator expects who knows that other sections add up
(`together`).  The code's rule differs: a `[realms]` section replaces the ones before it
(`config.rs:650`).  So `Declared` also gives what the last section says by itself
(`last`), and whether the first block comes in an earlier one (`replaced`).
`ServersAreDeclared` compares this with what the parser and the lookups give, and with
where the requests go: they go where the sections together say, and only for a realm
that is `replaced` where the last one says, which may be DNS.

### 2.7 Spnego and HttpNegotiate

`Spnego` has negotiation tokens as values and as tagged fields, with what is
left out and what is refused, the two ways in which a Kerberos message may come
(wrapped or raw), the splitting of `WWW-Authenticate` values at commas outside
quotes, and the classification of a response.

A call of `send_with_negotiate` is cut at its awaits: first request
(`send_with_negotiate`, `FirstResponse`), ticket and context (`SpnegoContext`,
`NoTicket`), retry (`FinalResponse`).  `authorize_request` starts with the
token.  On the server `Call` is `NegotiateService::call` up to the future of the
wrapped service: the token is validated and recorded, then the AP-REP is built,
which may fail; `InnerResponds` and `InnerFails` end the future.  `Restart` loses
the replay caches, which are in memory only.  All callers have one ticket, as
clones of one client do, so AP-REPs differ in the echoed time only.  That time is
what `SystemTime::now()` gives (`spnego.rs:1700-1709`), and nothing keeps two callers from
reading the same microsecond; `SameInstant` says that two did.

The replay key is service, client and time, and the service is named as the ticket
names it outside its encrypted part, name type included (`service.rs:440-445`,
`749-755`).  `Names` are the spellings under which the validator finds the same key of its
keytab.  The network may put any of them in place of the ticket's, rewrap the token
(`Wrapped`), or spoil the header so that it is no text (`Illegible`), which is
answered like a missing one.

### 2.8 GssToken

One action per public call on a token; a failing call may have changed it, as
in the code.  Bytes are units, so that rotation, truncation and the border
between payload, filler and checksum are what they are in the code; checksums
and ciphertexts are free constructors: a unit of either says what it was made of
and where in it it stands.  The network may exchange headers and
bodies, alter every field, cut, extend and turn; `Turned` is what a
relay may do to a sealed Wrap token by RFC 4121, and the only thing after which
the token still has to be delivered.

### 2.9 Kpasswd and PasswordChange

A call is its login (`LoginOk`, `LoginFails`), attempts at one server after
another (`Send`, `AttemptFails`, `Exhausted`), and `Receive`, which parses the
frame, checks the AP-REP, takes the key, opens the result and only on success
replaces the stored password.  `Cancel` drops the future at any await.  Servers
have one database and a replay cache each.  `causes` is a history variable: the
reasons for which the stored password may be out of date.

A KRB-ERROR has no AP-REP and nothing protects it, yet its e-data is taken for the result,
whatever the code is (`kadmin.rs:400-416`, `448-451`; `kpasswd.rs:202-203`), and with
code 0 the call succeeds and the stored password is replaced (`kpasswd.rs:343-349`).  The
repository's tests ask for that (`tests/client/password_change.rs:204-229`, `981-1016`).  The
network of the model delivers such errors at any time, with any code (`ErrorCodes`).
`Outcome` tells "claimed" (success in a KRB-ERROR) from "ok" (success in a KRB-PRIV)
so that the properties can speak of either; the code does not.

### 2.10 Cells, CCache, KeytabFile and CredentialFiles

Files are sequences of cells, one for each integer, string or byte string.  A
cell is never read as one of another kind, so a reader that lost its place
fails where the code may go on for a while.  Readers and writers are those of
the code, field by field, for every version.

An operation of a process is: the name is resolved, for a collection by way of
its primary file (`FindNoPrimary`, `CreatePrimary`, `WritePrimary`); the file is
read and the new content made (`save_ccache`, `update_ccache_file`, `SetConfig`,
`AddKey`: `Prepare` or `Refuse`); the file is truncated (`Open`) and written
(`WriteSome`, `WriteRest`), or the writer dies or fails (`Damage`).  Nothing is
locked.  `store` is what the operations would leave one after another, computed
from their documentation and not from the cells; `troubles` records overlaps and
damage, and a save that nothing overlaps clears it.

## 3. Runs

| run | configuration | result |
|---|---|---|
| `acceptor` | two validators on a shared cache, one on its own; requests that reach it and one for every check | holds |
| `client` | two realms, all methods, with and without credentials, KDC failing and ahead, cancellation | holds |
| `client_healthy` | prompt KDC, non-renewable tickets | holds |
| `client_lapse` | prompt KDC, renewable tickets up to `renew_till` | `KeptAlive` violated |
| `transport` | configurations from files and DNS, two calls | holds |
| `tgs` | two realms that refer at will, two calls | holds |
| `tgs_authenticator` | two referrals | `AuthenticatorNamesClient` violated |
| `as` | a KDC in order with every kind of account and credentials; two logins with odd and late answers | holds |
| `http` | two calls, two services, proxies, renamed tickets and restarts | holds |
| `kpasswd` | two changes, two servers, retries, made-up errors, other administrators | holds |
| `gss` | two tokens, altered on the way | holds |
| `files` | two processes, caches and keytabs, overlaps and damage | holds |

`acceptor` checks `RetentionCoversReplays`, `AcceptedWhileCurrent` (with both
readings stale, an accepted request is still current up to skew and delay) and
`PurgingIsInvisible`: the acceptor implements `ReplayGuard`, a memory that never
forgets.

`client` checks `PrimaryMirrored`, `PrimaryNeverDowngraded`,
`ExchangesStartValid`, `RefreshLeavesWindow` and `DestroyIsFinal` under every interleaving of
application, task, KDC, cancellation and time.  With fairness it checks
`CallsReturn` and `DestroyStopsTask`.  `client_healthy` checks that the task does
its job (`KeptAlive`).

`ExchangesStartValid`: the TGT that an exchange starts with is the one the client holds
for the realm, and has not lapsed.  It may not have started yet, but only if the call has
just obtained it from a KDC whose clock is ahead (`client.rs:1360`).

`RefreshLeavesWindow` is about the loop of the task (`client.rs:796-817`), which goes round
without sleeping when a refresh succeeded and the TGT is due all the same.  It says that
there are three such cases and no other:

* `StuckWithTicket`: no credentials, and a valid TGT that cannot be renewed.
  `ensure_tgt` returns it as it is (`client.rs:1352`), and the task spins for the whole window;
* `LoginNotStarted`: a KDC ahead.  The new TGT has not started by the client's clock, loses
  to the old one (`client.rs:3605-3618`), and the task logs in over and over until the old one ends
  or the new ones start;
* `RenewedToLimit`: a renewal that was cut off at `renew_till`, or one of a TGT whose first login
  lies six lifetimes back, when the window is longer than a ticket (`client.rs:3645`).

The run reaches each of them, except the last half of the third, for which it is
too short; the theorem covers that.

`transport` checks that requests go to the servers that the files name for the
host's realm, but for the replaced sections of 2.6 (`ServersAreDeclared`), that a reply answers the call's own request
(`RepliesAreOurs`), that a request is sent again only after a failure or a reply
too big for UDP (`ResendsOnlyAfterFailure`; a password change must not be carried
out twice without need), that an error means that every endpoint of every protocol
was tried (`ErrorMeansExhausted`) and that "too big" is the answer only where TCP
failed (`TooBigIsLastResort`); with fairness, that every call ends (`CallsEnd`).

`tgs` checks that a referral trace is a chain in which every ticket was
issued on the one before (`TraceIsChain`), that results are what was asked for
although all hops share a nonce (`ResultIsRequested`), that exactly `max_referrals`
referrals are followed (`LimitIsExact`) and where tickets are sent
(`PresentedWhereValid`): the TGTs of a trace and TGTs to be renewed to the realm that they
are for, service tickets to the realm of their service.  S4U requests go to the realm of the service
that they ask for (`client.rs:1833-1836`, `1889-1892`) with the TGT of the home realm; if the
two differ no KDC can open it, and the property says no more of them than where they go.
With fairness, every call ends although realms refer back and forth (`TracesEnd`).

`as` checks `SessionIsOurs` and `AnswerIsBound`: both requests of a login bear
one nonce, so only the checksum of the encrypted padata tells a late answer to the
first one from an answer to the second.  With a KDC in order it checks `NoDowngrade` and
`LoginSucceeds`: the client's preference decides over the KDC's order, and a login
that has what it needs goes through.

`http` checks `AcceptedByServer` (a verified AP-REP means that a service accepted
this very call's token, although answers to other calls open with the same key),
`ServedOnce` (the wrapped service runs once for a call, and twice only when a
restart forgot a token that was still current), `NoFalseReplay` (concurrent
callers of one principal do not make each other's tokens replays) and
`CallSucceeds`.  Each holds as far as the code goes, and the formulas say how far that is: two
calls of one microsecond share an AP-REP, and the second is a replay of the first; a
token whose ticket was given another name type on the way has a replay key of its
own, so the service runs once per name and not once per call.

`kpasswd` checks `ResultIsOurs` (a success or a refusal under an AP-REP is what a
server answered to this call, also under a cached ticket whose session key
earlier answers share), `CredentialInStep` (the stored password follows the database
unless one of the named causes arose) and `ChangeSucceeds`.  An error that claims success is a
cause, and of a call that ends with one nothing is said; calls in one microsecond are excepted, as
an AP-REP returns nothing but the time.

`gss` checks `Authentic`, `Delivered` and `SealedIsSecret`.  The last one rests on
the order in `encrypt_payload_with_confounder`: the flag is set before anything
can fail, so that a failed call leaves a token that cannot be encoded in clear.

`files` checks `FileIsLatest`, `DamageIsNoticed`, `ReloadedIsSaved` and
`KeysFound`.  What overlapping updates lose is not claimed: the code does not
lock, one of two overlapping updates is lost, and no property here is about that.

### Bounds

* Acceptor: skew 1, delay 1, retention 3, which meets `RetentionAssumption` with
  equality.  The clock runs to 7: authenticators are made at 2 and 4, an entry
  made early is purged at the first moment the code allows while a slow
  validator still holds the same request.  Two validators on the shared cache
  suffice for that: one delayed, one purged around.  The constraint `MCSides`
  leaves out behaviours in which these two *and* the one on its own cache have
  worked: they share no state.
* Client: with a lifetime of 6 the refresh window is the last tick.  Of the clock the run
  reads 0 (everything begins), 5 (what began at 0 is due) and 6 (it has lapsed, and is
  still renewable up to 7).  The KDC is up to one tick ahead, so tickets may
  start at 1, 6 or 7, after the moment at which they are obtained.  The sessions of other
  processes are one from 0 that cannot be renewed and one from 6 that can, which may come
  before it starts.  One service in a foreign realm takes every path of
  `get_service_ticket`.  Without any one of its exceptions `ExchangesStartValid` or
  `RefreshLeavesWindow` fails in this run, save that of six lifetimes.
* Healthy environment: `Life = 18` makes the refresh window 3 ticks, longer than
  an exchange of `MaxExchange = 1` and the application's exchange before it, and
  40 ticks give more than two lifetimes.
* Transport: three servers (configured ones are the first two and, in some
  texts, the third), one with IPv6 only and one that does not resolve;
  request sizes 1 and 9 against preference limits of 5, 1 and -1 and
  `MAX_UDP_DATAGRAM = 8` take UDP first, TCP first, and fail over UDP without
  sending.  Two calls let replies of the first arrive during the second.  The
  texts are all sequences of three out of eleven parts (sections of every kind,
  nested and unclosed blocks, final marks, brackets, lines that are no
  assignment), each followed by a file of mappings: 1336 sources, of which 586
  load, to 37 different configurations.  The calls are made under five of them.
* TGS: two realms suffice for loops; `MaxReferrals` 2 for a
  referral on a referral; two calls for replies of another call with the same TGT;
  three session keys for the tickets of the longest trace.
* AS: two logins, so that replies of the first reach the second; two replies at a
  time, delivered any number of times; two versions of the password and two
  supported enctypes.  With a KDC in order, one login of every combination.
* HTTP: two calls, so that responses can be exchanged, two services of one layer,
  two microseconds to a second (equal seconds, different microseconds), a skew of
  one and a clock to 3.  The configurations are a network in trouble with both
  calls, one service and the ticket's own name; a restart with one call, both services
  and two names; and every combination of options in order.
* Password change: two calls, two servers, two attempts; a clock to 2 with a skew
  of 1, so that requests become stale.
* GSS: tokens of four calls after construction, of which one is built call by
  call and the other by a constructor; payloads empty and ending like the filler;
  rotation counts 0 and 7, which exceeds every body but the longest; checksums of
  two units, so that they can be torn apart; one key that no enctype supports.
* Files: two processes, one new ticket or two new keys, two writes, each stopped
  after 9, 26 or 30 cells, between two fields or inside one.  A
  constraint (`MCWorthwhile`) drops states in which the last write was already an
  overlapping one.  The initial files are absent, or of versions 1, 3 and 4 with
  entries of other programs.

At the end of time nothing is left to happen in the acceptor except repeated calls, and
the client's task goes on, so deadlock is checked there.  All other
runs turn it off: after the last call, token or write the application may stop.

### Fairness

`FairSpec` assumes that an exchange in progress ends, that the renewal task is
scheduled and that time passes.  The first holds since every send runs under
`with_transport_timeout` and the loops over endpoints and referrals are finite;
the second is tokio's scheduling of ready tasks.  Nothing is assumed of the
application or of the outcome of exchanges.  Beyond the last instant the clock only runs
for a sleeping task of a destroyed client, so that the bound does not stop it.

The transport's `FairConfSpec` assumes that its steps are scheduled (`Progress`): every
attempt ends by its answer or by `with_transport_timeout`, every lookup by the
resolver's own timeout.  That of `TgsExchange` assumes that an exchange ends, by a
reply or a failure, which is what `CallsEnd` shows of the transport.  Servers,
KDCs and the network are not fair.

`PromptSpec` is a healthy environment and not fairness: a KDC that answers within
`MaxExchange` and refuses only what it has to, a task that runs as soon as it
can, and tokio's mutex, which is first come first served.  It uses no liveness:
`KeptAlive` is an action property.

## 4. Findings

Two runs end in a violation, each of a sentence in the code's comments or of an
assertion of its tests.

* `KeptAlive` with renewable tickets (run `client_lapse`): as long as `renew_till` lies ahead, a TGT is
  renewed and never replaced by a login, so the last renewal ends at `renew_till`
  and the TGT lapses, credentials or not.
* `AuthenticatorNamesClient` (run `tgs_authenticator`): the authenticator's
  `crealm` is the realm of the ticket that is presented.  From the second referral on, and when a foreign
  service ticket is renewed, that is not the client's realm, and the KDC sees a
  client that is not the ticket's.

Seen while modelling, without a run of their own.  The models do what the code
does in each of these.

* Acceptor: `ReplayKey` compares principals with their name types (`service.rs:751`)
  although these are documented as not used for matching (`service.rs:27`).
* Client: the task goes round without sleeping in the three cases of
  `RefreshLeavesWindow` (section 3).  The most likely one is a KDC clock ahead of the
  client's: every login result is discarded as not started, and the task logs in without
  pause through the refresh window.  With such a KDC,
  `affirm_login` succeeds with a TGT that is not valid yet by the local clock, and
  `prune_unusable_sessions` drops such sessions (`client.rs:1019`).  An expired TGT
  whose `renew_till` lies ahead is renewed, and the refusal is the caller's, also
  with credentials (`client.rs:1097`).
* TGS: the renewal of a referral TGT `krbtgt/B@A` asks for `krbtgt/B@B`
  (`client.rs:2061`), which the checks of the reply then insist on.  S4U requests for a service
  of another realm go there with the TGT of the home realm (`client.rs:1833-1836`,
  `1889-1892`).
* HTTP: two calls of one principal in one microsecond are a replay of each other; the name
  type in a ticket, which nothing protects, is part of the replay key (`service.rs:750`).
* AS: a keytab without a key of the first hinted enctype ends the login
  (`client.rs:3213`).
* Configuration: a section of realms replaces the earlier ones where other
  sections add up (`config.rs:650`), also from one file to
  the next: a realm that only an earlier one has goes to DNS; one malformed
  server empties the list of a protocol (`ErrorMeansExhausted` says nothing then); an `admin_server` given as an address in
  brackets yields a malformed password server (`config.rs:538`); keys of
  `[domain_realm]` are put in lower case and looked up as given.
* Password change: `target == self.client` compares name types
  (`kpasswd.rs:292`), so a change of the own password under another type leaves
  the stored one stale; a change that one server carried out and the next refuses
  (the password is no longer new) does so too; `exchange_kpasswd_result` does not
  verify the AP-REP; a KRB-ERROR with code 0 passes for success, as the tests ask for, although
  `kpasswd.rs:195-197` says "Successful replies must echo the AP-REQ authenticator timestamp".
* GSS tokens: no sequence numbers are checked, so a token may be repeated; the
  rotation count of a token that is not sealed is neither protected nor used;
  `verify` of a sealed token says nothing of its field `payload`.
* Cache files: `upsert_credential` compares name types and
  `remove_entries_for_client` does not; a configuration entry set under another
  default principal hides a later one; `SetConfig`-like edits, like all updates,
  lose one of two that overlap.
* Keytabs: fewer than four bytes behind the last slot are ignored; among
  equal timestamps the first entry is the newest.

## 5. Proofs

The theorems hold for any sets of validators, caches, requests, realms and
services, and any skew, delay, retention and lifetimes that meet the `ASSUME`s.

**AcceptorProofs, validators.**  `ValidatorInvariance` proves `ValidatorInv`, the
conjunction of `ValidatorTypeOK`, `StampsInWindow`, `ValidationsInTime`, `RetentionCoversReplays` and
`CachedWasPresented`.  `RetentionCoversReplays` alone is not inductive: that a
purged entry is no longer needed follows from the age of its stamp only if the
stamp lies within the skew of the authenticator's time (`StampsInWindow`), and
this holds of the next stamp only if the validator that writes it passed the
skew check with it (`ValidationsInTime`).  The arithmetic is in `ValidatorInvStep`, case
`clear_older_than`: an entry dropped at `now` has
`now > stamp + MaxAge >= authtime - skew + 2 skew + delay`.  `RecordWindow` states
that a validator about to record is still inside the window, so by
`RetentionCoversReplays` an entry recorded before is still there.
`RetentionIsEnough` and `AcceptanceIsTimely` follow.  `ReplayDetection` is the
refinement: `CacheAgreesWithMemory` shows that the cache has an entry exactly if
`presented` does, at the moment a verdict is given, and `GuardStep` maps every
step to one of `ReplayGuard` or to a stutter.

Assumptions besides the retention: the clock is not set back, and no validation
takes longer than `MaxDelay` from its first reading to the lock (guard of
`Tick`).  The code enforces neither.

**ClientFilesProofs, sessions.**  `Invariance` proves `IInv`: `TypeOK`, `PrimaryMirrored`,
`CallWellFormed` (what a suspended call carries fits the exchange it waits for),
`TaskOwnsItsCall`, and that a client with nothing left has no call in progress.
The last conjunct and `CallWellFormed` are what make `DestructionIsFinal` and
`MirrorHolds` inductive: a reply may only put into the caches what some call
picked while the client still had it.  One lemma per group of actions
(`AppCallStep`, `ReplyStep`, `FailureStep`, `LocalStep`, `TaskStep`,
`EnvironmentStep`) rests on lemmas about the shared pieces (`AwaitStep`,
`ReturnStep`, `WithTgtStep`, `ProceedStep`, `TgtForStep`, `CacheTgt`).

`SessionsLast` proves `LastingInv`: a session starts after its first login and ends after
its start, lasts no longer than the KDC's lifetime nor beyond its renewal limit, and a
renewal of the primary TGT under way still holds the primary TGT; and `StartedInv`: the primary
TGT starts no later than the KDC's clock.  `PrimaryLasts` needs the limits: renewal overwrites
without comparing, and is no loss only because what it renews is what it overwrites, which
ended within the limits.  `RenewAssumption`: a KDC that makes tickets renewable does
so for longer than they last.  `ValidWhenPresented` and `RefreshesLeaveWindow` hold for every
`KdcAhead`.  The second needs `TaskCall`, that the call of a refreshing task is a login or a
renewal of the primary TGT for nothing else: then the new TGT is the one that was issued or the
old one, and the limits give how far its window reaches.

**KdcTransportProofs.**  `Invariance` proves `IInv`: `TypeOK`, `WireInv` (messages on
the current socket belong to the current request), `PlanInv` (what is left of the
call's protocols is the end of its plan, and the leg before it failed or was too
big), `LegInv` (the endpoints before the current one are the ones tried, each
failed) and the four properties.  `RepliesMatch` needs `WireInv`, the three results
on failover need `PlanInv` and `LegInv`, which tie the cursor of the loop to the
history.  There is one lemma per action, for any servers, answers of DNS and
configurations.

`ServersDeclared` is about the configuration, for any files.  The parser goes through a
text line by line, in three nested loops, and `Declared` looks at the places of lines;
the proof shows that they say the same, from the inside out.  `Recursion` makes
the functions of the loops available: it proves that a function over `0 .. n` that is
defined by recursion exists and has the values its equation gives, from
`Least`, the same argument by a least counterexample as below.  Then
`RealmLists` shows that the lists of a block are the servers on its lines up to the
final one, `RealmAsDeclared` that a realm has what is declared for it, with ports and
stand-ins, `RealmsEntered` that after each line of a section the realms so far are the
blocks closed so far, in order, and that the block in progress has the lines at depth one,
`FirstIsLast` that the first block of a realm is the one of the last section unless
it is replaced, and `ParsedSaid` that after each section the configuration has what the text says up to
there.  `Resolved_realm` matches the walk over the suffixes of a host with the longest
domain that covers it, the last mapping for it where there are several.

The invariant of the process, `ConfIInv`, adds three parts to `IInv`: `ConfInv` (the
configuration is what was parsed of one text, and the history what that text says),
`CallInv` (a call in progress to a realm has the servers of that realm in its
configuration) and `EndpointInv` (its endpoints are these servers, none of them malformed,
or it was allowed to ask DNS).  `ServersAreDeclared` is not inductive: it says nothing
of a call before discovery has ended.  `ConfiguredCalls` carries the four results on
calls over to this specification, whose configurations are not the ones given by `Configs`.

Assumptions, which TLC evaluates on the instance: the lines have the fields of their
kind, a server is a host and a port, a block is not named like a list of servers, and
a domain has a label (`LineAssumption`); `Missing` is no text, entry or
configuration (`MissingAssumption`); files are texts (`SourceAssumption`).  A text may
have any number of lines, in any order.

**AsExchangeProofs.**  `FindKeySelects` is an induction over the prefixes of the keytab
that the loop of `find_key` goes through.  The prover cannot instantiate the
library's induction principles, so it is put as a least counterexample: `Least`
(from `WFMin`) gives the shortest prefix with matching entries and no newest one,
and `SelectedIsNewest` shows that the prefix before it has none either.

`Invariance` proves `IInv`: every reply bears the nonce and the
checksum of the request it answers (`Genuine`), a waiting login has a request of
its own under way and, the second time, a key of its credentials (`CallInv`),
`SessionIsOurs` and `AnswerIsBound`.  The properties alone are not inductive: what
a result says was true of the call that returned it.  `KeyForHolds`, that a chosen
key is one of the credentials' own, rests on `FindKeySelects`.  `AnswersGenuine`
covers everything that KDCs answer, odd or not; `FinishStep`, `SendStep` and
`ErrorStep` are the pieces that the actions share.

`OrderedInvariance` proves `OInv`, for the cases in order.  Its heart is
`OrderedCall`: before the second request the key is the assumed one or none; with
it, it is that of the first enctype of the login's list that both sides have.
`LoginsAreNotDowngraded` and `LoginsSucceed` follow, since a KDC in order seals its
answer with the key that the timestamp was made with.  `HintFacts` says what
hints there may be, in any order, and `SelectsFirst` that the client's choice does not
depend on it; `SameEntry` joins the keytab entry that the client finds by
`FindKeySelects` with the key that the account has.  Assumptions
(`AsAssumption`, `KeytabAssumption`): enctypes are numbers, an account has finitely
many, and the number of a keytab entry is the version of its key.

**TgsExchangeProofs.**  `Invariance` proves `IInv`, which besides the four properties
says: the parts of a session belong together, that is, its ticket is for the
service that the encrypted part named, and has the session key (`SessionInv`); KDCs
issue tickets of their own realm (`ReplyInv`); and a waiting call has the nonce of its
last request, a trace within its limit and, for a referral, a request that was made
with the last TGT of the trace, to the realm of that TGT, for the service asked for or
another TGT (`CallInv`).  `TracesAreChains` needs the third, since a reply is only compared
with the request; `TgtsGoWhereValid`, as far as it is about TGTs, needs the first, since the realm to ask is
read from the session and the KDC looks at the ticket.  `KrbtgtAssumption`: principals
named krbtgt are ticket-granting services, each of one realm.

**PasswordChangeProofs.**  `Invariance` proves `IInv`: what a call has built and sent
(`CallInv`), that the requests under way of the current call are what it built
(`RequestInv`), that a reply is an error or a frame which a server made for one request
with a code that it gave (`ReplyInv`), that a code once given is in a replay cache
(`AnswerInv`), that a first try has one answer (`FirstTryInv`), and that without a
cause for the contrary the stored password is the one in the database, but for what
a server has just made of the current call (`StepInv`).  `ResultsAreOurs` rests
on `ReplyInv` and `RequestInv`: an AP-REP that fits the time of the call fits one
call only, unless two read the same time (`Clash`).  `CredentialsInStep` is `StepInv` between calls.  For `ChangesSucceed`
there is `OInv`: without trouble every request is answered once and in time.
`NilAssumption`: `Nil` is no message, code or time.

**HttpNegotiateProofs.**  `Invariance` proves `IInv`: a request carries the token of its
call's context or none (`RequestInv`, `ContextInv`),
what is recorded is the token of a request under some name of the service (`MemoryInv`), an AP-REP on its way
answers a token that was accepted (`PendingInv`, `ResponseInv`), and once the service
has run for a call its token is in the cache, too old, or was forgotten in a restart
(`ServedInv`).  `AcceptanceIsMutual` needs the AP-REPs, `RunsAreOnce` is `ServedInv`,
`NoTokenIsMistaken` is `MemoryInv`: equal replay keys have equal times (`OneTime`),
which is the exception it makes.  `CallsSucceed` has an
invariant of its own, `OInv`: the answer that is on its way in each state
of a call without trouble.  Encoding is not assumed to be reversible: lemmas on
fields with different tags show what `decode_neg_token_init` and the like read back.
`StrayAssumption`: a proxy, which has no session key, makes up no AP-REP.

**AcceptorProofs, tokens.**  `Invariance` proves `IInv`: the checksum or body of a token under
construction is the one of what was last protected in it, turned by its
rotation count (`Building`); a token that was sent is a MIC, a Wrap or a sealed Wrap
of what was protected, and a sealed one if sealing had ever been asked for
(`SentInv`); `Authentic` and `Delivered`.  For `AcceptedIsAuthentic`, every unit of a
checksum or ciphertext that arrives is one of a token that was sent, whatever the
network put together (`Known`), and a checksum that matches is therefore that of a
sent token (`SumSource`, `SealedSource`).  For `ProtectedIsDelivered`, turning back a
body that was turned twice gives the body (`Unrotate`, `RotateTwice`, by the arithmetic
of remainders), also where the count exceeds the length.  `SealedStaysSecret` follows
from `SentInv`.  The lengths of checksums and of the overhead of encryption are any
numbers; payloads are any bytes.  The proof showed that an earlier form of the
network's `Turned` asked too much: a MIC that carries the sealed flag was
turned too, and is not delivered if checksums are longer than one unit.

**A healthy environment.**  `TicketsAreKept`, in
`ClientFilesProofs`, is about `PromptSpec`.  Its premises are those of the run:
tickets that cannot be renewed, clocks in step, a clock that skips no tick and exchanges
that take less than half of the refresh window.  The first cannot be dropped, as run `client_lapse` shows,
nor the second, as the TGT of a KDC ahead is not valid at once.  The invariant `PromptInv` says how
much of the TGT's life is left in each phase of the task (`PaceInv`): more than the
window when it plans, the window when it wakes, less by the application's exchange when
it gets the lock, and less by its own exchange when it has refreshed.  That
application calls do not disturb this is in `Answered`: only a login changes the
primary TGT, to one of full life, and only after it another exchange follows.

**CacheFormatProofs.**  What readers and writers do, for caches of every version, size
and content.  `WrittenIsRead`: `parse` of what `to_bytes` wrote is the cache that was
written, but for the name types that version 1 drops (`StoredCache`); this is
`CacheReadBack` for caches that have none of those.
`CacheCutOff`: a file that stops anywhere in what `to_bytes` wrote, before a cell or in
it, is refused, or is exactly what `to_bytes` writes for the first credentials of the
cache.  Both go through the format part by part (`PrincipalReadBack`,
`PairsReadBack`, `HeaderReadBack`, `CredentialReadBack`, and `...CutOff` for each), with
`HasAt` and `StopsIn` for "these cells are there" and "the file stops in these
cells".  Loops are recursive functions of the number of turns.  That such a function
exists and what its values are is `Recursion` and `RecursionTyped`; what holds after
each turn is an induction, put as a least counterexample (`Induct`, from `Least`).  The
rest of the module says which tickets and settings a cache holds after
`upsert_credential`, `remove_entries_for_client` and `upsert_config_entry` (`AddedContent`,
`RemovedFacts`, `PutFound`), in terms of sets and whatever the order of a cache, and that
the sessions made from a cache are one for each key, none worse than a ticket for
it (`SessionsAre`).

**ClientFilesProofs, files.**  `KeytabReadBack` is the same for keytabs; `KeytabTyped` and
`LookupFinds` are for files that other programs left, deleted slots included.
`FilesInvariance` proves `FilesInv`:

* `RecordOK`: a client's sessions are ones that were issued to it, and what a process is
  about to write represents what its operation should leave (`Holds`), as long
  as the file has not been opened since the process read it (`seen = changes`);
* `WriterOK`: the file is the part that the writer has written so far, unless writers overlapped;
* `OthersOK`: a process that is up to date has no other writer beside it;
* `FileIntact`: without overlap the file is a prefix of a cache of known credentials;
* `Latest`: without trouble, and with nobody writing, the file represents `store`.

`FileIsLatest` is not inductive: a writer's last step leaves what it prepared
several steps before, so the invariant has to say what was prepared and for how
long that is good.  A save of a fresh cache is good whatever happened since.
`UpdatesLoseNothing`, `DamageIsSeen`, `KeysAreFound` and `ReloadsAreSaved` follow with the
results on the formats; there is one lemma per action (`SaveKeeps`, `UpdateKeeps`,
`OpenKeeps`, `WriteRestKeeps`, ...).

Assumptions, which TLC evaluates on the instance: `Nil` is no file and no store
(`NilAssumption`); services on offer are not configuration entries
(`InputAssumption`); a file that is there at the beginning can be read, a cache as well as
being what this library would write for it and with no setting twice
(`ConfigAssumption`); clients are principals (`ClientAssumption`).  The
proof needs the last part of `ConfigAssumption`: with a setting twice in the file, a new
value replaces the first only and the store's reading of it is not unique.

Only model-checked is liveness (`CallsReturn`, `DestroyStopsTask`, `CallsEnd`,
`TracesEnd`), which the prover does not reach.

## 6. Not modelled

* Cryptography (`crypto.rs`), DER, PAC and NDR parsing: stateless computations on
  bytes, out of TLC's reach.  The models take their outcomes as inputs (a ticket
  opens or not, signatures are good or bad) or as free constructors.
* KRB-CRED and KRB-SAFE, which no other part of the library uses.
* `ServiceValidator::with_now`, a fixed clock for tests, and the AP-REP builders.
* A poisoned mutex of `SharedReplayCache`: no code panics while it is held.
* The Negotiate facade, which forwards, and the blocking variants, which run the
  same futures on a runtime of their own.
* Diagnostics and JSON output, which only read.
* Of the configuration: durations, enctype lists and the settings that only fill
  in fields of requests.  Principal parsing and the expansion of tokens in paths.
* The compatibility report: static tables and a printer.

## 7. Plan

Done: every part with state or with checks on messages is modelled, and all
invariants and action properties that the runs check are proved.
