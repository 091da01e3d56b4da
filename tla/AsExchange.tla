----------------------------- MODULE AsExchange -----------------------------
(***************************************************************************)
(* AS exchange: login with a password or a keytab (src/client.rs).  A probe *)
(* is sent first; a KDC that wants preauthentication answers it with hints, *)
(* from which the client picks its key for a second request.                *)
(*                                                                          *)
(* A key is [etype, salt, version]: what the string-to-key function makes   *)
(* of the password of that version; the salt stands for the s2kparams too.  *)
(* One account is modelled, whose password may be changed; a login is cut   *)
(* at its awaits.                                                           *)
(***************************************************************************)
EXTENDS Integers, Sequences, FiniteSets, Keytab

CONSTANTS Supported,    \* enctypes that KerberosEtype knows
          Accounts,     \* [etypes, salt, preauth]: what the KDC may hold
          EtypeLists,   \* requested enctypes, in order of preference
          Keytabs,      \* keytabs of the client
          Services,
          DefaultSalt,  \* the salt of default_password_salt
          NoKey,
          Cases,        \* the environments to look at
          MaxVersion,   \* bound on the versions of the password
          MaxReplies    \* bound on the replies under way

Client == "me"
PREAUTH_REQUIRED == 25
PREAUTH_FAILED == 24
ETYPE_NOSUPP == 14

VARIABLES case,      \* the environment, which stays
          version,   \* current version of the password
          call,      \* login in progress
          nonce,     \* nonce of the last login, counting logins
          requests,  \* requests the KDCs received
          replies,   \* replies they gave
          result     \* what the last login returned

vars == <<case, version, call, nonce, requests, replies, result>>

ToSet(list) == {list[i] : i \in DOMAIN list}

\* The first member of a list that is in a set, if there is one.
First(list, S) ==
    list[CHOOSE i \in DOMAIN list :
            list[i] \in S /\ \A j \in DOMAIN list : list[j] \in S => i <= j]

Key(etype, salt, v) == [etype |-> etype, salt |-> salt, version |-> v]

ASSUME AsAssumption ==
    /\ Supported \subseteq Nat \ {0} /\ MaxVersion \in Nat /\ MaxReplies \in Nat
    /\ \A a \in Accounts : /\ a.etypes \subseteq Nat /\ IsFiniteSet(a.etypes)
                           /\ a.preauth \in BOOLEAN
    /\ EtypeLists \subseteq Seq(Nat)
    /\ NoKey \notin [etype : Nat, salt : {a.salt : a \in Accounts} \cup {DefaultSalt},
                     version : Nat]

\* The version of an entry is the one that the KDC gave the key.
ASSUME KeytabAssumption ==
    \A k \in Keytabs : /\ Len(k) \in Nat /\ DOMAIN k = 1 .. Len(k)
                       /\ \A i \in 1 .. Len(k) : /\ k[i].timestamp \in Nat
                                                  /\ k[i].kvno = k[i].key.version

\* Credentials: a password or a keytab.
Credentials == {[kind |-> "password", version |-> v, entries |-> <<>>] :
                    v \in 1 .. MaxVersion}
         \cup {[kind |-> "keytab", version |-> 0, entries |-> k] : k \in Keytabs}

Login == [credentials : Credentials, etypes : EtypeLists, service : Services,
          assume_preauthentication : BOOLEAN, fast_negotiation : BOOLEAN]

\* An environment: the account, whether the KDC and the network are in order,
\* what the application asks for, and a bound on how often it does.
Case == [account : Accounts, in_order : BOOLEAN, logins : SUBSET Login, max : Nat]

ASSUME CasesAssumption == Cases \subseteq Case

account == case.account

NoRequest == [nonce |-> 0, attempt |-> 0, service |-> "none", etypes |-> <<>>,
              timestamp_key |-> NoKey, fast |-> FALSE]
NoHints == <<>>
Idle == [phase |-> "idle", login |-> "none", request |-> NoRequest, reply_key |-> NoKey]
NoReply == [nonce |-> 0]
NoResult == [status |-> "none", login |-> "none", request |-> NoRequest, reply |-> NoReply]

-----------------------------------------------------------------------------
(* Choice of the reply key.                                                 *)

\* derive_password_reply_key
PasswordKey(credentials, etype, salt) ==
    IF etype \in Supported THEN Key(etype, salt, credentials.version) ELSE NoKey

KeytabKey(credentials, kvno, etype) ==
    LET match == find_key(credentials.entries, Client, "R", kvno, etype)
    IN IF match.found THEN match.key ELSE NoKey

\* The key for an enctype: a password takes the salt, a keytab the version.
KeyFor(credentials, etype, salt, kvno) ==
    IF credentials.kind = "password" THEN PasswordKey(credentials, etype, salt)
    ELSE KeytabKey(credentials, kvno, etype)

\* preauth_key_info_from_method_data: the entries of ETYPE-INFO2, then those of
\* ETYPE-INFO; process_kdc_error reads them with one error code only.
preauth_key_info(error) ==
    IF error.code = PREAUTH_REQUIRED THEN error.info2 \o error.info ELSE NoHints

\* The first requested enctype for which there is a hint; without any hints,
\* the first one that is supported.  Enctype 0 stands for none.
select_preauth_key_info(hints, etypes) ==
    LET hinted == {hints[i].etype : i \in DOMAIN hints}
    IN IF ToSet(etypes) \cap Supported \cap hinted # {}
       THEN LET etype == First(etypes, Supported \cap hinted)
            IN hints[CHOOSE i \in DOMAIN hints :
                        /\ hints[i].etype = etype
                        /\ \A j \in DOMAIN hints : hints[j].etype = etype => i <= j]
       ELSE [etype |-> IF hints = NoHints /\ ToSet(etypes) \cap Supported # {}
                       THEN First(etypes, Supported) ELSE 0,
             salt |-> DefaultSalt]

\* A bug: the list is gone through from its end.
AssumedKeyLast(login) ==
    LET has == {e \in Supported :
                   KeyFor(login.credentials, e, DefaultSalt, AnyKvno) # NoKey}
        reversed == [i \in DOMAIN login.etypes |-> login.etypes[Len(login.etypes) + 1 - i]]
    IN IF ToSet(login.etypes) \cap has = {} THEN NoKey
       ELSE KeyFor(login.credentials, First(reversed, has), DefaultSalt, AnyKvno)

\* The key for an assumed preauthentication: a password's by the first
\* supported enctype, a keytab's by the first one that the keytab has.
AssumedKey(login) ==
    LET has == {e \in Supported :
                   KeyFor(login.credentials, e, DefaultSalt, AnyKvno) # NoKey}
    IN IF ToSet(login.etypes) \cap has = {} THEN NoKey
       ELSE KeyFor(login.credentials, First(login.etypes, has), DefaultSalt, AnyKvno)

-----------------------------------------------------------------------------
(* The login.                                                               *)

Return(status, reply) ==
    /\ call' = Idle
    /\ result' = [status |-> status, login |-> call.login, request |-> call.request,
                  reply |-> reply]

\* The attempt tells the two requests of a login apart; the nonce is that of
\* the options for both.
build_as_req(login, n, attempt) ==
    [nonce |-> n, attempt |-> attempt, service |-> login.service, etypes |-> login.etypes,
     timestamp_key |-> NoKey, fast |-> login.fast_negotiation]

build_preauthenticated_as_req(login, n, attempt, key) ==
    [build_as_req(login, n, attempt) EXCEPT !.timestamp_key = key]

\* password_initial_as_req and keytab_initial_as_req
initial_as_req(login, n) ==
    IF login.assume_preauthentication
    THEN build_preauthenticated_as_req(login, n, 1, AssumedKey(login))
    ELSE build_as_req(login, n, 1)

Send(c) ==
    /\ call' = c
    /\ requests' = requests \cup {c.request}
    /\ result' = NoResult

\* login_as_service_with_password and login_as_service_with_keytab, up to
\* the answer to the first request.
login_as_service(login) ==
    LET buildable == /\ login.etypes # <<>>
                     /\ login.assume_preauthentication => AssumedKey(login) # NoKey
    IN
    /\ call.phase = "idle" /\ nonce < case.max
    /\ nonce' = nonce + 1
    /\ \/ /\ ~ buildable
          /\ call' = Idle
          /\ result' = [NoResult EXCEPT !.status = "error", !.login = login]
          /\ UNCHANGED requests
       \/ /\ buildable
          /\ Send([Idle EXCEPT !.phase = "probe", !.login = login,
                               !.request = initial_as_req(login, nonce')])
    /\ UNCHANGED <<case, version, replies>>

\* Bugs: the checksum, or the nonce, is not compared.
process_as_repNoChecksum(request, reply, reply_key) ==
    /\ reply.type = "as-rep"
    /\ reply.client = Client
    /\ reply_key # NoKey /\ reply_key.etype \in Supported /\ reply.sealed = reply_key
    /\ reply.nonce = request.nonce
    /\ reply.service = request.service
    /\ reply.ticket = reply.service
process_as_repNoNonce(request, reply, reply_key) ==
    /\ reply.type = "as-rep"
    /\ reply.client = Client
    /\ reply_key # NoKey /\ reply_key.etype \in Supported /\ reply.sealed = reply_key
    /\ request.fast /\ reply.flag => reply.padata /\ reply.checksum_of = request
    /\ reply.service = request.service
    /\ reply.ticket = reply.service

\* The checks of an AS-REP; with validate_as_rep_encrypted_padata, where the
\* KDC says that it protects what the client requested.
process_as_rep(request, reply, reply_key) ==
    /\ reply.type = "as-rep"
    /\ reply.client = Client
    /\ reply_key # NoKey /\ reply_key.etype \in Supported /\ reply.sealed = reply_key
    /\ request.fast /\ reply.flag => reply.padata /\ reply.checksum_of = request
    /\ reply.nonce = request.nonce
    /\ reply.service = request.service
    /\ reply.ticket = reply.service

Finish(reply, reply_key) ==
    /\ \/ process_as_rep(call.request, reply, reply_key) /\ Return("ok", reply)
       \/ ~ process_as_rep(call.request, reply, reply_key) /\ Return("error", NoReply)
    /\ UNCHANGED requests

\* The key for the answer to the probe: by the enctype and the key version of
\* the answer, with the default salt.
InitialReplyKey(reply) == KeyFor(call.login.credentials, reply.etype, DefaultSalt, reply.kvno)

\* A bug: the default salt is used whatever the KDC says.
PreauthRequestUnsalted(reply) ==
    LET info == select_preauth_key_info(preauth_key_info(reply), call.login.etypes)
        key == KeyFor(call.login.credentials, info.etype, DefaultSalt, AnyKvno)
    IN
    \/ /\ reply.code # PREAUTH_REQUIRED \/ info.etype = 0 \/ key = NoKey
       /\ Return("error", NoReply)
       /\ UNCHANGED requests
    \/ /\ reply.code = PREAUTH_REQUIRED /\ info.etype # 0 /\ key # NoKey
       /\ Send([call EXCEPT !.phase = "preauth", !.reply_key = key,
                            !.request =
                                build_preauthenticated_as_req(call.login, nonce, 2, key)])

\* password_preauth_request and keytab_preauth_request
PreauthRequest(reply) ==
    LET info == select_preauth_key_info(preauth_key_info(reply), call.login.etypes)
        key == KeyFor(call.login.credentials, info.etype, info.salt, AnyKvno)
    IN
    \/ /\ reply.code # PREAUTH_REQUIRED \/ info.etype = 0 \/ key = NoKey
       /\ Return("error", NoReply)
       /\ UNCHANGED requests
    \/ /\ reply.code = PREAUTH_REQUIRED /\ info.etype # 0 /\ key # NoKey
       /\ Send([call EXCEPT !.phase = "preauth", !.reply_key = key,
                            !.request =
                                build_preauthenticated_as_req(call.login, nonce, 2, key)])

Receive(reply) ==
    /\ \/ /\ call.phase = "probe"
          /\ \/ reply.type = "as-rep" /\ Finish(reply, InitialReplyKey(reply))
             \/ reply.type = "error" /\ PreauthRequest(reply)
       \/ call.phase = "preauth" /\ Finish(reply, call.reply_key)
    /\ UNCHANGED <<case, version, nonce, replies>>

\* The transport fails, the answer is no KDC message, or the caller drops the
\* future.
Fail ==
    /\ call.phase # "idle"
    /\ Return("error", NoReply)
    /\ UNCHANGED <<case, version, nonce, requests, replies>>

-----------------------------------------------------------------------------
(* The KDC (external).                                                      *)

AccountKey(etype) == Key(etype, account.salt, version)

ErrorReply(request, code, info2, info) ==
    [type |-> "error", nonce |-> request.nonce, code |-> code, info2 |-> info2,
     info |-> info, request |-> request]

\* The hints of the KDC: the enctypes of the account that were requested, in
\* any order.
Hints(request) ==
    LET offered == ToSet(request.etypes) \cap account.etypes
        orders == {list \in [1 .. Cardinality(offered) -> offered] :
                       \A e \in offered : \E i \in DOMAIN list : list[i] = e}
    IN {[i \in DOMAIN list |-> [etype |-> list[i], salt |-> account.salt]] : list \in orders}

AsRep(request, key, kvno, flag) ==
    [type |-> "as-rep", nonce |-> request.nonce, client |-> Client,
     service |-> request.service, ticket |-> request.service,
     etype |-> key.etype, kvno |-> kvno, sealed |-> key, flag |-> flag,
     padata |-> flag, checksum_of |-> request, request |-> request]

\* What a KDC in order answers.
Answers(request) ==
    LET offered == ToSet(request.etypes) \cap account.etypes
        key == request.timestamp_key
    IN
    CASE offered = {} -> {ErrorReply(request, ETYPE_NOSUPP, NoHints, NoHints)}
      [] offered # {} /\ key = NoKey /\ account.preauth ->
            {ErrorReply(request, PREAUTH_REQUIRED, hints, NoHints) : hints \in Hints(request)}
            \cup {ErrorReply(request, PREAUTH_REQUIRED, NoHints, hints) : hints \in Hints(request)}
      [] offered # {} /\ key # NoKey /\ (key.etype \notin offered \/ key # AccountKey(key.etype)) ->
            {ErrorReply(request, PREAUTH_FAILED, NoHints, NoHints)}
      [] OTHER ->
            LET etype == IF key = NoKey THEN First(request.etypes, offered) ELSE key.etype
            IN {AsRep(request, AccountKey(etype), kvno, flag) :
                    kvno \in {AnyKvno, version}, flag \in BOOLEAN}

\* What other KDCs do: no hints, other names, no encrypted padata.
Oddities(request) ==
    {ErrorReply(request, PREAUTH_REQUIRED, NoHints, NoHints)} \cup
    UNION {{[r EXCEPT !.client = "alias"], [r EXCEPT !.service = "alias"],
            [r EXCEPT !.ticket = "alias"], [r EXCEPT !.padata = FALSE]} :
              r \in {a \in Answers(request) : a.type = "as-rep"}}

Serve ==
    /\ Cardinality(replies) < MaxReplies
    /\ \E request \in requests : \E reply \in Answers(request) \cup Oddities(request) :
          replies' = replies \cup {reply}
    /\ UNCHANGED <<case, version, call, nonce, requests, result>>

\* The password is changed.
ChangePassword ==
    /\ version < MaxVersion
    /\ version' = version + 1
    /\ UNCHANGED <<case, call, nonce, requests, replies, result>>

Init ==
    /\ case \in Cases
    /\ version \in 1 .. MaxVersion
    /\ call = Idle
    /\ nonce = 0
    /\ requests = {}
    /\ replies = {}
    /\ result = NoResult

\* With a KDC in order behind a network that works, answers come at once and
\* once; otherwise late, again or not at all.
Next ==
    \/ \E login \in case.logins : login_as_service(login)
    \/ /\ case.in_order /\ call.phase # "idle"
       /\ \E reply \in Answers(call.request) : Receive(reply)
    \/ /\ ~ case.in_order
       /\ \/ \E reply \in replies : Receive(reply)
          \/ Fail
          \/ Serve
          \/ ChangePassword

Spec == Init /\ [][Next]_vars

-----------------------------------------------------------------------------
(* Properties.                                                              *)

Salts == {a.salt : a \in Accounts} \cup {DefaultSalt}
Keys == [etype : Nat, salt : Salts, version : 0 .. MaxVersion]
Requests == [nonce : Nat, attempt : {1, 2}, service : Services,
             etypes : EtypeLists, timestamp_key : Keys \cup {NoKey}, fast : BOOLEAN]

\* Type invariant: a login waits for an answer to a request of its own, the
\* second one with the key that the request was made with (client.rs,
\* login_as_service_with_password and login_as_service_with_keytab).
TypeOK ==
    /\ case \in Cases /\ version \in 1 .. MaxVersion /\ nonce \in 0 .. case.max
    /\ \/ call = Idle
       \/ /\ call.login \in Login /\ call.request \in requests
          /\ \/ call.phase = "probe" /\ call.request.attempt = 1 /\ call.reply_key = NoKey
             \/ /\ call.phase = "preauth" /\ call.request.attempt = 2
                /\ call.reply_key \in Keys /\ call.request.timestamp_key = call.reply_key
    /\ requests \subseteq Requests
    /\ \A reply \in replies : reply.request \in requests
    /\ result.status \in {"none", "ok", "error"}

HoldsKey(credentials, key) ==
    IF credentials.kind = "password" THEN key.version = credentials.version
    ELSE \E i \in DOMAIN credentials.entries : credentials.entries[i].key = key

\* A login that succeeds returns a ticket that was issued in answer to a
\* request of this very login, for its client and its service, under a key
\* that its credentials hold: answers of earlier logins arrive late and are
\* turned down (client.rs, process_as_rep).
SessionIsOurs ==
    result.status = "ok" =>
        LET reply == result.reply
        IN
        /\ reply.request \in requests /\ reply.request.nonce = nonce
        /\ reply.client = Client /\ reply.ticket = result.login.service
        /\ HoldsKey(result.login.credentials, reply.sealed)

\* Where the client asked for protection and the KDC says that it gives it,
\* the answer is to the request as the client sent it: a late answer to the
\* probe, which bears the right nonce, does not end the second exchange
\* (client.rs, validate_as_rep_encrypted_padata).
AnswerIsBound ==
    result.status = "ok" /\ result.request.fast /\ result.reply.flag =>
        result.reply.request = result.request

\* With a KDC in order, a login that succeeds used the first enctype of the
\* client's list that both sides have, whatever the order of the KDC's hints
\* (client.rs, select_preauth_key_info and assumed_preauth_key_info).
NoDowngrade ==
    case.in_order /\ result.status = "ok" /\ result.login.credentials.kind = "password" =>
        result.reply.sealed.etype =
            First(result.login.etypes, Supported \cap account.etypes)

\* What a login needs: a common enctype, of which the credentials have the
\* current key.  Only hints tell the salt: without them it is the default
\* one.  Where nothing but the answer tells the enctype, the KDC must choose
\* one that is supported; an assumed one must be right.
CanLogin(login) ==
    LET common == Supported \cap account.etypes
        hinted == account.preauth /\ ~ login.assume_preauthentication
        etype == First(login.etypes, common)
    IN
    /\ ToSet(login.etypes) \cap common # {}
    /\ KeyFor(login.credentials, etype, account.salt, AnyKvno) = AccountKey(etype)
    /\ ~ hinted /\ login.credentials.kind = "password" => account.salt = DefaultSalt
    /\ ~ account.preauth => First(login.etypes, account.etypes) = etype
    /\ login.assume_preauthentication => AssumedKey(login) = AccountKey(etype)

\* With a KDC in order behind a network that works, a login with what it
\* needs does not fail: the probe and the key chosen from the hints take it
\* through in two exchanges (client.rs, password_preauth_request and
\* keytab_preauth_request).
LoginSucceeds ==
    case.in_order /\ result.status = "error" => ~ CanLogin(result.login)

-----------------------------------------------------------------------------
(* The inductive invariant.                                                 *)

\* What a reply says of itself: the request that it answers, whose nonce and
\* checksum it bears.
Genuine(reply) ==
    /\ reply.request \in requests
    /\ reply.type = "as-rep" => /\ reply.nonce = reply.request.nonce
                                /\ reply.checksum_of = reply.request

\* A login waits for the answer to a request of its own, the second time with
\* a key of its credentials.
CallInv ==
    \/ call.phase = "idle"
    \/ /\ call.phase \in {"probe", "preauth"} /\ DOMAIN call = DOMAIN Idle
       /\ call.login \in Login
       /\ call.request \in requests
       /\ call.request.nonce = nonce /\ call.request.service = call.login.service
       /\ call.phase = "preauth" => HoldsKey(call.login.credentials, call.reply_key)

IInv ==
    /\ case \in Cases
    /\ \A reply \in replies : Genuine(reply)
    /\ CallInv
    /\ SessionIsOurs
    /\ AnswerIsBound

=============================================================================
