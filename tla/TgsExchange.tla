---------------------------- MODULE TgsExchange ----------------------------
(***************************************************************************)
(* TGS exchanges: renewals, S4U requests, and the loop that follows         *)
(* cross-realm referrals (src/client.rs, src/client/transport.rs).          *)
(*                                                                          *)
(* A call is cut at its awaits, one per request.  The transport may send a  *)
(* request to several KDCs of a realm, each of which answers it, and a      *)
(* datagram may find the socket of a later attempt on the same port: any    *)
(* reply a realm ever gave may arrive while a request to it is pending.     *)
(***************************************************************************)
EXTENDS Integers, Sequences, FiniteSets

CONSTANTS Realms,
          Home,           \* the client's realm
          NoRealm,        \* realm of a principal that names none
          Services,       \* principals the application may ask for
          Users,          \* principals to act for
          ResolvedRealm,  \* realm of a service by the configuration, or NoRealm
          MaxReferrals,   \* largest limit an application sets
          MaxCalls,       \* bound on the number of calls
          MaxKeys         \* bound on the number of session keys

\* Principals, without their name types, which are not compared.
Principal(realm, components) == [realm |-> realm, components |-> components]
Krbtgt(realm, issuer) == Principal(issuer, <<"krbtgt", realm>>)
Me == Principal(Home, <<"me">>)

Krbtgts == {Krbtgt(r, i) : r \in Realms, i \in Realms}
Principals == {[p EXCEPT !.realm = r] : p \in Services, r \in Realms}
                  \cup Krbtgts \cup Users \cup {Me}

ASSUME RealmAssumption ==
    /\ Home \in Realms /\ NoRealm \notin Realms
    /\ Services \subseteq [realm : Realms \cup {NoRealm}, components : Seq(STRING \cup Realms)]
    /\ Users \subseteq [realm : Realms, components : Seq(STRING \cup Realms)]
    /\ ResolvedRealm \in [Services -> Realms \cup {NoRealm}]

ASSUME BoundAssumption == MaxReferrals \in Nat /\ MaxCalls \in Nat /\ MaxKeys \in Nat

VARIABLES call,      \* call in progress
          nonce,     \* nonce of the last call, counting calls
          keys,      \* number of session keys so far
          requests,  \* requests the KDCs received
          replies,   \* replies they gave
          sessions,  \* sessions the application holds
          result     \* what the last call returned

vars == <<call, nonce, keys, requests, replies, sessions, result>>

Ticket(client, service, key) == [client |-> client, service |-> service, key |-> key]
Session(client, service, key, ticket) ==
    [client |-> client, service |-> service, key |-> key, ticket |-> ticket]

HomeTgt == LET tgt == Krbtgt(Home, Home)
           IN Session(Me, tgt, 0, Ticket(Me, tgt, 0))

Unsent == [kind |-> "none", realm |-> Home, service |-> Me, client |-> Me,
           nonce |-> 0, ticket |-> HomeTgt.ticket, crealm |-> Home, key |-> 0]
Idle == [phase |-> "idle", tgt |-> HomeTgt, current_tgt |-> HomeTgt, service |-> Me,
         max |-> 0, trace |-> <<>>, request |-> Unsent]
NoResult == [status |-> "none", ticket |-> HomeTgt, tgt |-> HomeTgt, service |-> Me,
             max |-> 0, trace |-> <<>>]

-----------------------------------------------------------------------------
(* Sessions and principals.                                                 *)

is_tgt_principal(p) == Len(p.components) >= 2 /\ p.components[1] = "krbtgt"

tgt_realm(session) == session.service.components[Len(session.service.components)]

\* Principals named krbtgt are ticket-granting services, each of one realm.
ASSUME KrbtgtAssumption ==
    \A p \in Services \cup Users :
        is_tgt_principal(p) => \E realm \in Realms : p.components = <<"krbtgt", realm>>

\* The realm of a service that names none: the configuration's, or else.
WithRealm(service, otherwise) ==
    IF service.realm # NoRealm THEN service
    ELSE [service EXCEPT !.realm = IF ResolvedRealm[service] # NoRealm
                                   THEN ResolvedRealm[service] ELSE otherwise]

-----------------------------------------------------------------------------
(* Requests.                                                                *)

\* The authenticator names the realm of the ticket's issuer.
build_tgs_req_for_realm(kind, n, tgt, realm, service, client) ==
    [kind |-> kind, realm |-> realm, service |-> service, client |-> client,
     nonce |-> n, ticket |-> tgt.ticket, crealm |-> tgt.ticket.service.realm,
     key |-> tgt.key]

Return(status, ticket, trace) ==
    /\ call' = Idle
    /\ result' = [status |-> status, ticket |-> ticket, tgt |-> call.tgt,
                  service |-> call.service, max |-> call.max, trace |-> trace]

ReplyFails == Return("error", HomeTgt, <<>>) /\ UNCHANGED <<requests, sessions>>

\* No request is made, and the call fails.
Refuse ==
    /\ call' = Idle
    /\ result' = [NoResult EXCEPT !.status = "error"]
    /\ UNCHANGED requests

\* A request that cannot be built (no enctypes, an enctype that is not
\* supported, a time out of range) ends the call.
Ask(c, request) ==
    \/ /\ call' = [c EXCEPT !.phase = "wait", !.request = request]
       /\ requests' = requests \cup {request}
       /\ result' = NoResult
    \/ Refuse

Begin == call.phase = "idle" /\ nonce < MaxCalls /\ nonce' = nonce + 1

NewCall(tgt, service, max) ==
    [Idle EXCEPT !.tgt = tgt, !.current_tgt = tgt, !.service = service, !.max = max]

\* renew_tgt: the realm the TGT is for is asked for a TGT of its own.
renew_tgt(tgt) ==
    /\ Begin
    /\ \/ ~ is_tgt_principal(tgt.service) /\ Refuse
       \/ /\ is_tgt_principal(tgt.service)
          /\ LET realm == tgt_realm(tgt)
                 service == Krbtgt(realm, realm)
             IN Ask(NewCall(tgt, service, 0),
                    build_tgs_req_for_realm("renew_tgt", nonce', tgt, realm,
                                            service, tgt.client))
    /\ UNCHANGED <<keys, replies, sessions>>

renew_ticket(ticket) ==
    /\ Begin
    /\ Ask(NewCall(ticket, ticket.service, 0),
           build_tgs_req_for_realm("renew_ticket", nonce', ticket,
                                   ticket.service.realm, ticket.service, ticket.client))
    /\ UNCHANGED <<keys, replies, sessions>>

s4u2self(tgt, user) ==
    /\ Begin
    /\ Ask(NewCall(tgt, tgt.client, 0),
           build_tgs_req_for_realm("s4u2self", nonce', tgt, tgt.client.realm,
                                   tgt.client, user))
    /\ UNCHANGED <<keys, replies, sessions>>

s4u2proxy(tgt, evidence, service) ==
    /\ Begin
    /\ \/ evidence.service # tgt.client /\ Refuse
       \/ /\ evidence.service = tgt.client
          /\ Ask(NewCall(tgt, service, 0),
                 build_tgs_req_for_realm("s4u2proxy", nonce', tgt, service.realm,
                                         service, evidence.client))
    /\ UNCHANGED <<keys, replies, sessions>>

-----------------------------------------------------------------------------
(* Referrals.                                                               *)

\* A bug: the service's realm is asked at once.
AskForServiceDirect(c, n) ==
    LET tgt == c.current_tgt
    IN Ask(c, build_tgs_req_for_realm("referral", n, tgt, c.service.realm, c.service,
                                      tgt.client))

\* One turn of the loop: the service itself is asked for in its own realm, a
\* TGT for that realm elsewhere.
AskForService(c, n) ==
    LET tgt == c.current_tgt
        realm == tgt_realm(tgt)
        service == IF realm = c.service.realm THEN c.service
                   ELSE Krbtgt(c.service.realm, realm)
    IN Ask(c, build_tgs_req_for_realm("referral", n, tgt, realm, service, tgt.client))

get_service_ticket_with_referral_trace_limit(tgt, service, max) ==
    /\ Begin
    /\ \/ ~ is_tgt_principal(tgt.service) /\ Refuse
       \/ /\ is_tgt_principal(tgt.service)
          /\ AskForService(NewCall(tgt, WithRealm(service, tgt_realm(tgt)), max), nonce')
    /\ UNCHANGED <<keys, replies, sessions>>

\* Bugs: one referral too many is followed; at the limit the trace starts
\* again.
FollowOneMore(ticket) ==
    LET trace == Append(call.trace, ticket)
    IN \/ /\ Len(call.trace) > call.max
          /\ Return("depth", ticket, trace)
          /\ UNCHANGED requests
       \/ /\ Len(call.trace) <= call.max
          /\ AskForService([call EXCEPT !.current_tgt = ticket, !.trace = trace], nonce)
FollowRestart(ticket) ==
    IF Len(call.trace) < call.max
    THEN AskForService([call EXCEPT !.current_tgt = ticket, !.trace = Append(@, ticket)], nonce)
    ELSE AskForService([call EXCEPT !.current_tgt = call.tgt, !.trace = <<>>], nonce)

\* A referral is recorded and, up to the limit, followed.
Follow(ticket) ==
    LET trace == Append(call.trace, ticket)
    IN \/ /\ Len(call.trace) = call.max
          /\ Return("depth", ticket, trace)
          /\ UNCHANGED requests
       \/ /\ Len(call.trace) < call.max
          /\ AskForService([call EXCEPT !.current_tgt = ticket, !.trace = trace], nonce)

-----------------------------------------------------------------------------
(* Replies.                                                                 *)

\* Bugs: a reply of an earlier call passes; so does one to another request
\* of this call.
process_tgs_rep_innerAnyNonce(request, reply, allow_referral) ==
    /\ reply.client = request.client
    /\ reply.sealed = request.key
    /\ reply.service = request.service \/ (allow_referral /\ is_tgt_principal(reply.service))
    /\ reply.ticket.service = reply.service
process_tgs_rep_innerAnyKey(request, reply, allow_referral) ==
    /\ reply.client = request.client
    /\ reply.nonce = request.nonce
    /\ reply.service = request.service \/ (allow_referral /\ is_tgt_principal(reply.service))
    /\ reply.ticket.service = reply.service
\* The checks of a TGS-REP.
process_tgs_rep_inner(request, reply, allow_referral) ==
    /\ reply.client = request.client
    /\ reply.sealed = request.key
    /\ reply.nonce = request.nonce
    /\ reply.service = request.service \/ (allow_referral /\ is_tgt_principal(reply.service))
    /\ reply.ticket.service = reply.service

Accepted(reply) == Session(reply.client, reply.service, reply.key, reply.ticket)

\* The end of a successful call: the application keeps what it returned.
Done(ticket) ==
    /\ Return("ok", ticket, call.trace)
    /\ sessions' = sessions \cup {ticket} \cup {call.trace[i] : i \in DOMAIN call.trace}
    /\ UNCHANGED requests

Receive ==
    LET request == call.request
        referrals == request.kind = "referral"
    IN
    /\ call.phase = "wait"
    /\ \E reply \in replies :
          /\ reply.realm = request.realm
          /\ \/ ~ process_tgs_rep_inner(request, reply, referrals) /\ ReplyFails
             \/ /\ process_tgs_rep_inner(request, reply, referrals)
                /\ LET ticket == Accepted(reply)
                   IN \/ (~ referrals \/ ticket.service = call.service) /\ Done(ticket)
                      \/ /\ referrals /\ ticket.service # call.service
                         /\ \/ tgt_realm(ticket) = request.realm /\ ReplyFails
                            \/ /\ tgt_realm(ticket) # request.realm
                               /\ Follow(ticket)
                               /\ UNCHANGED sessions
    /\ UNCHANGED <<nonce, keys, replies>>

\* The transport fails, the KDC answers with an error or with something that
\* is no reply, or the caller drops the future.
Fail ==
    /\ call.phase = "wait"
    /\ ReplyFails
    /\ UNCHANGED <<nonce, keys, replies>>

-----------------------------------------------------------------------------
(* KDCs (external).  A KDC opens tickets for itself and its services, copies *)
(* the client, and answers with a ticket of its own realm: the one asked     *)
(* for, one for another service, or a referral to any realm.                 *)

Opens(realm, ticket) == ticket.service.realm = realm \/ ticket.service.components = <<"krbtgt", realm>>

Offers(realm) == {p \in Principals : p.realm = realm /\ p \notin Users}

ClientFor(request) ==
    IF request.kind \in {"s4u2self", "s4u2proxy"} THEN request.client
    ELSE request.ticket.client

Serve ==
    /\ keys < MaxKeys
    /\ keys' = keys + 1
    /\ \E request \in requests : \E service, named \in Offers(request.realm) :
          /\ Opens(request.realm, request.ticket) /\ request.ticket.key = request.key
          /\ named # service => service = request.service
          /\ replies' = replies \cup
                {[realm |-> request.realm, client |-> ClientFor(request),
                  sealed |-> request.key, nonce |-> request.nonce,
                  service |-> service, key |-> keys',
                  ticket |-> Ticket(ClientFor(request), named, keys')]}
    /\ UNCHANGED <<call, nonce, requests, sessions, result>>

Init ==
    /\ call = Idle
    /\ nonce = 0
    /\ keys = 0
    /\ requests = {}
    /\ replies = {}
    /\ sessions = {HomeTgt}
    /\ result = NoResult

AppCall ==
    \E tgt \in sessions :
        \/ renew_tgt(tgt)
        \/ renew_ticket(tgt)
        \/ \E user \in Users : s4u2self(tgt, user)
        \/ \E evidence \in sessions, service \in Services :
              service.realm # NoRealm /\ s4u2proxy(tgt, evidence, service)
        \/ \E service \in Services, max \in 0 .. MaxReferrals :
              get_service_ticket_with_referral_trace_limit(tgt, service, max)

Next == AppCall \/ Receive \/ Fail \/ Serve

Spec == Init /\ [][Next]_vars

\* A request is answered, or fails by the timeouts of the transport.
FairSpec == Spec /\ WF_vars(Receive \/ Fail)

-----------------------------------------------------------------------------
(* Properties.                                                              *)

Tickets == [client : Principals, service : Principals, key : 0 .. MaxKeys]
Sessions == [client : Principals, service : Principals, key : 0 .. MaxKeys,
             ticket : Tickets]
Kinds == {"none", "renew_tgt", "renew_ticket", "s4u2self", "s4u2proxy", "referral"}
Requests == [kind : Kinds, realm : Realms, service : Principals, client : Principals,
             nonce : 0 .. MaxCalls, ticket : Tickets, crealm : Realms, key : 0 .. MaxKeys]
Replies == [realm : Realms, client : Principals, sealed : 0 .. MaxKeys,
            nonce : 0 .. MaxCalls, service : Principals, key : 0 .. MaxKeys,
            ticket : Tickets]

Calls == [phase : {"idle", "wait"}, tgt : Sessions, current_tgt : Sessions,
          service : Principals, max : Nat, trace : Seq(Sessions), request : Requests]
Results == [status : {"none", "ok", "error", "depth"}, ticket : Sessions, tgt : Sessions,
            service : Principals, max : Nat, trace : Seq(Sessions)]

TypeOK ==
    /\ call \in Calls /\ result \in Results
    /\ nonce \in 0 .. MaxCalls /\ keys \in 0 .. MaxKeys
    /\ requests \subseteq Requests /\ replies \subseteq Replies
    /\ sessions \subseteq Sessions

\* The session that precedes the i-th of a trace that began with tgt.
Before(tgt, trace, i) == IF i = 1 THEN tgt ELSE trace[i - 1]

\* The session was issued in the current call, by the realm that previous is
\* for, on presentation of previous.
IssuedOn(session, previous) ==
    \E reply \in replies :
        /\ Accepted(reply) = session
        /\ reply.nonce = nonce /\ reply.sealed = previous.key
        /\ reply.realm = tgt_realm(previous)

Chain(tgt, trace) ==
    \A i \in DOMAIN trace :
        /\ IssuedOn(trace[i], Before(tgt, trace, i))
        /\ is_tgt_principal(trace[i].service)
        /\ tgt_realm(trace[i]) # tgt_realm(Before(tgt, trace, i))

\* Every referral TGT of a trace leads from one realm to the next: it was
\* issued in this call on presentation of the one before it, although replies
\* of earlier hops, earlier calls and repeated requests arrive as well.
TraceIsChain ==
    /\ call.phase = "wait" /\ call.request.kind = "referral" =>
          /\ Chain(call.tgt, call.trace)
          /\ call.current_tgt = Before(call.tgt, call.trace, Len(call.trace) + 1)
    /\ Chain(result.tgt, result.trace)

\* A ticket that a call returns is the one asked for: by its encrypted and its
\* plain name, issued in this call by the service's own realm.
ResultIsRequested ==
    result.status = "ok" =>
        /\ result.ticket.service = result.service
        /\ result.ticket.ticket.service = result.service
        /\ \E reply \in replies :
              /\ Accepted(reply) = result.ticket
              /\ reply.nonce = nonce /\ reply.realm = result.service.realm

\* The limit is exact: a trace that succeeds has at most max referrals, and
\* one that is given up had one more.
LimitIsExact ==
    /\ result.status = "ok" => Len(result.trace) <= result.max
    /\ result.status = "depth" => Len(result.trace) = result.max + 1

\* Where a request of each kind goes.
SentTo(request) ==
    /\ request.kind \in {"referral", "renew_tgt"} =>
          request.ticket.service.components = <<"krbtgt", request.realm>>
    /\ request.kind = "renew_ticket" => request.realm = request.ticket.service.realm
    /\ request.kind \in {"s4u2self", "s4u2proxy"} => request.realm = request.service.realm

\* However many realms a referral leads through, each TGT of the way is presented
\* to the realm that it is for, and so is one that is renewed; a service ticket
\* goes back to the realm of its service.  These can open it.  S4U requests have
\* no such promise: they go to the realm of the service they ask for, whatever
\* realm the TGT is for, and are of no use elsewhere (build_s4u2self_req,
\* build_s4u2proxy_req).  Authenticators are always sealed with the key in the
\* ticket beside them.
PresentedWhereValid ==
    \A request \in requests : SentTo(request) /\ request.ticket.key = request.key

\* The authenticator of a TGS-REQ names the client of the TGT.
AuthenticatorNamesClient ==
    \A request \in requests : request.crealm = request.ticket.client.realm

\* KDCs may refer back and forth: every call ends.
TracesEnd == (call.phase = "wait") ~> (call.phase = "idle")

=============================================================================
