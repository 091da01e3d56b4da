-------------------------- MODULE TgsExchangeProofs -------------------------
(***************************************************************************)
(* Traces, results and requests of TGS exchanges, for any realms, services, *)
(* users, configuration and limits.                                         *)
(***************************************************************************)
EXTENDS TgsExchange, TLAPS

-----------------------------------------------------------------------------
(* The inductive invariant.                                                 *)

\* A session whose parts belong together: its ticket is for the service that
\* the reply named under encryption, and holds the session key.
Genuine(session) ==
    /\ session.ticket.service = session.service
    /\ session.ticket.key = session.key

SessionInv == \A session \in sessions : Genuine(session)

\* A KDC issues tickets of its own realm.
ReplyInv ==
    \A reply \in replies :
        reply.service.realm = reply.realm /\ reply.ticket.key = reply.key

\* What a call knows of the request it waits for.
CallInv ==
    /\ Genuine(call.tgt) /\ Genuine(call.current_tgt)
    /\ \A i \in DOMAIN call.trace : Genuine(call.trace[i])
    /\ call.phase = "wait" =>
          /\ call.request.nonce = nonce
          /\ Len(call.trace) <= call.max
          /\ call.request.kind # "referral" =>
                call.trace = <<>> /\ call.request.service = call.service
          /\ call.request.kind = "referral" =>
                /\ call.request.key = call.current_tgt.key
                /\ call.request.realm = tgt_realm(call.current_tgt)
                /\ is_tgt_principal(call.current_tgt.service)
                /\ call.request.service = call.service
                      \/ is_tgt_principal(call.request.service)

IInv ==
    /\ TypeOK
    /\ SessionInv /\ ReplyInv /\ CallInv
    /\ TraceIsChain /\ ResultIsRequested /\ LimitIsExact /\ PresentedWhereValid

-----------------------------------------------------------------------------
(* Principals and sessions.                                                 *)

\* Every principal has a realm and a name.
LEMMA PrincipalType ==
    ASSUME NEW p \in Principals
    PROVE  /\ p.realm \in Realms
           /\ p = [realm |-> p.realm, components |-> p.components]
<1>1. CASE \E s \in Services, r \in Realms : p = [s EXCEPT !.realm = r]
  BY <1>1, RealmAssumption
<1>2. CASE p \in Krbtgts
  BY <1>2 DEF Krbtgts, Krbtgt, Principal
<1>3. CASE p \in Users
  BY <1>3, RealmAssumption
<1>4. CASE p = Me
  BY <1>4, RealmAssumption DEF Me, Principal
<1> QED
  BY <1>1, <1>2, <1>3, <1>4 DEF Principals

\* Krbtgt principals are krbtgt/REALM of one realm.
LEMMA TgtShape ==
    ASSUME NEW p \in Principals, is_tgt_principal(p)
    PROVE  LET realm == p.components[Len(p.components)]
           IN  realm \in Realms /\ p.components = <<"krbtgt", realm>>
<1> SUFFICES \E realm \in Realms : p.components = <<"krbtgt", realm>>
  OBVIOUS
<1>1. CASE \E s \in Services, r \in Realms : p = [s EXCEPT !.realm = r]
  <2>1. PICK s \in Services, r \in Realms : p = [s EXCEPT !.realm = r]
    BY <1>1
  <2>2. p.components = s.components
    BY <2>1, RealmAssumption
  <2> QED
    BY <2>1, <2>2, KrbtgtAssumption DEF is_tgt_principal
<1>2. CASE p \in Krbtgts
  BY <1>2 DEF Krbtgts, Krbtgt, Principal
<1>3. CASE p \in Users
  BY <1>3, KrbtgtAssumption
<1>4. CASE p = Me
  BY <1>4 DEF Me, Principal, is_tgt_principal
<1> QED
  BY <1>1, <1>2, <1>3, <1>4 DEF Principals

\* The krbtgt of a realm is one of the principals.
LEMMA KrbtgtType ==
    ASSUME NEW realm \in Realms, NEW issuer \in Realms
    PROVE  /\ Krbtgt(realm, issuer) \in Principals
           /\ Krbtgt(realm, issuer).realm = issuer
           /\ is_tgt_principal(Krbtgt(realm, issuer))
<1>1. Krbtgt(realm, issuer) \in Principals
  BY DEF Principals, Krbtgts
<1> QED
  BY <1>1 DEF Krbtgt, Principal, is_tgt_principal

LEMMA WithRealmType ==
    ASSUME NEW service \in Services, NEW otherwise \in Realms
    PROVE  WithRealm(service, otherwise) \in Principals
<1>1. service.realm # NoRealm => service = [service EXCEPT !.realm = service.realm]
                                 /\ service.realm \in Realms
  BY RealmAssumption
<1>2. ResolvedRealm[service] # NoRealm => ResolvedRealm[service] \in Realms
  BY RealmAssumption
<1> QED
  BY <1>1, <1>2 DEF WithRealm, Principals

LEMMA HomeTgtType ==
    /\ Me \in Principals
    /\ HomeTgt \in Sessions /\ Genuine(HomeTgt)
    /\ Unsent \in Requests
    /\ Idle \in Calls
    /\ NoResult \in Results
<1>1. Me \in Principals
  BY DEF Principals
<1>2. Krbtgt(Home, Home) \in Principals
  BY KrbtgtType, RealmAssumption
<1>3. HomeTgt \in Sessions /\ Genuine(HomeTgt) /\ HomeTgt.ticket \in Tickets
  BY <1>1, <1>2, BoundAssumption DEF HomeTgt, Session, Ticket, Sessions, Tickets, Genuine
<1>4. Unsent \in Requests
  BY <1>1, <1>3, RealmAssumption, BoundAssumption DEF Unsent, Requests, Kinds
<1>5. <<>> \in Seq(Sessions)
  OBVIOUS
<1>6. Idle \in Calls
  BY <1>1, <1>3, <1>4, <1>5 DEF Idle, Calls
<1>7. NoResult \in Results
  BY <1>1, <1>3, <1>5 DEF NoResult, Results
<1> QED
  BY <1>1, <1>3, <1>4, <1>6, <1>7

\* The realm that a genuine TGT is for, which can open it.
LEMMA TgtOpens ==
    ASSUME NEW tgt \in Sessions, Genuine(tgt), is_tgt_principal(tgt.service)
    PROVE  /\ tgt_realm(tgt) \in Realms
           /\ tgt.ticket.service.components = <<"krbtgt", tgt_realm(tgt)>>
<1>1. tgt.service \in Principals
  BY DEF Sessions
<1> QED
  BY <1>1, TgtShape DEF tgt_realm, Genuine

LEMMA RequestType ==
    ASSUME NEW kind \in Kinds, NEW n \in 0 .. MaxCalls, NEW tgt \in Sessions, Genuine(tgt),
           NEW realm \in Realms, NEW service \in Principals, NEW client \in Principals
    PROVE  LET request == build_tgs_req_for_realm(kind, n, tgt, realm, service, client)
           IN  /\ request \in Requests
               /\ request.kind = kind /\ request.nonce = n /\ request.realm = realm
               /\ request.service = service /\ request.key = tgt.key
               /\ request.ticket = tgt.ticket /\ request.ticket.key = request.key
<1>1. tgt.ticket \in Tickets /\ tgt.key \in 0 .. MaxKeys
  BY DEF Sessions
<1>2. tgt.ticket.service.realm \in Realms
  BY <1>1, PrincipalType DEF Tickets
<1> QED
  BY <1>1, <1>2 DEF build_tgs_req_for_realm, Requests, Genuine

\* A new call has no trace.
LEMMA NewCallType ==
    ASSUME NEW tgt \in Sessions, Genuine(tgt), NEW service \in Principals, NEW max \in Nat
    PROVE  LET c == NewCall(tgt, service, max)
           IN  /\ c \in Calls
               /\ c.tgt = tgt /\ c.current_tgt = tgt /\ c.service = service
               /\ c.max = max /\ c.trace = <<>>
<1>1. <<>> \in Seq(Sessions)
  OBVIOUS
<1> QED
  BY <1>1, HomeTgtType DEF NewCall, Idle, Calls

-----------------------------------------------------------------------------
(* Pieces that actions share.                                               *)

\* A call that makes no request.
LEMMA RefuseStep ==
    ASSUME IInv, Refuse, nonce' \in 0 .. MaxCalls, UNCHANGED <<keys, replies, sessions>>
    PROVE  IInv'
<1>1. /\ call' = Idle /\ result'.status = "error" /\ result'.trace = <<>>
      /\ result' \in Results
  BY HomeTgtType DEF Refuse, NoResult, Results
<1>2. TypeOK'
  BY <1>1, HomeTgtType DEF IInv, TypeOK, Refuse
<1>3. CallInv'
  BY <1>1, HomeTgtType DEF CallInv, Idle
<1>4. TraceIsChain' /\ ResultIsRequested' /\ LimitIsExact'
  BY <1>1 DEF TraceIsChain, Chain, ResultIsRequested, LimitIsExact, Idle
<1> QED
  BY <1>2, <1>3, <1>4 DEF IInv, SessionInv, ReplyInv, PresentedWhereValid, Refuse

\* What a call c has to be to make the request.
MayAsk(c, request) ==
    /\ c \in Calls /\ request \in Requests
    /\ Genuine(c.tgt) /\ Genuine(c.current_tgt)
    /\ \A i \in DOMAIN c.trace : Genuine(c.trace[i])
    /\ Len(c.trace) <= c.max
    /\ request.kind # "referral" => c.trace = <<>> /\ request.service = c.service
    /\ request.kind = "referral" =>
          /\ request.key = c.current_tgt.key
          /\ request.realm = tgt_realm(c.current_tgt)
          /\ is_tgt_principal(c.current_tgt.service)
          /\ request.service = c.service \/ is_tgt_principal(request.service)
          /\ c.current_tgt = Before(c.tgt, c.trace, Len(c.trace) + 1)
    /\ SentTo(request) /\ request.ticket.key = request.key

\* A call that makes a request or cannot build it.
LEMMA AskStep ==
    ASSUME IInv, nonce' \in 0 .. MaxCalls, UNCHANGED <<keys, replies, sessions>>,
           NEW c, NEW request, Ask(c, request), MayAsk(c, request),
           request.nonce = nonce', Chain(c.tgt, c.trace)'
    PROVE  IInv'
<1>1. CASE Refuse
  BY <1>1, RefuseStep
<1>2. CASE /\ call' = [c EXCEPT !.phase = "wait", !.request = request]
           /\ requests' = requests \cup {request}
           /\ result' = NoResult
  <2>1. /\ call' \in Calls /\ call'.request = request /\ call'.trace = c.trace
        /\ call'.tgt = c.tgt /\ call'.current_tgt = c.current_tgt
        /\ call'.service = c.service /\ call'.max = c.max
    BY <1>2 DEF MayAsk, Calls
  <2>2. TypeOK'
    BY <1>2, <2>1, HomeTgtType DEF IInv, TypeOK, MayAsk
  <2>3. CallInv'
    BY <2>1 DEF CallInv, MayAsk
  <2>4. PresentedWhereValid'
    BY <1>2 DEF IInv, PresentedWhereValid, MayAsk
  <2>5. ResultIsRequested' /\ LimitIsExact' /\ Chain(result.tgt, result.trace)'
    BY <1>2 DEF ResultIsRequested, LimitIsExact, Chain, NoResult
  <2>6. TraceIsChain'
    BY <2>1, <2>5 DEF TraceIsChain, MayAsk, Chain, IssuedOn, Before
  <2> QED
    BY <2>2, <2>3, <2>4, <2>5, <2>6 DEF IInv, SessionInv, ReplyInv
<1> QED
  BY <1>1, <1>2 DEF Ask

\* One turn of the referral loop.
LEMMA AskForServiceStep ==
    ASSUME IInv, nonce' \in 0 .. MaxCalls, UNCHANGED <<keys, replies, sessions>>,
           NEW c \in Calls, AskForService(c, nonce'),
           Genuine(c.tgt), Genuine(c.current_tgt), is_tgt_principal(c.current_tgt.service),
           \A i \in DOMAIN c.trace : Genuine(c.trace[i]),
           Len(c.trace) <= c.max,
           c.current_tgt = Before(c.tgt, c.trace, Len(c.trace) + 1),
           Chain(c.tgt, c.trace)'
    PROVE  IInv'
<1> DEFINE tgt == c.current_tgt
           realm == tgt_realm(tgt)
           service == IF realm = c.service.realm THEN c.service
                      ELSE Krbtgt(c.service.realm, realm)
           request == build_tgs_req_for_realm("referral", nonce', tgt, realm, service,
                                              tgt.client)
<1>1. tgt \in Sessions /\ tgt.client \in Principals /\ c.service \in Principals
  BY DEF Calls, Sessions
<1>2. /\ realm \in Realms
      /\ tgt.ticket.service.components = <<"krbtgt", realm>>
  BY <1>1, TgtOpens
<1>3. /\ service \in Principals
      /\ service = c.service \/ is_tgt_principal(service)
  BY <1>1, <1>2, PrincipalType, KrbtgtType
<1>4. Ask(c, request)
  BY DEF AskForService
<1>5. "referral" \in Kinds
  BY DEF Kinds
<1> HIDE DEF realm, service
<1>6. /\ request \in Requests
      /\ request.kind = "referral" /\ request.nonce = nonce' /\ request.realm = realm
      /\ request.service = service /\ request.key = tgt.key
      /\ request.ticket = tgt.ticket /\ request.ticket.key = request.key
  BY <1>1, <1>2, <1>3, <1>5, RequestType
<1> HIDE DEF request
<1>7. MayAsk(c, request)
  BY <1>2, <1>3, <1>6 DEF MayAsk, SentTo, realm
<1> QED
  BY <1>4, <1>6, <1>7, AskStep

\* A new call that makes one request, of any kind but a referral.
LEMMA SingleStep ==
    ASSUME IInv, nonce' \in 0 .. MaxCalls, UNCHANGED <<keys, replies, sessions>>,
           NEW kind \in Kinds \ {"referral"}, NEW tgt \in Sessions, Genuine(tgt),
           NEW realm \in Realms, NEW service \in Principals, NEW client \in Principals,
           kind = "renew_tgt" => tgt.ticket.service.components = <<"krbtgt", realm>>,
           kind = "renew_ticket" => realm = tgt.ticket.service.realm,
           kind \in {"s4u2self", "s4u2proxy"} => realm = service.realm,
           Ask(NewCall(tgt, service, 0),
               build_tgs_req_for_realm(kind, nonce', tgt, realm, service, client))
    PROVE  IInv'
<1> DEFINE c == NewCall(tgt, service, 0)
           request == build_tgs_req_for_realm(kind, nonce', tgt, realm, service, client)
<1>1. /\ c \in Calls
      /\ c.tgt = tgt /\ c.current_tgt = tgt /\ c.service = service
      /\ c.max = 0 /\ c.trace = <<>>
  BY NewCallType
<1>2. /\ request \in Requests
      /\ request.kind = kind /\ request.nonce = nonce' /\ request.realm = realm
      /\ request.service = service /\ request.ticket = tgt.ticket
      /\ request.ticket.key = request.key
  BY RequestType
<1> HIDE DEF c, request
<1>3. MayAsk(c, request)
  BY <1>1, <1>2 DEF MayAsk, SentTo
<1>4. Chain(c.tgt, c.trace)'
  BY <1>1 DEF Chain
<1> QED
  BY <1>2, <1>3, <1>4, AskStep DEF c, request

-----------------------------------------------------------------------------
(* Actions of the application.                                              *)

LEMMA RenewTgtStep ==
    ASSUME IInv, NEW tgt \in sessions, renew_tgt(tgt)
    PROVE  IInv'
<1>1. nonce' \in 0 .. MaxCalls /\ UNCHANGED <<keys, replies, sessions>>
  BY BoundAssumption DEF renew_tgt, Begin, IInv, TypeOK
<1>2. tgt \in Sessions /\ tgt.client \in Principals /\ Genuine(tgt)
  BY DEF IInv, TypeOK, SessionInv, Sessions
<1>3. CASE Refuse
  BY <1>1, <1>3, RefuseStep
<1>4. CASE /\ is_tgt_principal(tgt.service)
           /\ LET realm == tgt_realm(tgt)
                  service == Krbtgt(realm, realm)
              IN  Ask(NewCall(tgt, service, 0),
                      build_tgs_req_for_realm("renew_tgt", nonce', tgt, realm, service,
                                              tgt.client))
  <2>1. /\ tgt_realm(tgt) \in Realms
        /\ tgt.ticket.service.components = <<"krbtgt", tgt_realm(tgt)>>
    BY <1>2, <1>4, TgtOpens
  <2>2. Krbtgt(tgt_realm(tgt), tgt_realm(tgt)) \in Principals
    BY <2>1, KrbtgtType
  <2>3. "renew_tgt" \in Kinds \ {"referral"}
    BY DEF Kinds
  <2> QED
    BY <1>1, <1>2, <1>4, <2>1, <2>2, <2>3, SingleStep
<1> QED
  BY <1>3, <1>4 DEF renew_tgt

LEMMA RenewTicketStep ==
    ASSUME IInv, NEW ticket \in sessions, renew_ticket(ticket)
    PROVE  IInv'
<1>1. nonce' \in 0 .. MaxCalls /\ UNCHANGED <<keys, replies, sessions>>
  BY BoundAssumption DEF renew_ticket, Begin, IInv, TypeOK
<1>2. /\ ticket \in Sessions /\ Genuine(ticket)
      /\ ticket.client \in Principals /\ ticket.service \in Principals
  BY DEF IInv, TypeOK, SessionInv, Sessions
<1>3. ticket.service.realm \in Realms /\ ticket.service.realm = ticket.ticket.service.realm
  BY <1>2, PrincipalType DEF Genuine
<1>4. "renew_ticket" \in Kinds \ {"referral"}
  BY DEF Kinds
<1> QED
  BY <1>1, <1>2, <1>3, <1>4, SingleStep DEF renew_ticket

LEMMA S4U2SelfStep ==
    ASSUME IInv, NEW tgt \in sessions, NEW user \in Users, s4u2self(tgt, user)
    PROVE  IInv'
<1>1. nonce' \in 0 .. MaxCalls /\ UNCHANGED <<keys, replies, sessions>>
  BY BoundAssumption DEF s4u2self, Begin, IInv, TypeOK
<1>2. tgt \in Sessions /\ Genuine(tgt) /\ tgt.client \in Principals
  BY DEF IInv, TypeOK, SessionInv, Sessions
<1>3. tgt.client.realm \in Realms /\ user \in Principals
  BY <1>2, PrincipalType DEF Principals
<1>4. "s4u2self" \in Kinds \ {"referral"}
  BY DEF Kinds
<1> QED
  BY <1>1, <1>2, <1>3, <1>4, SingleStep DEF s4u2self

LEMMA S4U2ProxyStep ==
    ASSUME IInv, NEW tgt \in sessions, NEW evidence \in sessions, NEW service \in Services,
           service.realm # NoRealm, s4u2proxy(tgt, evidence, service)
    PROVE  IInv'
<1>1. nonce' \in 0 .. MaxCalls /\ UNCHANGED <<keys, replies, sessions>>
  BY BoundAssumption DEF s4u2proxy, Begin, IInv, TypeOK
<1>2. /\ tgt \in Sessions /\ Genuine(tgt)
      /\ evidence.client \in Principals
  BY DEF IInv, TypeOK, SessionInv, Sessions
<1>3. WithRealm(service, Home) \in Principals /\ WithRealm(service, Home) = service
  BY RealmAssumption, WithRealmType DEF WithRealm
<1>4. service \in Principals /\ service.realm \in Realms
  BY <1>3, PrincipalType
<1>5. "s4u2proxy" \in Kinds \ {"referral"}
  BY DEF Kinds
<1>6. CASE Refuse
  BY <1>1, <1>6, RefuseStep
<1>7. CASE Ask(NewCall(tgt, service, 0),
               build_tgs_req_for_realm("s4u2proxy", nonce', tgt, service.realm, service,
                                       evidence.client))
  BY <1>1, <1>2, <1>4, <1>5, <1>7, SingleStep
<1> QED
  BY <1>6, <1>7 DEF s4u2proxy

LEMMA GetServiceTicketStep ==
    ASSUME IInv, NEW tgt \in sessions, NEW service \in Services, NEW max \in Nat,
           get_service_ticket_with_referral_trace_limit(tgt, service, max)
    PROVE  IInv'
<1>1. nonce' \in 0 .. MaxCalls /\ UNCHANGED <<keys, replies, sessions>>
  BY BoundAssumption
     DEF get_service_ticket_with_referral_trace_limit, Begin, IInv, TypeOK
<1>2. tgt \in Sessions /\ Genuine(tgt)
  BY DEF IInv, TypeOK, SessionInv
<1>3. CASE Refuse
  BY <1>1, <1>3, RefuseStep
<1>4. CASE /\ is_tgt_principal(tgt.service)
           /\ AskForService(NewCall(tgt, WithRealm(service, tgt_realm(tgt)), max), nonce')
  <2> DEFINE c == NewCall(tgt, WithRealm(service, tgt_realm(tgt)), max)
  <2>1. WithRealm(service, tgt_realm(tgt)) \in Principals
    BY <1>2, <1>4, TgtOpens, WithRealmType
  <2>2. c \in Calls /\ c.tgt = tgt /\ c.current_tgt = tgt /\ c.max = max /\ c.trace = <<>>
    BY <1>2, <2>1, NewCallType
  <2>3. AskForService(c, nonce')
    BY <1>4
  <2> HIDE DEF c
  <2>4. /\ Chain(c.tgt, c.trace)'
        /\ c.current_tgt = Before(c.tgt, c.trace, Len(c.trace) + 1)
        /\ Len(c.trace) <= c.max
    BY <2>2 DEF Chain, Before
  <2> QED
    BY <1>1, <1>2, <1>4, <2>2, <2>3, <2>4, AskForServiceStep
<1> QED
  BY <1>3, <1>4 DEF get_service_ticket_with_referral_trace_limit

-----------------------------------------------------------------------------
(* Replies.                                                                 *)

\* A call that ends in an error.
LEMMA ReplyFailsStep ==
    ASSUME IInv, ReplyFails, UNCHANGED <<nonce, keys, replies>>
    PROVE  IInv'
<1>1. call \in Calls /\ <<>> \in Seq(Sessions)
  BY DEF IInv, TypeOK
<1>2. /\ call' = Idle /\ result'.status = "error" /\ result'.trace = <<>>
      /\ result' \in Results
  BY <1>1, HomeTgtType DEF ReplyFails, Return, Results, Calls
<1>3. TypeOK'
  BY <1>2, HomeTgtType DEF IInv, TypeOK, ReplyFails
<1>4. CallInv'
  BY <1>2, HomeTgtType DEF CallInv, Idle
<1>5. TraceIsChain' /\ ResultIsRequested' /\ LimitIsExact'
  BY <1>2 DEF TraceIsChain, Chain, ResultIsRequested, LimitIsExact, Idle
<1> QED
  BY <1>3, <1>4, <1>5 DEF IInv, SessionInv, ReplyInv, PresentedWhereValid, ReplyFails

\* The session of a reply that passes the checks.
LEMMA AcceptedType ==
    ASSUME IInv, NEW reply \in replies, reply.ticket.service = reply.service
    PROVE  /\ Accepted(reply) \in Sessions /\ Genuine(Accepted(reply))
           /\ Accepted(reply).service = reply.service
           /\ Accepted(reply).key = reply.key
           /\ Accepted(reply).ticket = reply.ticket
<1>1. reply \in Replies /\ reply.ticket.key = reply.key
  BY DEF IInv, TypeOK, ReplyInv
<1> QED
  BY <1>1 DEF Replies, Accepted, Session, Sessions, Genuine

\* A chain stays one while the call lasts.
LEMMA ChainKept ==
    ASSUME NEW tgt, NEW trace, Chain(tgt, trace), nonce' = nonce, replies \subseteq replies'
    PROVE  Chain(tgt, trace)'
BY DEF Chain, IssuedOn

\* A referral that is accepted makes the chain longer by one.
LEMMA ChainGrows ==
    ASSUME IInv, call.phase = "wait", call.request.kind = "referral",
           NEW reply \in replies, reply.realm = call.request.realm,
           process_tgs_rep_inner(call.request, reply, TRUE),
           reply.service # call.service,
           tgt_realm(Accepted(reply)) # call.request.realm
    PROVE  LET ticket == Accepted(reply)
               trace == Append(call.trace, ticket)
           IN  /\ is_tgt_principal(ticket.service)
               /\ trace \in Seq(Sessions) /\ Len(trace) = Len(call.trace) + 1
               /\ \A i \in DOMAIN trace : Genuine(trace[i])
               /\ Chain(call.tgt, trace)
               /\ ticket = Before(call.tgt, trace, Len(trace) + 1)
<1> DEFINE ticket == Accepted(reply)
           n == Len(call.trace)
           trace == Append(call.trace, ticket)
<1>1. /\ ticket \in Sessions /\ Genuine(ticket) /\ ticket.service = reply.service
  BY AcceptedType DEF process_tgs_rep_inner
<1>2. call.trace \in Seq(Sessions) /\ n \in Nat
  BY DEF IInv, TypeOK, Calls
<1>3. is_tgt_principal(ticket.service)
  BY <1>1 DEF IInv, CallInv, process_tgs_rep_inner
<1>4. /\ trace \in Seq(Sessions) /\ Len(trace) = n + 1 /\ DOMAIN trace = 1 .. n + 1
      /\ trace[n + 1] = ticket
      /\ \A i \in 1 .. n : trace[i] = call.trace[i]
      /\ DOMAIN call.trace = 1 .. n
  BY <1>1, <1>2
<1>5. \A i \in DOMAIN trace : Genuine(trace[i])
  BY <1>1, <1>2, <1>4 DEF IInv, CallInv
<1>6. IssuedOn(ticket, call.current_tgt) /\ tgt_realm(ticket) # tgt_realm(call.current_tgt)
  BY DEF IssuedOn, IInv, CallInv, process_tgs_rep_inner
<1>7. /\ Chain(call.tgt, call.trace)
      /\ call.current_tgt = Before(call.tgt, call.trace, n + 1)
  BY DEF IInv, TraceIsChain
<1> HIDE DEF ticket, n, trace
<1>8. ASSUME NEW i \in 1 .. n + 1
      PROVE  Before(call.tgt, trace, i) = Before(call.tgt, call.trace, i)
  BY <1>2, <1>4 DEF Before
<1>9. ASSUME NEW i \in DOMAIN trace
      PROVE  /\ IssuedOn(trace[i], Before(call.tgt, trace, i))
             /\ is_tgt_principal(trace[i].service)
             /\ tgt_realm(trace[i]) # tgt_realm(Before(call.tgt, trace, i))
  <2>1. CASE i = n + 1
    BY <1>2, <1>3, <1>4, <1>6, <1>7, <1>8, <2>1
  <2>2. CASE i \in 1 .. n
    BY <1>2, <1>4, <1>7, <1>8, <2>2 DEF Chain
  <2> QED
    BY <1>2, <1>4, <2>1, <2>2
<1>10. Chain(call.tgt, trace)
  BY <1>9 DEF Chain
<1>11. ticket = Before(call.tgt, trace, n + 2)
  BY <1>2, <1>4 DEF Before
<1> QED
  BY <1>2, <1>3, <1>4, <1>5, <1>10, <1>11 DEF ticket, n, trace

\* A referral is followed, or the call is given up.
LEMMA FollowStep ==
    ASSUME IInv, call.phase = "wait", call.request.kind = "referral",
           NEW reply \in replies, reply.realm = call.request.realm,
           process_tgs_rep_inner(call.request, reply, TRUE),
           reply.service # call.service,
           tgt_realm(Accepted(reply)) # call.request.realm,
           Follow(Accepted(reply)), UNCHANGED <<nonce, keys, replies, sessions>>
    PROVE  IInv'
<1> DEFINE ticket == Accepted(reply)
           trace == Append(call.trace, ticket)
           c == [call EXCEPT !.current_tgt = ticket, !.trace = trace]
<1>1. /\ ticket \in Sessions /\ Genuine(ticket)
  BY AcceptedType DEF process_tgs_rep_inner
<1>2. /\ is_tgt_principal(ticket.service)
      /\ trace \in Seq(Sessions) /\ Len(trace) = Len(call.trace) + 1
      /\ \A i \in DOMAIN trace : Genuine(trace[i])
      /\ Chain(call.tgt, trace)
      /\ ticket = Before(call.tgt, trace, Len(trace) + 1)
  BY ChainGrows
<1>3. /\ call \in Calls /\ Genuine(call.tgt) /\ call.max \in Nat
      /\ Len(call.trace) \in Nat /\ Len(call.trace) <= call.max
      /\ nonce \in 0 .. MaxCalls
  BY DEF IInv, TypeOK, Calls, CallInv
<1> HIDE DEF ticket, trace
<1>4. PICK tgt, longer : tgt = call.tgt /\ longer = trace
  OBVIOUS
<1>5. Chain(tgt, longer)'
  BY <1>2, <1>4, ChainKept
<1>6. CASE /\ Len(call.trace) = call.max
           /\ Return("depth", ticket, trace)
           /\ UNCHANGED requests
  <2>1. /\ call' = Idle /\ result' \in Results
        /\ result'.status = "depth" /\ result'.tgt = call.tgt /\ result'.trace = trace
        /\ result'.max = call.max
    BY <1>1, <1>2, <1>3, <1>6 DEF Return, Results, Calls
  <2>2. TypeOK'
    BY <1>6, <2>1, HomeTgtType DEF IInv, TypeOK
  <2>3. CallInv'
    BY <2>1, HomeTgtType DEF CallInv, Idle
  <2>4. ResultIsRequested' /\ LimitIsExact'
    BY <1>2, <1>6, <2>1 DEF ResultIsRequested, LimitIsExact
  <2>5. Chain(result.tgt, result.trace)'
    BY <1>4, <1>5, <2>1 DEF Chain, IssuedOn, Before
  <2>6. TraceIsChain'
    BY <2>1, <2>5 DEF TraceIsChain, Idle
  <2> QED
    BY <1>6, <2>2, <2>3, <2>4, <2>6 DEF IInv, SessionInv, ReplyInv, PresentedWhereValid
<1>7. CASE /\ Len(call.trace) < call.max
           /\ AskForService(c, nonce)
  <2>1. PICK next : next = c
    OBVIOUS
  <2>2. /\ next \in Calls /\ next.tgt = call.tgt /\ next.current_tgt = ticket
        /\ next.trace = trace /\ next.max = call.max
    BY <1>1, <1>2, <1>3, <2>1 DEF Calls
  <2>3. AskForService(next, nonce') /\ nonce' \in 0 .. MaxCalls
    BY <1>3, <1>7, <2>1
  <2>4. next.tgt = tgt /\ next.trace = longer
    BY <1>4, <2>2
  <2>5. Chain(next.tgt, next.trace)'
    BY <1>5, <2>4
  <2> QED
    BY <1>1, <1>2, <1>3, <1>7, <2>2, <2>3, <2>5, AskForServiceStep
<1> QED
  BY <1>6, <1>7 DEF Follow, ticket, trace

\* A call that succeeds.
LEMMA DoneStep ==
    ASSUME IInv, call.phase = "wait", NEW reply \in replies,
           reply.realm = call.request.realm,
           process_tgs_rep_inner(call.request, reply, call.request.kind = "referral"),
           call.request.kind = "referral" => reply.service = call.service,
           Done(Accepted(reply)), UNCHANGED <<nonce, keys, replies>>
    PROVE  IInv'
<1> DEFINE ticket == Accepted(reply)
<1>1. /\ ticket \in Sessions /\ Genuine(ticket) /\ ticket.service = reply.service
      /\ ticket.ticket.service = reply.service
      /\ reply.nonce = nonce /\ reply.service.realm = reply.realm
  BY AcceptedType DEF process_tgs_rep_inner, IInv, ReplyInv, CallInv
<1>2. reply.service = call.service
  BY DEF process_tgs_rep_inner, IInv, CallInv
<1>3. /\ call \in Calls /\ call.trace \in Seq(Sessions)
      /\ \A i \in DOMAIN call.trace : Genuine(call.trace[i])
      /\ Len(call.trace) <= call.max
  BY DEF IInv, TypeOK, Calls, CallInv
<1>4. /\ call' = Idle /\ result' \in Results
      /\ result'.status = "ok" /\ result'.ticket = ticket /\ result'.tgt = call.tgt
      /\ result'.service = call.service /\ result'.max = call.max
      /\ result'.trace = call.trace
  BY <1>1, <1>3 DEF Done, Return, Results, Calls
<1>5. /\ requests' = requests
      /\ sessions' = sessions \cup {ticket} \cup {call.trace[i] : i \in DOMAIN call.trace}
  BY DEF Done
<1>6. \A i \in DOMAIN call.trace : call.trace[i] \in Sessions
  BY <1>3
<1>7. TypeOK' /\ SessionInv'
  BY <1>1, <1>3, <1>4, <1>5, <1>6, HomeTgtType DEF IInv, TypeOK, SessionInv
<1>8. CallInv'
  BY <1>4, HomeTgtType DEF CallInv, Idle
<1>9. ResultIsRequested' /\ LimitIsExact'
  BY <1>1, <1>2, <1>3, <1>4 DEF ResultIsRequested, LimitIsExact
<1>10. Chain(call.tgt, call.trace)
  BY <1>3 DEF IInv, TraceIsChain, CallInv, Chain
<1>11. Chain(result.tgt, result.trace)'
  <2>1. PICK tgt, trace : tgt = call.tgt /\ trace = call.trace
    OBVIOUS
  <2>2. Chain(tgt, trace)'
    BY <1>10, <2>1, ChainKept
  <2> QED
    BY <1>4, <2>1, <2>2 DEF Chain, IssuedOn, Before
<1>12. TraceIsChain'
  BY <1>4, <1>11 DEF TraceIsChain, Idle
<1> QED
  BY <1>5, <1>7, <1>8, <1>9, <1>12 DEF IInv, ReplyInv, PresentedWhereValid

LEMMA ReceiveStep ==
    ASSUME IInv, Receive
    PROVE  IInv'
<1> DEFINE referrals == call.request.kind = "referral"
<1>1. PICK reply \in replies :
        /\ reply.realm = call.request.realm
        /\ \/ ReplyFails
           \/ /\ process_tgs_rep_inner(call.request, reply, referrals)
              /\ LET ticket == Accepted(reply)
                 IN \/ (~ referrals \/ ticket.service = call.service) /\ Done(ticket)
                    \/ /\ referrals /\ ticket.service # call.service
                       /\ \/ ReplyFails
                          \/ /\ tgt_realm(ticket) # call.request.realm
                             /\ Follow(ticket)
                             /\ UNCHANGED sessions
  BY DEF Receive
<1>2. call.phase = "wait" /\ UNCHANGED <<nonce, keys, replies>>
  BY DEF Receive
<1>3. Accepted(reply).service = reply.service
  BY DEF Accepted, Session
<1>4. CASE ReplyFails
  BY <1>2, <1>4, ReplyFailsStep
<1>5. CASE /\ process_tgs_rep_inner(call.request, reply, referrals)
           /\ ~ referrals \/ Accepted(reply).service = call.service
           /\ Done(Accepted(reply))
  BY <1>1, <1>2, <1>3, <1>5, DoneStep
<1>6. CASE /\ process_tgs_rep_inner(call.request, reply, referrals)
           /\ referrals /\ Accepted(reply).service # call.service
           /\ tgt_realm(Accepted(reply)) # call.request.realm
           /\ Follow(Accepted(reply)) /\ UNCHANGED sessions
  <2>1. process_tgs_rep_inner(call.request, reply, TRUE)
    BY <1>6 DEF process_tgs_rep_inner
  <2> QED
    BY <1>1, <1>2, <1>3, <1>6, <2>1, FollowStep
<1> QED
  BY <1>1, <1>4, <1>5, <1>6

-----------------------------------------------------------------------------
(* KDCs.                                                                    *)

LEMMA ServeStep ==
    ASSUME IInv, Serve
    PROVE  IInv'
<1>1. PICK request \in requests : \E service, named \in Offers(request.realm) :
        replies' = replies \cup
            {[realm |-> request.realm, client |-> ClientFor(request),
              sealed |-> request.key, nonce |-> request.nonce,
              service |-> service, key |-> keys',
              ticket |-> Ticket(ClientFor(request), named, keys')]}
  BY DEF Serve
<1>2. PICK service \in Offers(request.realm), named \in Offers(request.realm) :
        replies' = replies \cup
            {[realm |-> request.realm, client |-> ClientFor(request),
              sealed |-> request.key, nonce |-> request.nonce,
              service |-> service, key |-> keys',
              ticket |-> Ticket(ClientFor(request), named, keys')]}
  BY <1>1
<1>3. /\ keys' \in 0 .. MaxKeys
      /\ UNCHANGED <<call, nonce, requests, sessions, result>>
  BY BoundAssumption DEF Serve, IInv, TypeOK
<1>4. request \in Requests
  BY DEF IInv, TypeOK
<1>5. ClientFor(request) \in Principals
  BY <1>4 DEF ClientFor, Requests, Tickets
<1>6. service \in Principals /\ service.realm = request.realm /\ named \in Principals
  BY <1>2 DEF Offers
<1> DEFINE client == ClientFor(request)
           new == [realm |-> request.realm, client |-> client,
                   sealed |-> request.key, nonce |-> request.nonce,
                   service |-> service, key |-> keys',
                   ticket |-> Ticket(client, named, keys')]
<1>7. replies' = replies \cup {new}
  BY <1>2
<1> HIDE DEF client
<1>8. client \in Principals
  BY <1>5 DEF client
<1>9. /\ new \in Replies
      /\ new.service.realm = new.realm /\ new.ticket.key = new.key
  BY <1>3, <1>4, <1>6, <1>8 DEF Requests, Replies, Tickets, Ticket
<1> HIDE DEF new
<1>10. TypeOK' /\ ReplyInv'
  BY <1>3, <1>7, <1>9 DEF IInv, TypeOK, ReplyInv
<1>11. ASSUME NEW tgt, NEW trace, Chain(tgt, trace)
       PROVE  Chain(tgt, trace)'
  BY <1>3, <1>7, <1>11, ChainKept
<1>12. Chain(result.tgt, result.trace)'
  <2>1. PICK tgt, trace : tgt = result.tgt /\ trace = result.trace
    OBVIOUS
  <2>2. Chain(tgt, trace)'
    BY <1>11, <2>1 DEF IInv, TraceIsChain
  <2> QED
    BY <1>3, <2>1, <2>2 DEF Chain, IssuedOn, Before
<1>13. ASSUME call.phase = "wait", call.request.kind = "referral"
       PROVE  Chain(call.tgt, call.trace)'
  <2>1. PICK tgt, trace : tgt = call.tgt /\ trace = call.trace
    OBVIOUS
  <2>2. Chain(tgt, trace)'
    BY <1>11, <1>13, <2>1 DEF IInv, TraceIsChain
  <2> QED
    BY <1>3, <2>1, <2>2 DEF Chain, IssuedOn, Before
<1>14. TraceIsChain'
  BY <1>3, <1>12, <1>13 DEF IInv, TraceIsChain, Before
<1>15. ResultIsRequested'
  BY <1>3, <1>7 DEF IInv, ResultIsRequested
<1> QED
  BY <1>3, <1>10, <1>14, <1>15
     DEF IInv, SessionInv, CallInv, LimitIsExact, PresentedWhereValid

-----------------------------------------------------------------------------
(* Results.                                                                 *)

\* The invariant holds initially, and every step keeps it.
LEMMA InitHolds == Init => IInv
<1> SUFFICES ASSUME Init PROVE IInv
  OBVIOUS
<1>1. TypeOK
  BY HomeTgtType, BoundAssumption DEF Init, TypeOK
<1>2. SessionInv /\ CallInv
  BY HomeTgtType DEF Init, SessionInv, CallInv, Idle
<1> QED
  BY <1>1, <1>2 DEF Init, IInv, ReplyInv, TraceIsChain, ResultIsRequested, LimitIsExact,
                    PresentedWhereValid, Chain, Idle, NoResult

LEMMA StepKeeps == IInv /\ [Next]_vars => IInv'
<1> SUFFICES ASSUME IInv, [Next]_vars PROVE IInv'
  OBVIOUS
<1>1. ASSUME AppCall PROVE IInv'
  <2>1. PICK tgt \in sessions :
        \/ renew_tgt(tgt)
        \/ renew_ticket(tgt)
        \/ \E user \in Users : s4u2self(tgt, user)
        \/ \E evidence \in sessions, service \in Services :
              service.realm # NoRealm /\ s4u2proxy(tgt, evidence, service)
        \/ \E service \in Services, max \in 0 .. MaxReferrals :
              get_service_ticket_with_referral_trace_limit(tgt, service, max)
    BY <1>1 DEF AppCall
  <2>2. \A max \in 0 .. MaxReferrals : max \in Nat
    BY BoundAssumption
  <2> QED
    BY <2>1, <2>2, RenewTgtStep, RenewTicketStep, S4U2SelfStep, S4U2ProxyStep,
       GetServiceTicketStep
<1>2. ASSUME Fail PROVE IInv'
  BY <1>2, ReplyFailsStep DEF Fail
<1>3. ASSUME UNCHANGED vars PROVE IInv'
  BY <1>3 DEF vars, IInv, TypeOK, SessionInv, ReplyInv, CallInv, TraceIsChain, Chain, IssuedOn,
              ResultIsRequested, LimitIsExact, PresentedWhereValid
<1> QED
  BY <1>1, <1>2, <1>3, ReceiveStep, ServeStep DEF Next

\* Every state of an application, of its calls and of the KDCs they ask has
\* the invariant, and the type invariant with it.
THEOREM Invariance == Spec => []IInv
BY InitHolds, StepKeeps, PTL DEF Spec

\* Every referral TGT of a trace was issued in this call, by the realm that
\* the one before it is for and on its presentation, however many realms refer
\* to each other and whatever replies are repeated or late.
THEOREM TracesAreChains == Spec => []TraceIsChain
<1>1. IInv => TraceIsChain
  BY DEF IInv
<1> QED
  BY <1>1, Invariance, PTL

\* A ticket that a call returns is the one asked for, issued in this call by
\* the service's own realm.
THEOREM ResultsAreRequested == Spec => []ResultIsRequested
<1>1. IInv => ResultIsRequested
  BY DEF IInv
<1> QED
  BY <1>1, Invariance, PTL

\* Exactly as many referrals are followed as the limit allows.
THEOREM LimitsAreExact == Spec => []LimitIsExact
<1>1. IInv => LimitIsExact
  BY DEF IInv
<1> QED
  BY <1>1, Invariance, PTL

\* A TGT of a referral, and one that is renewed, goes to the realm that it is
\* for, a service ticket to the realm of its service, and an S4U request to that
\* of the service it asks for; always with an authenticator under the key in it.
THEOREM TgtsGoWhereValid == Spec => []PresentedWhereValid
<1>1. IInv => PresentedWhereValid
  BY DEF IInv
<1> QED
  BY <1>1, Invariance, PTL

=============================================================================
