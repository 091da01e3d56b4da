--------------------------- MODULE HttpNegotiate ----------------------------
(***************************************************************************)
(* HTTP Negotiate of src/http.rs from end to end: callers that send a       *)
(* request and retry it with a token (send_with_negotiate), or send it with *)
(* a token at once (authorize_request), and Tower services that validate    *)
(* the token, build the AP-REP and forward to the wrapped service.          *)
(*                                                                          *)
(* Callers share a principal and its service ticket, as tasks with clones   *)
(* of one client do.  The services of one layer record tokens in its shared *)
(* replay cache, or each in its own.  Replay detection is what ReplayGuard  *)
(* promises, for as long as the process lives.  Between them are proxies    *)
(* and the caller's HTTP client: a request may be delivered again and late, *)
(* wrapped otherwise, and answered by another request's response.           *)
(***************************************************************************)
EXTENDS Spnego, FiniteSets

CONSTANTS Calls,       \* calls of send_with_negotiate or authorize_request
          Services,    \* NegotiateService instances of one server process
          Configs,     \* environments and layer options, see Init
          Strays,      \* responses that proxies make up
          Principal,   \* the client principal of all callers
          TicketKey,   \* session key of its service ticket
          Names,       \* names of the service, name type included, that the
                       \* validator looks the same keytab key up for
          TicketName,  \* the one in the ticket that callers have
          MicrosPerSecond, Skew,
          MaxTime      \* bound on the clock

ASSUME TimeAssumption == /\ MicrosPerSecond \in Nat \ {0}
                         /\ Skew \in Nat /\ MaxTime \in Nat
                         /\ MicrosPerSecond <= MaxTime

ASSUME NameAssumption == /\ TicketName \in Names
                         /\ \A c \in Configs : c.names \subseteq Names

VARIABLES config,      \* layer options and environment, fixed
          clock,       \* in microseconds
          call,        \* per call: pc, context, result
          requests,    \* requests on the wire; each may be delivered again
          responses,   \* responses on the wire
          memory,      \* replay caches: <<cache, key>> recorded, and whose it was
          pending,     \* futures of the wrapped service: <<call, AP-REP header>>
          executions,  \* history: runs of the wrapped service per call and name
          accepted,    \* history: calls whose token some service accepted
          exposed      \* history: calls whose token outlived a restart

vars == <<config, clock, call, requests, responses, memory, pending,
          executions, accepted, exposed>>
historyVars == <<accepted, exposed>>

NoAuthorization == [form |-> "none"]
\* A header value with bytes that are no text.
Illegible == [form |-> "not text"]
NoContext == [key |-> Nil, service |-> Nil, client |-> Nil, ctime |-> 0, cusec |-> 0]
Idle == [pc |-> "idle", context |-> NoContext, result |-> "none"]

\* "Error" is any error: of the sender, of the client or of a header.
Results == Classifications \cup {"none", "NotNegotiated", "Error"}

ContextTime(context) == context.ctime * MicrosPerSecond + context.cusec

\* Requests are repeated, delayed and wrapped otherwise; "network": responses
\* are mixed up and made up; "crash": the server is restarted.
InTrouble == config.trouble # "none"

\* The cache a service records in: ValidatorOptions::build gives every service
\* of a layer a handle of the layer's cache, unless that was taken away.
\* A bug: build does not hand the layer's cache on.
CacheOfLocal(s) == s
CacheOf(s) == IF config.shared THEN "layer" ELSE s

-----------------------------------------------------------------------------
(* The caller.                                                              *)

\* The token of a context: spnego_token of InitiatorContext.
ApReqOf(context) ==
    [id |-> "ApReq", key |-> context.key, service |-> context.service,
     client |-> context.client, ctime |-> context.ctime, cusec |-> context.cusec]
Token(context) == EncodeSpnegoToken(NegTokenInitKrb5(Krb5MechToken(ApReqOf(context))))

Send(c, bytes) ==
    requests' = requests \cup {[call |-> c, authorization |-> bytes,
                                made |-> IF bytes.form = "none" THEN Nil ELSE clock]}

\* send_with_negotiate_options: the first request goes out without a token.
send_with_negotiate(c) ==
    /\ call[c] = Idle /\ c \in config.calls
    /\ call' = [call EXCEPT ![c].pc = "first"]
    /\ Send(c, NoAuthorization)
    /\ UNCHANGED <<config, clock, responses, memory, pending, executions, historyVars>>

\* authorize_request_context: a token before the first request.
authorize_request(c) ==
    /\ call[c] = Idle /\ c \in config.calls
    /\ call' = [call EXCEPT ![c].pc = "context"]
    /\ UNCHANGED <<config, clock, requests, responses, memory, pending, executions,
                   historyVars>>

Return(c, result) == call' = [call EXCEPT ![c].pc = "done", ![c].result = result]

\* current_time: seconds and microseconds of an authenticator.
ContextAt(t) == [key |-> TicketKey, service |-> TicketName, client |-> Principal,
                 ctime |-> t \div MicrosPerSecond, cusec |-> t % MicrosPerSecond]

\* spnego_context returns: the ticket is there and init_sec_context reads the
\* clock.  Nothing keeps two callers from reading the same microsecond.
SpnegoContext(c) ==
    /\ call[c].pc = "context"
    /\ call' = [call EXCEPT ![c].pc = "retry", ![c].context = ContextAt(clock)]
    /\ Send(c, Token(ContextAt(clock)))
    /\ UNCHANGED <<config, clock, responses, memory, pending, executions, historyVars>>

NoTicket(c) ==
    /\ call[c].pc = "context"
    /\ Return(c, "Error")
    /\ UNCHANGED <<config, clock, requests, responses, memory, pending, executions,
                   historyVars>>

\* What the sender hands back to call c: its response, and in trouble that of
\* another request or one that a proxy made up.
Arriving(c) == IF config.trouble = "network"
               THEN {r.response : r \in responses} \cup Strays
               ELSE {r.response : r \in {q \in responses : q.call = c}}

FirstResponse(c, response) ==
    /\ call[c].pc = "first"
    /\ LET retry == should_retry_with_negotiate(response)
       IN  CASE retry = "retry" -> call' = [call EXCEPT ![c].pc = "context"]
             [] retry = "done"  -> Return(c, "NotNegotiated")
             [] retry = "error" -> Return(c, "Error")
    /\ responses' = IF config.trouble = "network" THEN responses
                                      ELSE {r \in responses : r.call # c}
    /\ UNCHANGED <<config, clock, requests, memory, pending, executions, historyVars>>

FinalResponse(c, response) ==
    /\ call[c].pc = "retry"
    /\ Return(c, classify_negotiate_response(call[c].context, response.headers))
    /\ UNCHANGED <<config, clock, requests, responses, memory, pending, executions,
                   historyVars>>

\* The sender fails: a connection that broke, or a service that returned an
\* error instead of a response.
SenderFails(c) ==
    /\ call[c].pc \in {"first", "retry"}
    /\ InTrouble
    /\ Return(c, "Error")
    /\ UNCHANGED <<config, clock, requests, responses, memory, pending, executions,
                   historyVars>>

-----------------------------------------------------------------------------
(* The service.                                                             *)

\* ValidatedApReq of the validator: the session key, and the time within the
\* skew.  The ticket itself is good.
Validates(message) ==
    /\ message.key = TicketKey
    /\ LET t == ContextTime(message) IN t - clock <= Skew /\ clock - t <= Skew

\* A bug: the key leaves out the microseconds.
ReplayKeySeconds(message) == <<message.service, message.client, message.ctime>>

\* The service is named as the ticket names it outside its encrypted part, with
\* the name type; the client and the time are the authenticator's.
ReplayKey(message) ==
    <<message.service, message.client, message.ctime, message.cusec>>

\* A message or context with the service named otherwise in the ticket.
Under(message, name) == [message EXCEPT !.service = name]

Seen(s, message) == \E m \in memory : m[1] = CacheOf(s) /\ m[2] = ReplayKey(message)

\* Where responses are mixed up it no longer matters whose each is.
Respond(r, status, headers) ==
    responses' = responses \cup
        {[call |-> IF config.trouble = "network" THEN Nil ELSE r.call,
          response |-> [status |-> status, headers |-> headers]]}

challenge_response(r) == Respond(r, 401, << <<Negotiate([form |-> "bare"])>> >>)
reject_response(r) == Respond(r, 401, << <<Negotiate(EncodeSpnegoToken(reject))>> >>)

\* A mech token in its wrappings: as an initial token for Kerberos, bare, as a
\* response for the legacy mechanism, or behind one that is not Kerberos.
Wrapped(token) ==
    {EncodeSpnegoToken(NegTokenInitKrb5(token)),
     [form |-> "raw", token |-> token],
     EncodeSpnegoToken(NegTokenResp(Nil, "ms_legacy_krb5", token)),
     EncodeSpnegoToken(NegTokenInit(<<"ntlm">>, token))}

\* The bytes behind Authorization: Negotiate, as the service gets them.  In
\* trouble the AP-REQ may come wrapped otherwise, with the service named
\* otherwise in its ticket, or with the header spoilt.
Wrappings(bytes) ==
    IF bytes.form = "none" \/ config.trouble = "none" THEN {bytes}
    ELSE LET message == Krb5Message(FieldValue(bytes.fields, 2))
         IN  {Illegible} \cup
             UNION {Wrapped(Krb5MechToken(Under(message, name))) : name \in config.names}

\* An AP-REP echoes the time, under the session key; it names nobody.
ApRepTo(message) == [id |-> "ApRep", key |-> message.key,
                     ctime |-> message.ctime, cusec |-> message.cusec]
ApRepHeader(message) ==
    << <<Negotiate(EncodeSpnegoToken(accept_completed(
            Krb5MechToken(ApRepTo(message)))))>> >>

\* MissingAuthorization or InvalidHeader
NoToken(bytes) == bytes.form \in {"none", "not text"}

\* NegotiateService::call up to the wrapped service's future: the token is
\* recorded before the AP-REP is built, and building may fail.
Call(s, r, bytes) ==
    LET token == IF NoToken(bytes) THEN Malformed ELSE parse_negotiate_header(bytes)
        message == krb5_ap_req(token)
        valid == message # Nil /\ Validates(message) /\ ~ Seen(s, message)
    IN  /\ \/ /\ NoToken(bytes)
              /\ challenge_response(r)
              /\ UNCHANGED <<memory, pending, executions, accepted>>
           \/ \* no AP-REQ, or one that is not valid or a replay: Error::Spnego
              /\ ~ NoToken(bytes)
              /\ ~ valid
              /\ IF config.reject_invalid THEN reject_response(r) ELSE challenge_response(r)
              /\ UNCHANGED <<memory, pending, executions, accepted>>
           \/ /\ valid
              /\ memory' = memory \cup {<<CacheOf(s), ReplayKey(message), r.call>>}
              /\ accepted' = accepted \cup {r.call}
              /\ UNCHANGED responses
              /\ \/ /\ pending' = pending \cup
                            {<<r.call, IF config.emit_ap_rep THEN ApRepHeader(message)
                                                             ELSE <<>>>>}
                    /\ executions' = [executions EXCEPT ![<<r.call, message.service>>] = @ + 1]
                 \/ \* the AP-REP cannot be built: TowerError::Http
                    /\ InTrouble /\ config.emit_ap_rep
                    /\ UNCHANGED <<pending, executions>>
        /\ UNCHANGED <<config, clock, call, requests, exposed>>

\* A request reaches a service; in order it does so once.
Deliver(s, r) ==
    /\ s \in config.services
    /\ InTrouble \/ ~ \E q \in responses : q.call = r.call
    /\ InTrouble \/ \A p \in pending : p[1] # r.call
    /\ InTrouble \/ (r.authorization.form = "none") = (call[r.call].pc = "first")
    /\ InTrouble \/ call[r.call].pc # "done"
    /\ \E bytes \in Wrappings(r.authorization) : Call(s, r, bytes)

\* A bug: a WWW-Authenticate header of the wrapped service is left alone.
InnerRespondsKeepsOwn(p) ==
    /\ LET own == IF config.inner = 401 THEN << <<Word>> >> ELSE <<>>
       IN  Respond([call |-> p[1]], config.inner, IF own # <<>> THEN own ELSE p[2])
    /\ pending' = pending \ {p}
    /\ UNCHANGED <<config, clock, call, requests, memory, executions, historyVars>>

\* The wrapped service answers; an AP-REP replaces its own WWW-Authenticate.
InnerResponds(p) ==
    /\ LET own == IF config.inner = 401 THEN << <<Word>> >> ELSE <<>>
       IN  Respond([call |-> p[1]], config.inner, IF p[2] = <<>> THEN own ELSE p[2])
    /\ pending' = pending \ {p}
    /\ UNCHANGED <<config, clock, call, requests, memory, executions, historyVars>>

\* It fails, or the server drops the future with the connection.
InnerFails(p) ==
    /\ InTrouble
    /\ pending' = pending \ {p}
    /\ UNCHANGED <<config, clock, call, requests, responses, memory, executions,
                   historyVars>>

Current(c) == /\ call[c].context # NoContext
              /\ clock - ContextTime(call[c].context) <= Skew

\* The server process is restarted: replay caches are in memory only.
Restart ==
    /\ config.trouble = "crash" /\ memory # {}
    /\ exposed = {}
    /\ memory' = {} /\ pending' = {} /\ responses' = {}
    /\ exposed' = {c \in Calls : Current(c)}
    /\ UNCHANGED <<config, clock, call, requests, executions, accepted>>

\* In order, a request does not stay on the way for longer than the skew.
Tick ==
    /\ clock < MaxTime
    /\ InTrouble \/ \A c \in Calls : call[c].pc = "retry" =>
                             clock - ContextTime(call[c].context) < Skew
    /\ clock' = clock + 1
    /\ UNCHANGED <<config, call, requests, responses, memory, pending, executions,
                   historyVars>>

-----------------------------------------------------------------------------
(* Assumptions on values.                                                   *)

\* Nothing that is sent or received is Nil.
ASSUME NilAssumption ==
    /\ Nil \notin Int /\ Nil \notin {"AcceptCompleted", "Reject"} /\ Nil # TicketKey
    /\ Nil # <<"krb5">> /\ Nil # [form |-> "bare"] /\ Nil # EncodeSpnegoToken(reject)
    /\ \A t \in 0 .. MaxTime, name \in Names :
          LET message == Under(ApReqOf(ContextAt(t)), name)
          IN  Nil # message /\ Nil # Krb5MechToken(message)
    /\ \A t \in 0 .. MaxTime :
          LET message == ApRepTo(ApReqOf(ContextAt(t)))
          IN  /\ Nil # message /\ Nil # Krb5MechToken(message)
              /\ Nil # EncodeSpnegoToken(accept_completed(Krb5MechToken(message)))

\* Proxies do not have the session key: no response that they make up is taken
\* for an AP-REP to a token.
ASSUME StrayAssumption ==
    \A stray \in Strays, t \in 0 .. MaxTime :
        classify_negotiate_response(ContextAt(t), stray.headers) # "AcceptedMutually"

-----------------------------------------------------------------------------

Init ==
    /\ config \in Configs
    /\ clock = MicrosPerSecond
    /\ call = [c \in Calls |-> Idle]
    /\ requests = {} /\ responses = {} /\ memory = {} /\ pending = {}
    /\ executions = [run \in Calls \X Names |-> 0]
    /\ accepted = {} /\ exposed = {}

Next ==
    \/ \E c \in Calls : \/ send_with_negotiate(c) \/ authorize_request(c)
                        \/ SpnegoContext(c) \/ NoTicket(c) \/ SenderFails(c)
                        \/ \E response \in Arriving(c) :
                              FirstResponse(c, response) \/ FinalResponse(c, response)
    \/ \E s \in Services, r \in requests : Deliver(s, r)
    \/ \E p \in pending : InnerResponds(p) \/ InnerFails(p)
    \/ Restart
    \/ Tick

Spec == Init /\ [][Next]_vars
-----------------------------------------------------------------------------

TypeOK ==
    /\ config \in Configs
    /\ clock \in 0 .. MaxTime
    /\ \A c \in Calls : /\ call[c].pc \in {"idle", "first", "context", "retry", "done"}
                        /\ call[c].result \in Results
    /\ \A r \in requests : r.call \in Calls
    /\ \A r \in responses : r.call \in Calls \cup {Nil}
    /\ \A p \in pending : p[1] \in Calls
    /\ executions \in [Calls \X Names -> 0 .. 2 * Cardinality(Services) + 1]
    /\ accepted \subseteq Calls /\ exposed \subseteq Calls

\* Two calls that read the same microsecond for their tokens.
SameInstant(c, d) ==
    /\ call[c].context # NoContext /\ call[d].context # NoContext
    /\ ContextTime(call[c].context) = ContextTime(call[d].context)
Alone(c) == \A d \in Calls \ {c} : ~ SameInstant(c, d)

\* Mutual authentication: a call that reports a verified AP-REP had its own
\* token accepted by a service of the server, although AP-REPs to other tokens
\* under the same session key reach it (verify_ap_rep).  The time is all that
\* an AP-REP echoes, so that the one to a token of the same microsecond will do.
AcceptedByServer ==
    \A c \in Calls : call[c].result = "AcceptedMutually" =>
        c \in accepted \/ \E d \in accepted : SameInstant(c, d)

\* The wrapped service runs at most once for a call and a name of the service in
\* the ticket, although the caller sends two requests and the network repeats
\* them to every service of the layer, wrapped in any way; a second run needs a
\* restart that forgot a token which was still current.  A ticket whose name was
\* given another type on the way, which opens with the same key, is not known
\* for a replay: hence once per name, and not once per call.
ServedOnce ==
    config.shared =>
        \A c \in Calls, name \in Names :
            executions[<<c, name>>] > 1 => c \in exposed /\ executions[<<c, name>>] = 2

\* A token is refused as a replay the first time it arrives only if another call
\* read the same microsecond: a cache holds the replay key of a token, under
\* whatever name, since that token or one of that microsecond was recorded.
NoFalseReplay ==
    \A m \in memory, c \in Calls, name \in Names :
        call[c].context # NoContext /\ m[2] = ReplayKey(Under(call[c].context, name))
            => m[3] = c \/ SameInstant(c, m[3])

\* Without trouble a call with a ticket succeeds, unless another call read the
\* same microsecond: it has a verified AP-REP if the layer emits them, and never
\* ends with the challenge, the rejection or the invalid token that a retry loop
\* would run on.
CallSucceeds ==
    ~ InTrouble =>
        \A c \in Calls : Alone(c) => call[c].result \in
            {"none", "Error"} \cup
            (IF config.emit_ap_rep THEN {"AcceptedMutually"}
             ELSE {"NoAuthenticateHeader", "NoNegotiateChallenge"})
=============================================================================
