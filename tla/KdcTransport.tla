---------------------------- MODULE KdcTransport ----------------------------
(***************************************************************************)
(* TokioKdcTransport (src/client/transport.rs): a request is sent to the    *)
(* servers of a realm, one after the other, over one protocol or, with      *)
(* KdcProtocol::Auto, over both in turn.                                    *)
(*                                                                          *)
(* A call is cut at its awaits: SRV lookups and the answer to each attempt. *)
(* Every attempt opens a socket of its own; requests and replies of earlier *)
(* attempts, and of earlier calls, may still be on their way.               *)
(***************************************************************************)
EXTENDS Integers, Sequences, FiniteSets

CONSTANTS Hosts,            \* server names, numbered in their order
          Ipv6Hosts,        \* those with IPv6 addresses only
          Malformed,        \* a configured value that is no endpoint
          NoTarget,         \* SRV target "."
          NotSearched,      \* no discovery yet
          Unresolvable,     \* SRV targets without an address record
          DnsOverride,      \* RSKRB5_DNS_SERVER is set
          SrvAnswers,       \* sets of SRV records a lookup may return
          Configs,          \* [listed, dns, limit]: the realm's servers
          Sizes,            \* request lengths
          MAX_UDP_DATAGRAM,
          MaxCalls          \* bound on the number of calls

Protocols == {"Udp", "Tcp"}
Services == {"kdc", "kpasswd", "address"}

ASSUME HostAssumption ==
    /\ Hosts \subseteq Nat /\ Malformed \notin Hosts /\ NoTarget \notin Hosts
    /\ \A answer \in SrvAnswers :
          /\ IsFiniteSet(answer)
          /\ \A r \in answer : r.target \in Hosts \cup {NoTarget}
    /\ NotSearched \notin Seq(Hosts)

Config == [listed : Seq(Hosts \cup {Malformed}), dns : BOOLEAN, limit : Int]

ASSUME ConfigAssumption ==
    /\ Configs \subseteq Config
    /\ Sizes \subseteq Nat /\ MAX_UDP_DATAGRAM \in Nat /\ MaxCalls \in Nat

VARIABLES call,     \* call in progress
          socket,   \* number of sockets opened so far; the last is the current
          request,  \* number of requests so far
          wire,     \* requests and replies under way
          plan,     \* history: protocols of the call, in order
          found,    \* history: endpoints discovered for the call, per protocol
          tried,    \* history: its attempts, per protocol
          result    \* what the last call returned

vars == <<call, socket, request, wire, plan, found, tried, result>>

\* A configuration that names one server.
Only(host) == [listed |-> <<host>>, dns |-> FALSE, limit |-> 0]
NoConfig == [listed |-> <<>>, dns |-> FALSE, limit |-> 0]

Idle == [phase |-> "idle", service |-> "kdc", legs |-> <<>>, config |-> NoConfig,
         size |-> 0, endpoints |-> <<>>, next |-> 1]

NoResult == [status |-> "none", body |-> "none", request |-> 0]

NoneFound == [p \in Protocols |-> NotSearched]
NoneTried == [p \in Protocols |-> <<>>]

\* The protocol of the current leg of the call.
Protocol == Head(call.legs)

-----------------------------------------------------------------------------
(* Calls.                                                                   *)

auto_uses_udp_first(limit, size) == limit # 1 /\ limit >= 0 /\ size <= limit

AutoLegs(limit, size) ==
    IF auto_uses_udp_first(limit, size) THEN <<"Udp", "Tcp">> ELSE <<"Tcp", "Udp">>

\* A new request: send_to_realm, send_to_kpasswd_realm or send.
Start(service, config, size, legs) ==
    /\ call.phase = "idle" /\ request < MaxCalls
    /\ call' = [Idle EXCEPT !.phase = "discover", !.service = service,
                            !.legs = legs, !.config = config, !.size = size]
    /\ request' = request + 1
    /\ plan' = legs
    /\ found' = NoneFound
    /\ tried' = NoneTried
    /\ result' = NoResult
    /\ UNCHANGED <<socket, wire>>

\* send_to_realm and send_to_kpasswd_realm.
send_to_realm(service, config, size) ==
    \/ \E p \in Protocols : Start(service, config, size, <<p>>)
    \/ Start(service, config, size, AutoLegs(config.limit, size))

\* send, to one address and without a configuration: Auto begins with UDP.
send(host, size) ==
    \/ \E p \in Protocols : Start("address", Only(host), size, <<p>>)
    \/ Start("address", Only(host), size, <<"Udp", "Tcp">>)

Return(status, body, answered) ==
    /\ call' = Idle
    /\ result' = [status |-> status, body |-> body, request |-> answered]

\* The second leg of send_to_realm_auto, on the same request.
NextLeg ==
    /\ call' = [call EXCEPT !.phase = "discover", !.legs = Tail(call.legs)]
    /\ UNCHANGED result

\* The current leg fails: no endpoints, or all of them failed.
LegFailed ==
    IF Len(call.legs) = 2 THEN NextLeg ELSE Return("error", "none", 0)

\* Bugs: a reply that was too big for UDP is the answer; every reply over
\* UDP is confirmed over TCP.
LegReplyTooBig(body, answered) == Return("reply", body, answered)
LegReplyConfirm(body, answered) ==
    IF Len(call.legs) = 2 /\ Protocol = "Udp"
    THEN NextLeg
    ELSE Return("reply", body, answered)

\* The current leg has a reply, to request number `answered`.
LegReply(body, answered) ==
    IF Len(call.legs) = 2 /\ Protocol = "Udp" /\ body = "toobig"
    THEN NextLeg
    ELSE Return("reply", body, answered)

-----------------------------------------------------------------------------
(* Discovery.                                                               *)

\* The order of SRV records.
SrvBefore(r, s) ==
    \/ r.priority < s.priority
    \/ r.priority = s.priority /\ r.weight > s.weight
    \/ r.priority = s.priority /\ r.weight = s.weight /\ r.target < s.target

SrvSorted(records) ==
    {list \in [1 .. Cardinality(records) -> records] :
        \A i, j \in 1 .. Cardinality(records) :
            i < j => SrvBefore(list[i], list[j])}

Usable(answer) == {r \in answer : r.target # NoTarget}

\* With a DNS override every target is resolved, and one that does not
\* resolve fails the lookup.
Resolved(answer) ==
    ~ DnsOverride \/ \A r \in Usable(answer) : r.target \notin Unresolvable

StartLeg(endpoints) ==
    /\ call' = [call EXCEPT !.phase = "next", !.endpoints = endpoints, !.next = 1]
    /\ found' = [found EXCEPT ![Protocol] = endpoints]
    /\ UNCHANGED result

NoEndpoints ==
    /\ LegFailed
    /\ found' = [found EXCEPT ![Protocol] = <<>>]

\* discover_srv_endpoints with its callers' handling of an empty list; the
\* lookup may fail.
SrvLookup(otherwise) ==
    \/ \E answer \in SrvAnswers :
          /\ Usable(answer) # {} /\ Resolved(answer)
          /\ \E list \in SrvSorted(Usable(answer)) :
                StartLeg([i \in DOMAIN list |-> list[i].target])
    \/ otherwise

\* discover_kdcs and discover_kpasswd_servers; the single address of send.
\* One malformed entry spoils a configured list.
Discover ==
    LET listed == call.config.listed
        wellFormed == \A i \in DOMAIN listed : listed[i] # Malformed
    IN
    /\ call.phase = "discover"
    /\ \/ listed # <<>> /\ wellFormed /\ StartLeg(listed)
       \/ listed # <<>> /\ ~ wellFormed /\ NoEndpoints
       \/ listed = <<>> /\ ~ call.config.dns /\ NoEndpoints
       \/ /\ listed = <<>> /\ call.config.dns
          /\ SrvLookup(\/ call.service # "kpasswd" /\ NoEndpoints
                       \/ /\ call.service = "kpasswd"
                          /\ call' = [call EXCEPT !.phase = "adm"]
                          /\ UNCHANGED <<found, result>>)
    /\ UNCHANGED <<socket, request, wire, plan, tried>>

\* The _kerberos-adm lookup of discover_kpasswd_servers_with_dns.
DiscoverAdm ==
    /\ call.phase = "adm"
    /\ SrvLookup(NoEndpoints)
    /\ UNCHANGED <<socket, request, wire, plan, tried>>

-----------------------------------------------------------------------------
(* Attempts.                                                                *)

Host == call.endpoints[call.next]

Tried(outcome) ==
    tried' = [tried EXCEPT ![Protocol] =
                 Append(@, [host |-> Host, outcome |-> outcome])]

\* Bugs: the leg ends with its first failure; the endpoint is tried again.
EndpointFailedEndsLeg ==
    /\ Tried("failed")
    /\ LegFailed
EndpointFailedAgain ==
    /\ call' = [call EXCEPT !.phase = "next"]
    /\ UNCHANGED <<tried, result>>

\* An attempt fails: send_to_endpoints goes on to the next endpoint.
EndpointFailed ==
    /\ Tried("failed")
    /\ \/ /\ call.next < Len(call.endpoints)
          /\ call' = [call EXCEPT !.phase = "next", !.next = @ + 1]
          /\ UNCHANGED result
       \/ /\ call.next = Len(call.endpoints)
          /\ LegFailed

\* Nothing leaves the host: the request does not fit a datagram, or the IPv4
\* socket cannot reach the address.
CannotSend ==
    Protocol = "Udp" /\ (call.size > MAX_UDP_DATAGRAM \/ Host \in Ipv6Hosts)

\* send_udp and send_tcp up to the answer.
SendNext ==
    /\ call.phase = "next"
    /\ \/ /\ CannotSend
          /\ EndpointFailed
          /\ UNCHANGED <<socket, wire>>
       \/ /\ ~ CannotSend
          /\ call' = [call EXCEPT !.phase = "wait"]
          /\ socket' = socket + 1
          /\ wire' = wire \cup {[socket |-> socket + 1, request |-> request,
                                 protocol |-> Protocol, body |-> "request"]}
          /\ UNCHANGED <<tried, result>>
    /\ UNCHANGED <<request, plan, found>>

\* A bug: replies are taken from one socket per protocol.
OnSocketShared(m) == m.protocol = Protocol

\* The messages the current attempt's socket receives.
OnSocket(m) == m.socket = socket

\* A reply arrives.  Empty ones and, over TCP, oversized ones are failures.
Receive ==
    /\ call.phase = "wait"
    /\ \E m \in wire :
          /\ OnSocket(m) /\ m.body # "request"
          /\ wire' = wire \ {m}
          /\ \/ m.body \in {"empty", "oversize"} /\ EndpointFailed
             \/ /\ m.body \in {"answer", "toobig"}
                /\ Tried(m.body)
                /\ LegReply(m.body, m.request)
    /\ UNCHANGED <<socket, request, plan, found>>

\* The timeout of the attempt, or an error of the network.
Timeout ==
    /\ call.phase = "wait"
    /\ EndpointFailed
    /\ UNCHANGED <<socket, request, wire, plan, found>>

\* The caller drops the future.
CancelCall ==
    /\ call.phase # "idle"
    /\ call' = Idle
    /\ UNCHANGED <<socket, request, wire, plan, found, tried, result>>

\* Servers (external): they answer what reaches them, when they get to it.
Replies(p) == {"answer", "empty"} \cup {IF p = "Udp" THEN "toobig" ELSE "oversize"}

Serve ==
    /\ \E m \in wire :
          /\ m.body = "request"
          /\ \E b \in Replies(m.protocol) :
                wire' = (wire \ {m}) \cup {[m EXCEPT !.body = b]}
    /\ UNCHANGED <<call, socket, request, plan, found, tried, result>>

Init ==
    /\ call = Idle
    /\ socket = 0
    /\ request = 0
    /\ wire = {}
    /\ plan = <<>>
    /\ found = NoneFound
    /\ tried = NoneTried
    /\ result = NoResult

Progress == Discover \/ DiscoverAdm \/ SendNext \/ Receive \/ Timeout

Next ==
    \/ \E s \in {"kdc", "kpasswd"}, c \in Configs, n \in Sizes :
          send_to_realm(s, c, n)
    \/ \E h \in Hosts, n \in Sizes : send(h, n)
    \/ Progress
    \/ Serve
    \/ CancelCall

Spec == Init /\ [][Next]_vars

\* Lookups end, the task is scheduled, and the timeout of an attempt fires.
FairSpec == Spec /\ WF_vars(Progress)

-----------------------------------------------------------------------------
(* Properties.                                                              *)

Plans == {<<"Udp">>, <<"Tcp">>, <<"Udp", "Tcp">>, <<"Tcp", "Udp">>}
Bodies == {"request", "answer", "toobig", "empty", "oversize"}
Attempt == [host : Hosts, outcome : {"failed", "answer", "toobig"}]

Calls == [phase : {"idle", "discover", "adm", "next", "wait"}, service : Services,
          legs : Plans \cup {<<>>}, config : Config, size : Nat,
          endpoints : Seq(Hosts), next : Nat]
Results == [status : {"none", "reply", "error"}, body : {"none", "answer", "toobig"},
            request : Nat]
Messages == [socket : Nat, request : Nat, protocol : Protocols, body : Bodies]

TypeOK ==
    /\ call \in Calls
    /\ call.phase # "idle" => call.legs # <<>>
    /\ call.phase \in {"next", "wait"} => call.next \in 1 .. Len(call.endpoints)
    /\ socket \in Nat /\ request \in Nat
    /\ wire \subseteq Messages
    /\ plan \in Plans \cup {<<>>}
    /\ found \in [Protocols -> Seq(Hosts) \cup {NotSearched}]
    /\ tried \in [Protocols -> Seq(Attempt)]
    /\ result \in Results

\* What a call returns answers its own request, although replies to attempts
\* that timed out, and to earlier calls, arrive while it waits.
RepliesAreOurs == result.status = "reply" => result.request = request

\* Discovery for p took place, and every endpoint it gave was tried and failed.
Exhausted(p) ==
    /\ found[p] # NotSearched
    /\ Len(tried[p]) = Len(found[p])
    /\ \A i \in DOMAIN tried[p] : tried[p][i].outcome = "failed"

\* A server refused to answer over UDP because of the size.
RefusedTooBig(p) ==
    /\ p = "Udp" /\ tried[p] # <<>>
    /\ tried[p][Len(tried[p])].outcome = "toobig"

\* Endpoints are tried in the order of discovery, and the request is sent
\* again only where the attempt before it has failed, or over TCP when a
\* server said that the reply is too big for UDP.
ResendsOnlyAfterFailure ==
    /\ \A p \in Protocols : \A i \in DOMAIN tried[p] :
          /\ tried[p][i].host = found[p][i]
          /\ i < Len(tried[p]) => tried[p][i].outcome = "failed"
    /\ Len(plan) = 2 /\ found[plan[2]] # NotSearched
          => Exhausted(plan[1]) \/ RefusedTooBig(plan[1])

\* A call fails only when every endpoint of every protocol it may use was
\* tried: neither a failed discovery nor a dead server ends it early.
ErrorMeansExhausted ==
    result.status = "error" =>
        /\ Exhausted(plan[Len(plan)])
        /\ Exhausted(plan[1]) \/ (Len(plan) = 2 /\ RefusedTooBig(plan[1]))

\* A caller that may use TCP is told "response too big" only when no server
\* could be reached over TCP.
TooBigIsLastResort ==
    result.body = "toobig" /\ Len(plan) = 2 => Exhausted("Tcp")

\* Messages under way: those on the current socket belong to the attempt that
\* is being made, and "too big" is said over UDP only.
WireInv ==
    \A m \in wire :
        /\ m.socket <= socket
        /\ m.protocol = "Tcp" => m.body # "toobig"
        /\ m.socket = socket /\ call.phase = "wait" =>
              m.request = request /\ m.protocol = Protocol

\* Where a call in progress stands in its plan, and in its current leg.
PlanInv ==
    call.phase # "idle" =>
        /\ plan \in Plans
        /\ result = NoResult
        /\ \/ /\ call.legs = plan
              /\ Len(plan) = 2 => found[plan[2]] = NotSearched /\ tried[plan[2]] = <<>>
           \/ /\ Len(plan) = 2 /\ call.legs = <<plan[2]>>
              /\ Exhausted(plan[1]) \/ RefusedTooBig(plan[1])

LegInv ==
    /\ call.phase \in {"discover", "adm"} =>
          found[Protocol] = NotSearched /\ tried[Protocol] = <<>>
    /\ call.phase \in {"next", "wait"} =>
          /\ found[Protocol] = call.endpoints
          /\ Len(tried[Protocol]) = call.next - 1
          /\ \A i \in DOMAIN tried[Protocol] : tried[Protocol][i].outcome = "failed"

\* The inductive invariant.
IInv ==
    /\ TypeOK
    /\ WireInv
    /\ PlanInv
    /\ LegInv
    /\ RepliesAreOurs
    /\ ResendsOnlyAfterFailure
    /\ ErrorMeansExhausted
    /\ TooBigIsLastResort

\* Every call ends, however servers and lookups fail.
CallsEnd == (call.phase # "idle") ~> (call.phase = "idle")

=============================================================================
