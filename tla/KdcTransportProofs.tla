------------------------- MODULE KdcTransportProofs -------------------------
(***************************************************************************)
(* The inductive invariant of KdcTransport and what follows from it, for    *)
(* any servers, configurations, SRV answers and number of calls; and that   *)
(* the transport goes to the servers that krb5.conf names, for any files.   *)
(*                                                                          *)
(* The second part reads a text twice: as the parser does, line by line     *)
(* (recursive functions, whose values Recursion provides), and as the       *)
(* places of its lines (Declared), and shows that both say the same.        *)
(***************************************************************************)
EXTENDS ConfiguredTransport, SequenceTheorems, FiniteSetTheorems, WellFoundedInduction, TLAPS

\* A plan has one or two legs, over different protocols.
LEMMA PlanFacts ==
    ASSUME NEW l \in Plans
    PROVE  /\ Len(l) \in {1, 2} /\ Head(l) = l[1] /\ l[1] \in Protocols
           /\ l # <<>>
           /\ Len(l) = 2 => /\ l[2] \in Protocols /\ l[1] # l[2]
                            /\ Tail(l) = <<l[2]>> /\ Tail(l) \in Plans
                            /\ {l[1], l[2]} = Protocols
  <1>1. CASE l = <<"Udp">>
    BY <1>1 DEF Protocols
  <1>2. CASE l = <<"Tcp">>
    BY <1>2 DEF Protocols
  <1>3. CASE l = <<"Udp", "Tcp">>
    BY <1>3 DEF Protocols, Plans
  <1>4. CASE l = <<"Tcp", "Udp">>
    BY <1>4 DEF Protocols, Plans
  <1> QED BY <1>1, <1>2, <1>3, <1>4 DEF Plans

LEMMA SingleLeg ==
    ASSUME NEW p \in Protocols
    PROVE  <<p>> \in Plans /\ Len(<<p>>) = 1 /\ Head(<<p>>) = p
  BY DEF Protocols, Plans

\* Where a call in progress stands.
LEMMA LegFacts ==
    ASSUME TypeOK, PlanInv, call.phase # "idle"
    PROVE  /\ Protocol \in Protocols
           /\ Len(call.legs) \in {1, 2} /\ call.legs \in Plans
           /\ Len(call.legs) = 2 =>
                 /\ call.legs = plan /\ Protocol = plan[1] /\ plan[1] # plan[2]
                 /\ Tail(call.legs) = <<plan[2]>> /\ plan[2] \in Protocols
                 /\ {plan[1], plan[2]} = Protocols
                 /\ found[plan[2]] = NotSearched /\ tried[plan[2]] = <<>>
           /\ Len(call.legs) = 1 => Protocol = plan[Len(plan)]
  <1>1. call.legs \in Plans /\ plan \in Plans
    BY DEF TypeOK, Calls, PlanInv
  <1>2. CASE call.legs = plan
    BY <1>1, <1>2, PlanFacts DEF PlanInv, Protocol
  <1>3. CASE Len(plan) = 2 /\ call.legs = <<plan[2]>>
    BY <1>1, <1>3, PlanFacts, SingleLeg DEF Protocol
  <1> QED BY <1>2, <1>3 DEF PlanInv

\* What the invariant says of the history of a call.
History == /\ RepliesAreOurs
           /\ ResendsOnlyAfterFailure
           /\ ErrorMeansExhausted
           /\ TooBigIsLastResort

\* The leg over p is on record as the invariant demands.
InOrder(p) == \A i \in DOMAIN tried[p] :
                 /\ tried[p][i].host = found[p][i]
                 /\ i < Len(tried[p]) => tried[p][i].outcome = "failed"

\* The current leg, over p, ends without a reply.
LEMMA LegFailedStep ==
    ASSUME IInv, call.phase # "idle", LegFailed,
           NEW p, p = Protocol, Exhausted(p)', InOrder(p)',
           \A q \in Protocols \ {p} : found'[q] = found[q] /\ tried'[q] = tried[q],
           UNCHANGED <<request, plan>>
    PROVE  /\ PlanInv' /\ LegInv' /\ History'
           /\ call'.phase \in {"idle", "discover"}
           /\ call'.phase = "discover" =>
                 call' = [call EXCEPT !.phase = "discover", !.legs = Tail(call.legs)]
           /\ call'.phase = "idle" => call' = Idle
           /\ call'.phase # "idle" => call'.legs \in Plans
           /\ call' \in Calls
           /\ result' \in {NoResult, [status |-> "error", body |-> "none", request |-> 0]}
  <1> USE DEF IInv
  <1>1. CASE Len(call.legs) = 2
    <2>1. /\ call' = [call EXCEPT !.phase = "discover", !.legs = <<plan[2]>>]
          /\ result' = result
      BY <1>1, LegFacts DEF LegFailed, NextLeg
    <2>2. /\ call'.phase = "discover" /\ call'.legs = <<plan[2]>>
          /\ Protocol' = plan[2]
      BY <2>1, LegFacts, <1>1, SingleLeg DEF TypeOK, Calls, Protocol
    <2>3. /\ plan' = plan /\ p = plan[1] /\ plan[2] # p /\ plan[2] \in Protocols
          /\ found'[plan[2]] = NotSearched /\ tried'[plan[2]] = <<>>
          /\ Len(plan) = 2 /\ plan \in Plans /\ {plan[1], plan[2]} = Protocols
          /\ result = NoResult
      BY <1>1, LegFacts DEF PlanInv
    <2>4. PlanInv'
      BY <2>2, <2>3, <2>1 DEF PlanInv
    <2>5. LegInv'
      BY <2>2, <2>3 DEF LegInv
    <2>6. History'
      BY <2>1, <2>3 DEF History, RepliesAreOurs, ResendsOnlyAfterFailure, InOrder,
                        ErrorMeansExhausted, TooBigIsLastResort, NoResult
    <2>7. call'.legs \in Plans /\ call' \in Calls
      BY <2>1, <2>2, <2>3, SingleLeg DEF TypeOK, Calls
    <2> QED BY <2>1, <2>2, <2>3, <2>4, <2>5, <2>6, <2>7, LegFacts, <1>1
  <1>2. CASE Len(call.legs) = 1
    <2>1. call' = Idle /\ result' = [status |-> "error", body |-> "none", request |-> 0]
      BY <1>2 DEF LegFailed, Return
    <2>2. /\ p = plan[Len(plan)] /\ plan' = plan /\ plan \in Plans
          /\ Len(plan) = 2 => /\ plan[1] # p /\ plan[1] \in Protocols
                              /\ {plan[1], p} = Protocols
                              /\ Exhausted(plan[1]) \/ RefusedTooBig(plan[1])
      BY <1>2, LegFacts, PlanFacts DEF PlanInv
    <2>3. Len(plan) = 2 => /\ Exhausted(plan[1]) => Exhausted(plan[1])'
                           /\ RefusedTooBig(plan[1]) => RefusedTooBig(plan[1])'
      BY <2>2 DEF Exhausted, RefusedTooBig
    <2>4. Len(plan) \in {1, 2}
      BY <2>2, PlanFacts
    <2>5. ErrorMeansExhausted'
      BY <2>1, <2>2, <2>3, <2>4 DEF ErrorMeansExhausted
    <2>6. ResendsOnlyAfterFailure'
      BY <2>2, <2>3 DEF ResendsOnlyAfterFailure, InOrder
    <2>7. Idle \in Calls
      BY DEF Idle, Calls, NoConfig, Config, Services
    <2> QED BY <2>1, <2>5, <2>6, <2>7 DEF PlanInv, LegInv, Idle, History, RepliesAreOurs,
                                    TooBigIsLastResort
  <1> QED BY <1>1, <1>2, LegFacts

\* The call goes on with its current leg, over p.
LEMMA SameLegStep ==
    ASSUME IInv, call.phase # "idle", call'.phase # "idle", call'.legs = call.legs,
           NEW p, p = Protocol, InOrder(p)',
           \A q \in Protocols \ {p} : found'[q] = found[q] /\ tried'[q] = tried[q],
           UNCHANGED <<request, plan, result>>
    PROVE  PlanInv' /\ History'
  <1> USE DEF IInv
  <1>1. result = NoResult /\ plan \in Plans
    BY DEF PlanInv
  <1>2. CASE call.legs = plan
    <2>1. p = plan[1] /\ Len(plan) \in {1, 2}
      BY <1>1, <1>2, PlanFacts DEF Protocol
    <2>2. Len(plan) = 2 => /\ plan[2] \in Protocols \ {p} /\ {p, plan[2]} = Protocols
                           /\ found[plan[2]] = NotSearched /\ tried[plan[2]] = <<>>
      BY <1>1, <1>2, <2>1, PlanFacts DEF PlanInv
    <2>3. Len(plan) = 2 => found'[plan[2]] = NotSearched /\ tried'[plan[2]] = <<>>
      BY <2>2
    <2>4. PlanInv'
      BY <1>1, <1>2, <2>3 DEF PlanInv
    <2>5. \A q \in Protocols \ {p} : InOrder(q)'
      BY DEF ResendsOnlyAfterFailure, InOrder
    <2>6. ResendsOnlyAfterFailure'
      BY <2>3, <2>5 DEF ResendsOnlyAfterFailure, InOrder
    <2> QED BY <1>1, <2>4, <2>6 DEF History, RepliesAreOurs, ErrorMeansExhausted,
                                    TooBigIsLastResort, NoResult
  <1>3. CASE /\ Len(plan) = 2 /\ call.legs = <<plan[2]>>
             /\ Exhausted(plan[1]) \/ RefusedTooBig(plan[1])
    <2>1. p = plan[2] /\ plan[1] \in Protocols \ {p}
      BY <1>1, <1>3, PlanFacts, SingleLeg DEF Protocol
    <2>2. found'[plan[1]] = found[plan[1]] /\ tried'[plan[1]] = tried[plan[1]]
      BY <2>1
    <2>3. (Exhausted(plan[1]) \/ RefusedTooBig(plan[1]))'
      BY <1>3, <2>2 DEF Exhausted, RefusedTooBig
    <2>4. PlanInv'
      BY <1>1, <1>3, <2>3 DEF PlanInv
    <2>5. \A q \in Protocols \ {p} : InOrder(q)'
      BY DEF ResendsOnlyAfterFailure, InOrder
    <2>6. ResendsOnlyAfterFailure'
      BY <2>3, <2>5 DEF ResendsOnlyAfterFailure, InOrder
    <2> QED BY <1>1, <2>4, <2>6 DEF History, RepliesAreOurs, ErrorMeansExhausted,
                                    TooBigIsLastResort, NoResult
  <1> QED BY <1>2, <1>3 DEF PlanInv

\* The type of everything but the wire and the counters.
CallType == /\ call \in Calls /\ result \in Results
            /\ call.phase # "idle" => call.legs # <<>>
            /\ call.phase \in {"next", "wait"} => call.next \in 1 .. Len(call.endpoints)
            /\ tried \in [Protocols -> Seq(Attempt)]
            /\ found \in [Protocols -> Seq(Hosts) \cup {NotSearched}]

\* The attempt in progress ends with an outcome: how the record grows.
LEMMA TriedStep ==
    ASSUME IInv, call.phase \in {"next", "wait"}, NEW p, p = Protocol,
           NEW outcome \in {"failed", "answer", "toobig"}, Tried(outcome),
           UNCHANGED found
    PROVE  /\ tried' \in [Protocols -> Seq(Attempt)]
           /\ \A q \in Protocols \ {p} : found'[q] = found[q] /\ tried'[q] = tried[q]
           /\ p \in Protocols /\ found[p] = call.endpoints
           /\ call.next \in 1 .. Len(call.endpoints)
           /\ Len(tried'[p]) = call.next /\ DOMAIN tried'[p] = 1 .. call.next
           /\ tried'[p][call.next].outcome = outcome
           /\ \A i \in 1 .. (call.next - 1) : tried'[p][i].outcome = "failed"
           /\ InOrder(p)'
  <1> USE DEF IInv
  <1>1. p \in Protocols
    BY LegFacts
  <1>2. /\ tried[p] \in Seq(Attempt) /\ call.endpoints \in Seq(Hosts)
        /\ call.next \in 1 .. Len(call.endpoints)
    BY <1>1 DEF TypeOK, Calls
  <1>3. Host \in Hosts
    BY <1>2 DEF Host
  <1> DEFINE e == [host |-> Host, outcome |-> outcome]
  <1>4. e \in Attempt
    BY <1>3 DEF Attempt
  <1>5. tried' = [tried EXCEPT ![p] = Append(tried[p], e)]
    BY DEF Tried
  <1>6. /\ tried'[p] = Append(tried[p], e)
        /\ \A q \in Protocols \ {p} : tried'[q] = tried[q]
        /\ tried' \in [Protocols -> Seq(Attempt)]
    <2> HIDE DEF e
    <2>1. Append(tried[p], e) \in Seq(Attempt)
      BY <1>2, <1>4
    <2> QED BY <1>1, <1>5, <2>1 DEF TypeOK
  <1>7. /\ Len(tried[p]) = call.next - 1 /\ found[p] = call.endpoints
        /\ \A i \in DOMAIN tried[p] : tried[p][i].outcome = "failed"
    BY DEF LegInv
  <1>8. /\ Len(tried'[p]) = call.next /\ DOMAIN tried'[p] = 1 .. call.next
        /\ tried'[p][call.next] = e
        /\ \A i \in 1 .. (call.next - 1) : tried'[p][i] = tried[p][i]
    <2> HIDE DEF e
    <2> QED BY <1>2, <1>4, <1>6, <1>7
  <1>9. \A i \in 1 .. (call.next - 1) : tried[p][i].host = found[p][i]
                                      /\ tried[p][i].outcome = "failed"
    BY <1>1, <1>2, <1>7 DEF ResendsOnlyAfterFailure
  <1>10. e.host = found'[p][call.next]
    BY <1>7 DEF Host
  <1>11. InOrder(p)'
    <2> HIDE DEF e
    <2>1. SUFFICES ASSUME NEW i \in 1 .. call.next
                   PROVE  /\ tried'[p][i].host = found'[p][i]
                          /\ i < call.next => tried'[p][i].outcome = "failed"
      BY <1>8 DEF InOrder
    <2>2. CASE i = call.next
      BY <1>2, <1>8, <1>10, <2>2
    <2>3. CASE i \in 1 .. (call.next - 1)
      BY <1>8, <1>9, <2>3
    <2> QED BY <1>2, <2>1, <2>2, <2>3
  <1> QED BY <1>1, <1>2, <1>6, <1>7, <1>8, <1>9, <1>11

\* An attempt fails, whatever the reason.
LEMMA EndpointFailedStep ==
    ASSUME IInv, call.phase \in {"next", "wait"}, EndpointFailed,
           UNCHANGED <<request, plan, found>>
    PROVE  CallType' /\ PlanInv' /\ LegInv' /\ History' /\ call'.phase # "wait"
  <1>0. PICK p : p = Protocol
    OBVIOUS
  <1>1. Tried("failed")
    BY DEF EndpointFailed
  <1>2. /\ tried' \in [Protocols -> Seq(Attempt)]
        /\ \A q \in Protocols \ {p} : found'[q] = found[q] /\ tried'[q] = tried[q]
        /\ p \in Protocols /\ found[p] = call.endpoints
        /\ call.next \in 1 .. Len(call.endpoints)
        /\ Len(tried'[p]) = call.next /\ DOMAIN tried'[p] = 1 .. call.next
        /\ \A i \in 1 .. call.next : tried'[p][i].outcome = "failed"
        /\ InOrder(p)'
    BY <1>0, <1>1, TriedStep
  <1>3. found' \in [Protocols -> Seq(Hosts) \cup {NotSearched}]
    BY DEF IInv, TypeOK
  <1>4. CASE call.next = Len(call.endpoints)
    <2>1. LegFailed
      BY <1>2, <1>4 DEF EndpointFailed, IInv, TypeOK, Calls
    <2>2. Exhausted(p)'
      BY <1>2, <1>4, HostAssumption DEF Exhausted, IInv, TypeOK, Calls
    <2>3. /\ PlanInv' /\ LegInv' /\ History' /\ call'.phase \in {"idle", "discover"}
          /\ call'.phase # "idle" => call'.legs \in Plans
          /\ call' \in Calls
          /\ result' \in {NoResult, [status |-> "error", body |-> "none", request |-> 0]}
      BY <1>0, <1>2, <2>1, <2>2, LegFailedStep
    <2>4. result' \in Results
      BY <2>3 DEF NoResult, Results
    <2>5. call'.phase # "idle" => call'.legs # <<>>
      BY <2>3, PlanFacts
    <2> QED BY <1>2, <1>3, <2>3, <2>4, <2>5 DEF CallType
  <1>5. CASE call.next < Len(call.endpoints)
    <2>1. /\ call' = [call EXCEPT !.phase = "next", !.next = call.next + 1]
          /\ result' = result
      BY <1>2, <1>5 DEF EndpointFailed
    <2>2. /\ call' \in Calls /\ call'.phase = "next" /\ call'.next = call.next + 1
          /\ call'.legs = call.legs /\ call'.endpoints = call.endpoints
          /\ call'.next \in 1 .. Len(call'.endpoints)
      <3>1. call \in Calls /\ call.endpoints \in Seq(Hosts)
        BY DEF IInv, TypeOK, Calls
      <3>2. call.next + 1 \in Nat /\ call.next + 1 \in 1 .. Len(call.endpoints)
        BY <1>2, <1>5, <3>1
      <3> QED BY <2>1, <3>1, <3>2 DEF Calls
    <2>3. Protocol' = p
      BY <1>0, <2>2 DEF Protocol
    <2>4. LegInv'
      BY <1>2, <2>2, <2>3 DEF LegInv
    <2>5. PlanInv' /\ History'
      BY <1>0, <1>2, <2>1, <2>2, SameLegStep
    <2>6. result \in Results
      BY DEF IInv, TypeOK
    <2>7. call'.legs # <<>>
      BY <2>2 DEF IInv, TypeOK
    <2>8. CallType'
      BY <1>2, <1>3, <2>1, <2>2, <2>6, <2>7 DEF CallType
    <2> QED BY <2>2, <2>4, <2>5, <2>8
  <1> QED BY <1>2, <1>4, <1>5 DEF IInv, TypeOK, Calls

\* A message that is no request is taken off the current socket and is a
\* proper reply.
LEMMA ReplyStep ==
    ASSUME IInv, call.phase = "wait", NEW m \in wire, m.socket = socket,
           m.body \in {"answer", "toobig"},
           Tried(m.body), LegReply(m.body, m.request),
           UNCHANGED <<request, plan, found>>
    PROVE  CallType' /\ PlanInv' /\ LegInv' /\ History' /\ call'.phase # "wait"
  <1>0. PICK p : p = Protocol
    OBVIOUS
  <1>1. /\ tried' \in [Protocols -> Seq(Attempt)]
        /\ \A q \in Protocols \ {p} : found'[q] = found[q] /\ tried'[q] = tried[q]
        /\ p \in Protocols /\ Len(tried'[p]) = call.next /\ call.next \in Nat \ {0}
        /\ tried'[p][call.next].outcome = m.body
        /\ InOrder(p)'
    BY <1>0, TriedStep DEF IInv, TypeOK, Calls
  <1>2. m.request = request /\ m.protocol = p /\ (p = "Tcp" => m.body # "toobig")
        /\ m.request \in Nat
    BY <1>0 DEF IInv, WireInv, TypeOK, Messages
  <1>3. found' \in [Protocols -> Seq(Hosts) \cup {NotSearched}]
    BY DEF IInv, TypeOK
  <1>4. /\ plan \in Plans /\ result = NoResult /\ call.legs \in Plans
        /\ Len(call.legs) \in {1, 2} /\ Len(plan) \in {1, 2}
    BY LegFacts, PlanFacts DEF IInv, PlanInv
  <1>5. CASE Len(call.legs) = 2 /\ p = "Udp" /\ m.body = "toobig"
    <2>1. /\ call' = [call EXCEPT !.phase = "discover", !.legs = <<plan[2]>>]
          /\ result' = result
      BY <1>0, <1>5, LegFacts DEF LegReply, NextLeg, IInv
    <2>2. /\ p = plan[1] /\ plan[2] \in Protocols \ {p} /\ Len(plan) = 2
          /\ {p, plan[2]} = Protocols
          /\ found[plan[2]] = NotSearched /\ tried[plan[2]] = <<>>
      BY <1>0, <1>5, LegFacts DEF IInv
    <2>3. /\ call'.phase = "discover" /\ call'.legs = <<plan[2]>> /\ call' \in Calls
          /\ Protocol' = plan[2]
      BY <2>1, <2>2, SingleLeg DEF IInv, TypeOK, Calls, Protocol
    <2>4. RefusedTooBig(p)'
      BY <1>1, <1>5 DEF RefusedTooBig
    <2>5. found'[plan[2]] = NotSearched /\ tried'[plan[2]] = <<>>
      BY <1>1, <2>2
    <2>6. PlanInv' /\ LegInv'
      BY <1>4, <2>1, <2>2, <2>3, <2>4, <2>5 DEF PlanInv, LegInv
    <2>7. \A q \in Protocols : InOrder(q)'
      BY <1>1, <2>2, <2>5 DEF InOrder
    <2>8. ResendsOnlyAfterFailure'
      BY <2>2, <2>4, <2>7 DEF ResendsOnlyAfterFailure, InOrder
    <2>9. History'
      BY <1>4, <2>1, <2>8 DEF History, RepliesAreOurs, ErrorMeansExhausted,
                              TooBigIsLastResort, NoResult
    <2>10. result' \in Results /\ call'.legs # <<>>
      BY <1>4, <2>1, <2>2, <2>3, SingleLeg, PlanFacts DEF Results, NoResult
    <2> QED BY <1>1, <1>3, <2>3, <2>6, <2>9, <2>10 DEF CallType
  <1>6. CASE ~ (Len(call.legs) = 2 /\ p = "Udp" /\ m.body = "toobig")
    <2>1. /\ call' = Idle
          /\ result' = [status |-> "reply", body |-> m.body, request |-> request]
      BY <1>0, <1>2, <1>6 DEF LegReply, Return
    <2>2. Idle \in Calls /\ Idle.phase = "idle"
      BY DEF Idle, Calls, NoConfig, Config, Services
    <2>3. result' \in Results /\ result'.status = "reply" /\ result'.body = m.body
      BY <1>2, <2>1 DEF Results
    <2>4. CASE Len(call.legs) = 2
      <3>1. /\ p = plan[1] /\ plan[2] \in Protocols \ {p} /\ Len(plan) = 2
            /\ {p, plan[2]} = Protocols
            /\ found[plan[2]] = NotSearched /\ tried[plan[2]] = <<>>
        BY <1>0, <2>4, LegFacts DEF IInv
      <3>2. found'[plan[2]] = NotSearched /\ tried'[plan[2]] = <<>>
        BY <1>1, <3>1
      <3>3. \A q \in Protocols : InOrder(q)'
        BY <1>1, <3>1, <3>2 DEF InOrder
      <3>4. ResendsOnlyAfterFailure'
        BY <3>1, <3>2, <3>3 DEF ResendsOnlyAfterFailure, InOrder
      <3>5. m.body # "toobig"
        BY <1>1, <1>2, <1>6, <2>4 DEF Protocols
      <3> QED BY <2>1, <2>3, <3>4, <3>5, <1>1, <1>3, <2>2
              DEF History, RepliesAreOurs, ErrorMeansExhausted, TooBigIsLastResort,
                  CallType, PlanInv, LegInv
    <2>5. CASE Len(call.legs) = 1
      <3>1. /\ p = plan[Len(plan)]
            /\ Len(plan) = 2 =>
                  /\ plan[1] \in Protocols \ {p} /\ {plan[1], p} = Protocols
                  /\ Exhausted(plan[1]) \/ RefusedTooBig(plan[1])
        BY <1>0, <1>4, <2>5, LegFacts, PlanFacts DEF IInv, PlanInv
      <3>2. Len(plan) = 2 =>
                /\ (Exhausted(plan[1]) \/ RefusedTooBig(plan[1]))'
                /\ Exhausted(plan[1]) => Exhausted(plan[1])'
        BY <1>1, <3>1 DEF Exhausted, RefusedTooBig
      <3>3. \A q \in Protocols \ {p} : InOrder(q)'
        BY <1>1 DEF InOrder, IInv, ResendsOnlyAfterFailure
      <3>4. ResendsOnlyAfterFailure'
        BY <1>1, <3>2, <3>3 DEF ResendsOnlyAfterFailure, InOrder
      <3>5. m.body = "toobig" /\ Len(plan) = 2 => plan[1] = "Tcp" /\ Exhausted("Tcp")
        BY <1>2, <3>1, <1>1 DEF Protocols, RefusedTooBig
      <3>6. TooBigIsLastResort'
        BY <2>3, <3>2, <3>5 DEF TooBigIsLastResort
      <3> QED BY <2>1, <2>3, <3>4, <3>6, <1>1, <1>3, <2>2
              DEF History, RepliesAreOurs, ErrorMeansExhausted, CallType, PlanInv, LegInv
    <2> QED BY <1>4, <2>4, <2>5
  <1> QED BY <1>5, <1>6

\* Discovery gives the current leg its endpoints.
LEMMA StartLegStep ==
    ASSUME IInv, call.phase \in {"discover", "adm"},
           NEW endpoints \in Seq(Hosts), endpoints # <<>>, StartLeg(endpoints),
           UNCHANGED <<request, plan, tried>>
    PROVE  CallType' /\ PlanInv' /\ LegInv' /\ History' /\ call'.phase # "wait"
  <1>0. PICK p : p = Protocol
    OBVIOUS
  <1>1. p \in Protocols /\ found[p] = NotSearched /\ tried[p] = <<>>
    BY <1>0, LegFacts DEF IInv, LegInv
  <1>2. /\ found' = [found EXCEPT ![p] = endpoints] /\ result' = result
        /\ call' = [call EXCEPT !.phase = "next", !.endpoints = endpoints, !.next = 1]
    BY <1>0 DEF StartLeg
  <1>3. /\ call' \in Calls /\ call'.phase = "next" /\ call'.next = 1
        /\ call'.legs = call.legs /\ call'.endpoints = endpoints
    BY <1>2 DEF IInv, TypeOK, Calls
  <1>4. 1 \in 1 .. Len(endpoints)
    OBVIOUS
  <1>5. /\ found'[p] = endpoints
        /\ \A q \in Protocols \ {p} : found'[q] = found[q] /\ tried'[q] = tried[q]
        /\ found' \in [Protocols -> Seq(Hosts) \cup {NotSearched}]
        /\ tried' \in [Protocols -> Seq(Attempt)] /\ tried'[p] = <<>>
    BY <1>1, <1>2 DEF IInv, TypeOK
  <1>6. InOrder(p)'
    BY <1>5 DEF InOrder
  <1>7. PlanInv' /\ History'
    BY <1>0, <1>2, <1>3, <1>5, <1>6, SameLegStep
  <1>8. LegInv'
    BY <1>0, <1>3, <1>5 DEF LegInv, Protocol
  <1>9. result' \in Results /\ call'.legs # <<>>
    BY <1>2, <1>3 DEF IInv, TypeOK
  <1> QED BY <1>3, <1>4, <1>5, <1>7, <1>8, <1>9 DEF CallType

\* Discovery fails.
LEMMA NoEndpointsStep ==
    ASSUME IInv, call.phase \in {"discover", "adm"}, NoEndpoints,
           UNCHANGED <<request, plan, tried>>
    PROVE  CallType' /\ PlanInv' /\ LegInv' /\ History' /\ call'.phase # "wait"
  <1>0. PICK p : p = Protocol
    OBVIOUS
  <1>1. p \in Protocols /\ found[p] = NotSearched /\ tried[p] = <<>>
    BY <1>0, LegFacts DEF IInv, LegInv
  <1>2. found' = [found EXCEPT ![p] = <<>>] /\ LegFailed
    BY <1>0 DEF NoEndpoints
  <1>3. /\ found'[p] = <<>>
        /\ \A q \in Protocols \ {p} : found'[q] = found[q] /\ tried'[q] = tried[q]
        /\ found' \in [Protocols -> Seq(Hosts) \cup {NotSearched}]
        /\ tried' \in [Protocols -> Seq(Attempt)] /\ tried'[p] = <<>>
    BY <1>1, <1>2 DEF IInv, TypeOK
  <1>4. Exhausted(p)' /\ InOrder(p)'
    <2>1. <<>> \in Seq(Hosts) /\ Len(<<>>) = 0 /\ DOMAIN <<>> = {}
      OBVIOUS
    <2>2. found'[p] # NotSearched
      BY <1>3, <2>1, HostAssumption
    <2> QED BY <1>3, <2>1, <2>2 DEF Exhausted, InOrder
  <1>5. /\ PlanInv' /\ LegInv' /\ History' /\ call'.phase \in {"idle", "discover"}
        /\ call'.phase # "idle" => call'.legs \in Plans
        /\ call' \in Calls
        /\ result' \in {NoResult, [status |-> "error", body |-> "none", request |-> 0]}
    BY <1>0, <1>2, <1>3, <1>4, LegFailedStep
  <1>6. result' \in Results
    BY <1>5 DEF NoResult, Results
  <1>7. call'.phase # "idle" => call'.legs # <<>>
    BY <1>5, PlanFacts
  <1> QED BY <1>3, <1>5, <1>6, <1>7 DEF CallType

\* Discovery, one lookup: the endpoints are hosts.
LEMMA SrvEndpoints ==
    ASSUME NEW answer \in SrvAnswers, Usable(answer) # {},
           NEW list \in SrvSorted(Usable(answer))
    PROVE  /\ [i \in DOMAIN list |-> list[i].target] \in Seq(Hosts)
           /\ [i \in DOMAIN list |-> list[i].target] # <<>>
  <1>1. IsFiniteSet(Usable(answer))
    BY HostAssumption, FS_Subset DEF Usable
  <1>2. PICK n \in Nat : n = Cardinality(Usable(answer))
    BY <1>1, FS_CardinalityType
  <1>3. n # 0
    BY <1>1, <1>2, FS_EmptySet
  <1>4. list \in [1 .. n -> Usable(answer)]
    BY <1>2 DEF SrvSorted
  <1>5. \A r \in Usable(answer) : r.target \in Hosts
    BY HostAssumption DEF Usable
  <1> DEFINE s == [i \in DOMAIN list |-> list[i].target]
  <1>6. s \in [1 .. n -> Hosts]
    BY <1>4, <1>5
  <1>7. s \in Seq(Hosts) /\ Len(s) = n
    <2> HIDE DEF s
    <2> QED BY <1>6
  <1>8. s # <<>>
    <2> HIDE DEF s
    <2> QED BY <1>3, <1>7
  <1> QED BY <1>7, <1>8

LEMMA DiscoverStep ==
    ASSUME IInv, Discover
    PROVE  CallType' /\ PlanInv' /\ LegInv' /\ History' /\ call'.phase # "wait"
  <1> DEFINE listed == call.config.listed
             wellFormed == \A i \in DOMAIN listed : listed[i] # Malformed
  <1>1. /\ call.phase = "discover" /\ UNCHANGED <<request, plan, tried>>
        /\ listed \in Seq(Hosts \cup {Malformed})
    BY DEF Discover, IInv, TypeOK, Calls, Config
  <1>2. CASE listed # <<>> /\ wellFormed /\ StartLeg(listed)
    <2>1. listed \in Seq(Hosts)
      <3> HIDE DEF listed
      <3> QED BY <1>1, <1>2
    <2> HIDE DEF listed
    <2> QED BY <1>1, <1>2, <2>1, StartLegStep
  <1>3. CASE NoEndpoints
    BY <1>1, <1>3, NoEndpointsStep
  <1>4. ASSUME NEW answer \in SrvAnswers, Usable(answer) # {},
               NEW list \in SrvSorted(Usable(answer)),
               StartLeg([i \in DOMAIN list |-> list[i].target])
        PROVE  CallType' /\ PlanInv' /\ LegInv' /\ History' /\ call'.phase # "wait"
    BY <1>1, <1>4, SrvEndpoints, StartLegStep
  <1>5. CASE call' = [call EXCEPT !.phase = "adm"] /\ UNCHANGED <<found, result>>
    <2>0. PICK p : p = Protocol
      OBVIOUS
    <2>1. /\ call'.phase = "adm" /\ call'.legs = call.legs /\ call' \in Calls
          /\ Protocol' = p
      BY <1>5, <2>0 DEF IInv, TypeOK, Calls, Protocol
    <2>2. p \in Protocols /\ found'[p] = NotSearched /\ tried'[p] = <<>>
      BY <1>1, <1>5, <2>0, LegFacts DEF IInv, LegInv
    <2>3. InOrder(p)'
      BY <2>2 DEF InOrder
    <2>4. PlanInv' /\ History'
      BY <1>1, <1>5, <2>0, <2>1, <2>3, SameLegStep
    <2>5. LegInv'
      BY <2>1, <2>2 DEF LegInv
    <2>6. CallType'
      BY <1>1, <1>5, <2>1 DEF CallType, IInv, TypeOK
    <2> QED BY <2>1, <2>4, <2>5, <2>6
  <1> QED BY <1>2, <1>3, <1>4, <1>5 DEF Discover, SrvLookup

LEMMA DiscoverAdmStep ==
    ASSUME IInv, DiscoverAdm
    PROVE  CallType' /\ PlanInv' /\ LegInv' /\ History' /\ call'.phase # "wait"
  <1>1. call.phase = "adm" /\ UNCHANGED <<request, plan, tried>>
    BY DEF DiscoverAdm
  <1>2. CASE NoEndpoints
    BY <1>1, <1>2, NoEndpointsStep
  <1>3. ASSUME NEW answer \in SrvAnswers, Usable(answer) # {},
               NEW list \in SrvSorted(Usable(answer)),
               StartLeg([i \in DOMAIN list |-> list[i].target])
        PROVE  CallType' /\ PlanInv' /\ LegInv' /\ History' /\ call'.phase # "wait"
    BY <1>1, <1>3, SrvEndpoints, StartLegStep
  <1> QED BY <1>2, <1>3 DEF DiscoverAdm, SrvLookup

\* The wire is not touched and no attempt is in progress afterwards.
LEMMA SameWire ==
    ASSUME IInv, UNCHANGED <<wire, socket>>, call'.phase # "wait"
    PROVE  WireInv' /\ wire' \subseteq Messages /\ socket' \in Nat
  BY DEF IInv, TypeOK, WireInv

LEMMA Assemble ==
    ASSUME CallType', PlanInv', LegInv', History', WireInv', wire' \subseteq Messages,
           socket' \in Nat, request' \in Nat, plan' \in Plans \cup {<<>>}
    PROVE  IInv'
  BY DEF IInv, TypeOK, CallType, History

LEMMA AttemptStep ==
    ASSUME IInv, SendNext \/ Receive \/ Timeout
    PROVE  IInv'
  <1>0. request \in Nat /\ plan \in Plans \cup {<<>>} /\ socket \in Nat
        /\ wire \subseteq Messages
    BY DEF IInv, TypeOK
  <1>1. CASE Timeout
    BY <1>0, <1>1, EndpointFailedStep, SameWire, Assemble DEF Timeout
  <1>2. CASE Receive
    <2>1. PICK m \in wire :
             /\ m.socket = socket /\ wire' = wire \ {m}
             /\ \/ EndpointFailed
                \/ /\ m.body \in {"answer", "toobig"}
                   /\ Tried(m.body) /\ LegReply(m.body, m.request)
      BY <1>2 DEF Receive, OnSocket
    <2>2. call.phase = "wait" /\ UNCHANGED <<socket, request, plan, found>>
      BY <1>2 DEF Receive
    <2>3. CallType' /\ PlanInv' /\ LegInv' /\ History' /\ call'.phase # "wait"
      BY <2>1, <2>2, EndpointFailedStep, ReplyStep
    <2>4. WireInv' /\ wire' \subseteq Messages
      BY <1>0, <2>1, <2>2, <2>3 DEF IInv, WireInv
    <2> QED BY <1>0, <2>2, <2>3, <2>4, Assemble
  <1>3. CASE SendNext /\ CannotSend
    <2>1. /\ call.phase = "next" /\ EndpointFailed
          /\ UNCHANGED <<socket, wire, request, plan, found>>
      BY <1>3 DEF SendNext
    <2> QED BY <1>0, <2>1, EndpointFailedStep, SameWire, Assemble
  <1>4. CASE SendNext /\ ~ CannotSend
    <2>0. PICK p : p = Protocol
      OBVIOUS
    <2> DEFINE m == [socket |-> socket + 1, request |-> request,
                     protocol |-> p, body |-> "request"]
    <2>1. /\ call.phase = "next" /\ call' = [call EXCEPT !.phase = "wait"]
          /\ socket' = socket + 1 /\ wire' = wire \cup {m}
          /\ UNCHANGED <<tried, result, request, plan, found>>
      BY <1>4, <2>0 DEF SendNext
    <2>2. /\ call'.phase = "wait" /\ call'.legs = call.legs /\ call' \in Calls
          /\ call'.next = call.next /\ call'.endpoints = call.endpoints
          /\ Protocol' = p
      BY <2>0, <2>1 DEF IInv, TypeOK, Calls, Protocol
    <2>3. p \in Protocols /\ InOrder(p)'
      BY <2>0, <2>1, LegFacts DEF IInv, ResendsOnlyAfterFailure, InOrder
    <2>4. PlanInv' /\ History'
      BY <2>0, <2>1, <2>2, <2>3, SameLegStep
    <2>5. LegInv'
      BY <2>0, <2>1, <2>2 DEF IInv, LegInv
    <2>6. CallType'
      BY <2>1, <2>2 DEF CallType, IInv, TypeOK
    <2>7. m \in Messages /\ m.socket = socket + 1 /\ m.request = request
          /\ m.protocol = p /\ m.body = "request"
      BY <1>0, <2>3 DEF Messages, Bodies
    <2>8. WireInv' /\ wire' \subseteq Messages
      <3> HIDE DEF m
      <3>1. \A w \in wire : w.socket \in Nat /\ w.socket <= socket
        BY <1>0 DEF IInv, WireInv, Messages
      <3>2. \A w \in wire : w.socket # socket'
        BY <1>0, <2>1, <3>1
      <3>3. \A w \in wire' : w.socket <= socket'
        BY <1>0, <2>1, <2>7, <3>1
      <3>4. \A w \in wire' : w.protocol = "Tcp" => w.body # "toobig"
        BY <2>1, <2>7 DEF IInv, WireInv
      <3> QED BY <1>0, <2>1, <2>2, <2>7, <3>2, <3>3, <3>4 DEF WireInv
    <2> QED BY <1>0, <2>1, <2>4, <2>5, <2>6, <2>8, Assemble
  <1> QED BY <1>1, <1>2, <1>3, <1>4

LEMMA StartStep ==
    ASSUME IInv, NEW service \in Services, NEW config \in Config, NEW size \in Nat,
           NEW legs \in Plans, Start(service, config, size, legs)
    PROVE  IInv'
  <1>1. /\ call' = [Idle EXCEPT !.phase = "discover", !.service = service,
                                !.legs = legs, !.config = config, !.size = size]
        /\ request' = request + 1 /\ plan' = legs /\ found' = NoneFound
        /\ tried' = NoneTried /\ result' = NoResult /\ UNCHANGED <<socket, wire>>
    BY DEF Start
  <1>2. /\ call' \in Calls /\ call'.phase = "discover" /\ call'.legs = legs
        /\ Protocol' = legs[1]
    <2>1. call' = [phase |-> "discover", service |-> service, legs |-> legs,
                   config |-> config, size |-> size, endpoints |-> <<>>, next |-> 1]
      BY <1>1 DEF Idle
    <2>2. <<>> \in Seq(Hosts) /\ 1 \in Nat
      OBVIOUS
    <2>3. call' \in Calls
      BY <2>1, <2>2 DEF Calls
    <2>4. Protocol' = Head(legs)
      BY <2>1 DEF Protocol
    <2> QED BY <2>1, <2>3, <2>4, PlanFacts
  <1>3. \A p \in Protocols : found'[p] = NotSearched /\ tried'[p] = <<>>
    BY <1>1 DEF NoneFound, NoneTried
  <1>4. /\ legs[1] \in Protocols /\ legs # <<>>
        /\ Len(legs) = 2 => legs[2] \in Protocols
    BY PlanFacts
  <1>5. PlanInv' /\ LegInv'
    BY <1>1, <1>2, <1>3, <1>4 DEF PlanInv, LegInv
  <1>6. History'
    BY <1>1, <1>3, <1>4 DEF History, RepliesAreOurs, ResendsOnlyAfterFailure,
                            ErrorMeansExhausted, TooBigIsLastResort, NoResult
  <1>7. CallType'
    BY <1>1, <1>2, <1>4 DEF CallType, NoResult, Results, NoneFound, NoneTried
  <1>8. request' \in Nat
    BY <1>1 DEF IInv, TypeOK
  <1> QED BY <1>1, <1>2, <1>5, <1>6, <1>7, <1>8, SameWire, Assemble

LEMMA InitIInv == Init => IInv
  <1> SUFFICES ASSUME Init PROVE IInv
    OBVIOUS
  <1>1. Idle \in Calls /\ Idle.phase = "idle"
    BY DEF Idle, Calls, NoConfig, Config, Services
  <1>2. \A p \in Protocols : found[p] = NotSearched /\ tried[p] = <<>>
    BY DEF Init, NoneFound, NoneTried
  <1>3. TypeOK
    BY <1>1 DEF Init, TypeOK, NoneFound, NoneTried, NoResult, Results
  <1>4. plan = <<>> /\ Len(plan) # 2
    BY DEF Init
  <1> QED BY <1>1, <1>2, <1>3, <1>4
          DEF Init, IInv, WireInv, PlanInv, LegInv, RepliesAreOurs, NoResult,
              ResendsOnlyAfterFailure, ErrorMeansExhausted, TooBigIsLastResort

LEMMA StepIInv == IInv /\ [Next]_vars => IInv'
  <1> SUFFICES ASSUME IInv, [Next]_vars PROVE IInv'
    OBVIOUS
  <1>0. request \in Nat /\ plan \in Plans \cup {<<>>}
    BY DEF IInv, TypeOK
  <1>1. ASSUME NEW s \in {"kdc", "kpasswd"}, NEW c \in Configs, NEW n \in Sizes,
               send_to_realm(s, c, n)
        PROVE  IInv'
    <2>1. s \in Services /\ c \in Config /\ n \in Nat
      BY ConfigAssumption DEF Services
    <2>2. \A p \in Protocols : <<p>> \in Plans
      BY SingleLeg
    <2>3. AutoLegs(c.limit, n) \in Plans
      BY DEF AutoLegs, Plans
    <2> QED BY <1>1, <2>1, <2>2, <2>3, StartStep DEF send_to_realm
  <1>2. ASSUME NEW h \in Hosts, NEW n \in Sizes, send(h, n)
        PROVE  IInv'
    <2>1. "address" \in Services /\ n \in Nat /\ Only(h) \in Config
      BY ConfigAssumption DEF Services, Only, Config
    <2>2. (\A p \in Protocols : <<p>> \in Plans) /\ <<"Udp", "Tcp">> \in Plans
      BY SingleLeg DEF Plans
    <2> QED BY <1>2, <2>1, <2>2, StartStep DEF send
  <1>3. CASE Discover
    BY <1>0, <1>3, DiscoverStep, SameWire, Assemble DEF Discover
  <1>4. CASE DiscoverAdm
    BY <1>0, <1>4, DiscoverAdmStep, SameWire, Assemble DEF DiscoverAdm
  <1>5. CASE SendNext \/ Receive \/ Timeout
    BY <1>5, AttemptStep
  <1>6. CASE Serve
    <2>0. PICK m \in wire : \E b \in Replies(m.protocol) :
              wire' = (wire \ {m}) \cup {[m EXCEPT !.body = b]}
      BY <1>6 DEF Serve
    <2>1. PICK b \in Replies(m.protocol) :
              wire' = (wire \ {m}) \cup {[m EXCEPT !.body = b]}
      BY <2>0
    <2>2. UNCHANGED <<call, socket, request, plan, found, tried, result>>
      BY <1>6 DEF Serve
    <2>3. m \in Messages
      BY DEF IInv, TypeOK
    <2>4. b \in Bodies /\ (m.protocol = "Tcp" => b # "toobig")
      BY DEF Replies, Bodies
    <2>5. [m EXCEPT !.body = b] \in Messages
      BY <2>3, <2>4 DEF Messages
    <2>6. /\ [m EXCEPT !.body = b].socket = m.socket
          /\ [m EXCEPT !.body = b].request = m.request
          /\ [m EXCEPT !.body = b].protocol = m.protocol
          /\ [m EXCEPT !.body = b].body = b
      BY <2>3 DEF Messages
    <2>7. Protocol' = Protocol
      BY <2>2 DEF Protocol
    <2>8. WireInv' /\ wire' \subseteq Messages
      <3> DEFINE a == [m EXCEPT !.body = b]
      <3>1. \A w \in wire' : w \in wire \/ w = a
        BY <2>1
      <3>2. wire' \subseteq Messages
        BY <2>1, <2>5 DEF IInv, TypeOK
      <3>3. \A w \in wire : /\ w.socket <= socket'
                            /\ w.protocol = "Tcp" => w.body # "toobig"
                            /\ w.socket = socket' /\ call'.phase = "wait" =>
                                  w.request = request' /\ w.protocol = Protocol'
        BY <2>2, <2>7 DEF IInv, WireInv
      <3>4. /\ a.socket <= socket'
            /\ a.protocol = "Tcp" => a.body # "toobig"
            /\ a.socket = socket' /\ call'.phase = "wait" =>
                  a.request = request' /\ a.protocol = Protocol'
        BY <2>4, <2>6, <3>3
      <3> HIDE DEF a
      <3> QED BY <3>1, <3>2, <3>3, <3>4 DEF WireInv
    <2>9. CallType' /\ PlanInv' /\ LegInv' /\ History'
      BY <2>2, <2>7 DEF CallType, PlanInv, LegInv, History, IInv, TypeOK, Exhausted,
             RefusedTooBig, RepliesAreOurs, ResendsOnlyAfterFailure,
             ErrorMeansExhausted, TooBigIsLastResort
    <2> QED BY <1>0, <2>2, <2>8, <2>9, Assemble DEF IInv, TypeOK
  <1>7. CASE CancelCall
    <2>1. call' = Idle /\ UNCHANGED <<socket, request, wire, plan, found, tried, result>>
      BY <1>7 DEF CancelCall
    <2>2. Idle \in Calls /\ Idle.phase = "idle"
      BY DEF Idle, Calls, NoConfig, Config, Services
    <2>3. CallType' /\ PlanInv' /\ LegInv' /\ History'
      BY <2>1, <2>2 DEF CallType, PlanInv, LegInv, History, IInv, TypeOK, Exhausted,
             RefusedTooBig, RepliesAreOurs, ResendsOnlyAfterFailure,
             ErrorMeansExhausted, TooBigIsLastResort
    <2> QED BY <1>0, <2>1, <2>2, <2>3, SameWire, Assemble
  <1>8. CASE UNCHANGED vars
    BY <1>8 DEF vars, IInv, TypeOK, WireInv, PlanInv, LegInv, Exhausted, RefusedTooBig,
                RepliesAreOurs, ResendsOnlyAfterFailure, ErrorMeansExhausted,
                TooBigIsLastResort, Protocol
  <1> QED BY <1>1, <1>2, <1>3, <1>4, <1>5, <1>6, <1>7, <1>8 DEF Next, Progress

\* The inductive invariant, with the type invariant, holds of every call of
\* TokioKdcTransport in progress or returned.
THEOREM Invariance == Spec => []IInv
  BY InitIInv, StepIInv, PTL DEF Spec

\* A reply returned by send or send_to_realm answers the request of that call,
\* whatever is still under way from attempts that timed out.
THEOREM RepliesMatch == Spec => []RepliesAreOurs
  <1>1. IInv => RepliesAreOurs
    BY DEF IInv
  <1> QED BY Invariance, <1>1, PTL

\* send_to_endpoints and the Auto fallback send a request again only after a
\* failure or a "too big" over UDP.
THEOREM NoNeedlessResend == Spec => []ResendsOnlyAfterFailure
  <1>1. IInv => ResendsOnlyAfterFailure
    BY DEF IInv
  <1> QED BY Invariance, <1>1, PTL

\* An error of send_to_realm means that every endpoint of every protocol it
\* may use has failed.
THEOREM FailoverIsComplete == Spec => []ErrorMeansExhausted
  <1>1. IInv => ErrorMeansExhausted
    BY DEF IInv
  <1> QED BY Invariance, <1>1, PTL

\* With KdcProtocol::Auto, KRB_ERR_RESPONSE_TOO_BIG reaches the caller only
\* when TCP has failed everywhere.
THEOREM TooBigOnlyWithoutTcp == Spec => []TooBigIsLastResort
  <1>1. IInv => TooBigIsLastResort
    BY DEF IInv
  <1> QED BY Invariance, <1>1, PTL

-----------------------------------------------------------------------------
(* Inductions, and recursive functions over the lines of a text.           *)

\* A set of numbers has a least one: how inductions are put here.
LEMMA Least ==
    ASSUME NEW T \in SUBSET Nat, T # {}
    PROVE  \E x \in T : \A y \in T : x <= y
<1> DEFINE Less == {ss \in Nat \X Nat : ss[1] < ss[2]}
<1>1. IsWellFoundedOn(Less, Nat)
  BY NatLessThanWellFounded DEF OpToRel
<1> HIDE DEF Less
<1>2. PICK x \in T : \A y \in T : ~ (<<y, x>> \in Less)
  BY <1>1, WFMin, Zenon
<1>3. ASSUME NEW y \in T PROVE x <= y
  <2>1. x \in Nat /\ y \in Nat
    OBVIOUS
  <2>2. <<y, x>> \in Nat \X Nat
    BY <2>1
  <2>3. ~ (y < x)
    BY <1>2, <2>1, <2>2 DEF Less
  <2> QED
    BY <2>1, <2>3
<1> QED
  BY <1>2, <1>3

\* Induction up to n.
LEMMA Induct ==
    ASSUME NEW n \in Nat, NEW S, 0 \in S, \A i \in 1 .. n : i - 1 \in S => i \in S
    PROVE  \A i \in 0 .. n : i \in S
<1> DEFINE T == {m \in 0 .. n : m \notin S}
<1>1. SUFFICES ASSUME T # {} PROVE FALSE
  OBVIOUS
<1>2. T \in SUBSET Nat
  OBVIOUS
<1>3. PICK m \in T : \A y \in T : m <= y
  BY ONLY <1>1, <1>2, Least
<1>4. m \in 0 .. n /\ m \notin S /\ m # 0
  OBVIOUS
<1>5. m - 1 \in 0 .. n /\ ~ (m <= m - 1) /\ m \in 1 .. n
  BY <1>4
<1>6. m - 1 \in S
  BY <1>3, <1>5
<1> QED
  BY <1>4, <1>5, <1>6

\* A function that is defined by its value for the number before.
Recursive(f, n, base, G) ==
    /\ f = [i \in 0 .. n |-> f[i]] /\ f[0] = base
    /\ \A i \in 1 .. n : f[i] = G[i][f[i - 1]]

\* A recursive function on 0 .. n exists.
LEMMA Recursion ==
    ASSUME NEW V, NEW n \in Nat, NEW base \in V, NEW G \in [1 .. n -> [V -> V]]
    PROVE  \E f : f \in [0 .. n -> V] /\ Recursive(f, n, base, G)
<1> DEFINE Good(m) == \E f \in [0 .. m -> V] : f = [i \in 0 .. m |-> IF i = 0 THEN base ELSE G[i][f[i - 1]]]
           T == {m \in 0 .. n : ~ Good(m)}
<1>1. SUFFICES ASSUME T # {} PROVE FALSE
  <2>1. n \in 0 .. n /\ \A i \in 1 .. n : i \in 0 .. n /\ i # 0
    OBVIOUS
  <2>2. SUFFICES ASSUME Good(n) PROVE \E f : f \in [0 .. n -> V] /\ Recursive(f, n, base, G)
    BY <2>1
  <2>3. PICK f \in [0 .. n -> V] : f = [i \in 0 .. n |-> IF i = 0 THEN base ELSE G[i][f[i - 1]]]
    BY <2>2
  <2>4. \A i \in 0 .. n : f[i] = IF i = 0 THEN base ELSE G[i][f[i - 1]]
    BY <2>3
  <2>5. f[0] = base /\ \A i \in 1 .. n : f[i] = G[i][f[i - 1]]
    BY <2>1, <2>4
  <2>6. f = [i \in 0 .. n |-> f[i]]
    OBVIOUS
  <2> QED
    BY <2>5, <2>6 DEF Recursive
<1>2. T \in SUBSET Nat
  OBVIOUS
<1>3. PICK m \in T : \A y \in T : m <= y
  BY ONLY <1>1, <1>2, Least
<1>4. m \in 0 .. n /\ ~ Good(m)
  OBVIOUS
<1>5. CASE m = 0
  <2>1. PICK f : f = [i \in 0 .. 0 |-> base]
    OBVIOUS
  <2>2. f \in [0 .. 0 -> V] /\ f = [i \in 0 .. 0 |-> IF i = 0 THEN base ELSE G[i][f[i - 1]]]
    BY <2>1
  <2>3. Good(0)
    BY <2>2
  <2> QED
    BY <1>4, <1>5, <2>3
<1>6. CASE m # 0
  <2>1. m - 1 \in 0 .. n /\ m - 1 \notin T /\ m \in 1 .. n
    <3>1. m - 1 \in Int /\ ~ (m <= m - 1) /\ m - 1 \in 0 .. n /\ m \in 1 .. n
      BY <1>4, <1>6
    <3> QED
      BY <1>3, <3>1
  <2>2. Good(m - 1)
    BY <2>1
  <2>3. PICK f \in [0 .. m - 1 -> V] : f = [i \in 0 .. m - 1 |-> IF i = 0 THEN base ELSE G[i][f[i - 1]]]
    BY <2>2
  <2>4. PICK g : g = [i \in 0 .. m |-> IF i = m THEN G[m][f[m - 1]] ELSE f[i]]
    OBVIOUS
  <2>5. f[m - 1] \in V /\ G[m][f[m - 1]] \in V
    <3>1. m - 1 \in 0 .. m - 1
      BY <1>4, <2>1
    <3>2. f[m - 1] \in V /\ G[m] \in [V -> V]
      BY <2>1, <3>1
    <3> QED
      BY <3>2
  <2>6. \A i \in 0 .. m : i # m => i \in 0 .. m - 1
    BY <1>4
  <2>7. g \in [0 .. m -> V]
    BY <2>4, <2>5, <2>6
  <2>8. ASSUME NEW i \in 0 .. m PROVE g[i] = IF i = 0 THEN base ELSE G[i][g[i - 1]]
    <3>1. CASE i = m
      <4>1. m - 1 \in 0 .. m /\ m - 1 # m /\ g[m - 1] = f[m - 1] /\ g[m] = G[m][f[m - 1]]
        BY <1>4, <1>6, <2>4
      <4> QED
        BY <1>6, <3>1, <4>1
    <3>2. CASE i # m /\ i # 0
      <4>1. i \in 0 .. m - 1 /\ i - 1 \in 0 .. m /\ i - 1 # m
        BY <1>4, <3>2, <2>6
      <4>2. g[i] = f[i] /\ g[i - 1] = f[i - 1]
        BY <2>4, <3>2, <4>1
      <4>3. f[i] = G[i][f[i - 1]]
        BY <2>3, <3>2, <4>1
      <4> QED
        BY <3>2, <4>2, <4>3
    <3>3. CASE i # m /\ i = 0
      <4>1. i \in 0 .. m - 1 /\ g[i] = f[i]
        BY <2>4, <2>6, <3>3
      <4>2. f[i] = base
        BY <2>3, <3>3, <4>1
      <4> QED
        BY <3>3, <4>1, <4>2
    <3> QED
      BY <3>1, <3>2, <3>3
  <2>9. g = [i \in 0 .. m |-> IF i = 0 THEN base ELSE G[i][g[i - 1]]]
    BY <2>7, <2>8
  <2>10. Good(m)
    BY <2>7, <2>9
  <2> QED
    BY <1>4, <2>10
<1> QED
  BY <1>5, <1>6

\* Its values are all in a set that the first is in and the steps stay in.
LEMMA RecursionTyped ==
    ASSUME NEW V, NEW n \in Nat, NEW G \in [1 .. n -> [V -> V]], NEW g,
           g = [i \in 0 .. n |-> g[i]], g[0] \in V,
           \A i \in 1 .. n : g[i - 1] \in V => g[i] = G[i][g[i - 1]]
    PROVE  g \in [0 .. n -> V]
<1> DEFINE T == {m \in 0 .. n : g[m] \notin V}
<1>1. SUFFICES ASSUME T # {} PROVE FALSE
  OBVIOUS
<1>2. T \in SUBSET Nat
  OBVIOUS
<1>3. PICK m \in T : \A y \in T : m <= y
  BY ONLY <1>1, <1>2, Least
<1>4. m \in 0 .. n /\ g[m] \notin V /\ m # 0
  OBVIOUS
<1>5. m - 1 \in 0 .. n /\ ~ (m <= m - 1) /\ m \in 1 .. n
  BY <1>4
<1>6. g[m - 1] \in V
  BY <1>3, <1>5
<1>7. g[m] = G[m][g[m - 1]] /\ G[m] \in [V -> V]
  BY <1>5, <1>6
<1> QED
  BY <1>4, <1>6, <1>7

\* FirstOf is the least, and LastOf the greatest place.
LEMMA FirstOfFacts ==
    ASSUME NEW places \in SUBSET Nat, places # {}
    PROVE  FirstOf(places) \in places /\ \A j \in places : FirstOf(places) <= j
<1>1. \E i \in places : \A j \in places : i <= j
  BY Least
<1> QED
  BY <1>1 DEF FirstOf

\* The last of some places is one of them, and none comes after it.
LEMMA LastOfFacts ==
    ASSUME NEW n \in Nat, NEW places, places # {}, \A i \in places : i \in 0 .. n
    PROVE  LastOf(places) \in places /\ \A j \in places : j <= LastOf(places)
<1> DEFINE T == {n - i : i \in places}
<1>1. T \in SUBSET Nat /\ T # {}
  <2>1. \A i \in places : n - i \in Nat
    OBVIOUS
  <2>2. PICK i : i \in places
    OBVIOUS
  <2> QED
    BY <2>1, <2>2
<1>2. PICK x \in T : \A y \in T : x <= y
  BY ONLY <1>1, Least
<1>3. PICK i \in places : x = n - i
  OBVIOUS
<1>4. ASSUME NEW j \in places PROVE j <= i
  <2>1. n - j \in T /\ i \in 0 .. n /\ j \in 0 .. n
    OBVIOUS
  <2>2. n - i <= n - j
    BY <1>2, <1>3, <2>1
  <2> QED
    BY <2>1, <2>2
<1>5. \E k \in places : \A j \in places : j <= k
  BY <1>4
<1> QED
  BY <1>5 DEF LastOf

-----------------------------------------------------------------------------
(* Settings and mappings.                                                   *)

ConfResults == Confs \cup {Failed}

\* A result is a configuration, or Failed.
LEMMA ConfCases ==
    ASSUME NEW old \in ConfResults
    PROVE  old.ok \in BOOLEAN /\ (old.ok => old \in Confs) /\ (~ old.ok => old = Failed)
<1>1. CASE old \in Confs
  <2>1. old.ok \in {TRUE}
    BY <1>1 DEF Confs
  <2> QED
    BY <1>1, <2>1
<1>2. CASE old = Failed
  BY <1>2 DEF Failed
<1> QED
  BY <1>1, <1>2 DEF ConfResults

\* A setting leaves realms and mappings alone.
LEMMA SettingStep ==
    ASSUME NEW old \in ConfResults, NEW line \in Lines
    PROVE  LET next == ReadSetting(old, line)
           IN  /\ next \in ConfResults
               /\ next.ok => old.ok /\ next.realms = old.realms /\ next.domain_realm = old.domain_realm
<1>1. CASE ~ old.ok \/ ~ IsAssignment(line) \/ IsV4(line)
  BY <1>1 DEF ReadSetting, ConfResults, Failed
<1>2. CASE old.ok /\ IsAssignment(line) /\ ~ IsV4(line)
  <2>1. old \in Confs /\ ReadSetting(old, line) = Setting(old, line)
    BY <1>2, ConfCases DEF ReadSetting
  <2>2. CASE line.key = "dns_lookup_kdc"
    <3>1. CASE line.kind = "set" /\ "bool" \in DOMAIN line.value
      <4>1. line.value.bool \in BOOLEAN
        BY <3>1, LineAssumption
      <4>2. Setting(old, line) = [old EXCEPT !.dns_lookup_kdc = line.value.bool]
        BY <2>2, <3>1 DEF Setting
      <4>3. [old EXCEPT !.dns_lookup_kdc = line.value.bool] \in Confs
        BY <2>1, <4>1 DEF Confs
      <4> QED
        BY <1>2, <2>1, <4>2, <4>3 DEF ConfResults, Confs
    <3>2. CASE ~ (line.kind = "set" /\ "bool" \in DOMAIN line.value)
      BY <2>1, <2>2, <3>2 DEF Setting, ConfResults, Failed
    <3> QED
      BY <3>1, <3>2
  <2>3. CASE line.key = "udp_preference_limit"
    <3>1. CASE line.kind = "set" /\ "int" \in DOMAIN line.value
      <4>1. line.value.int \in Int
        BY <3>1, LineAssumption
      <4>2. Setting(old, line) = [old EXCEPT !.udp_preference_limit = line.value.int]
        BY <2>3, <3>1 DEF Setting
      <4>3. [old EXCEPT !.udp_preference_limit = line.value.int] \in Confs
        BY <2>1, <4>1 DEF Confs
      <4> QED
        BY <1>2, <2>1, <4>2, <4>3 DEF ConfResults, Confs
    <3>2. CASE ~ (line.kind = "set" /\ "int" \in DOMAIN line.value)
      BY <2>1, <2>3, <3>2 DEF Setting, ConfResults, Failed
    <3> QED
      BY <3>1, <3>2
  <2>4. CASE line.key \notin {"dns_lookup_kdc", "udp_preference_limit"}
    <3>1. Setting(old, line) = old
      BY <2>4 DEF Setting
    <3> QED
      BY <1>2, <2>1, <3>1
  <2> QED
    BY <2>2, <2>3, <2>4
<1> QED
  BY <1>1, <1>2, ConfCases

\* A mapping replaces the one of its domain.
LEMMA MappingStep ==
    ASSUME NEW old \in ConfResults, NEW line \in Lines
    PROVE  LET next == ReadMapping(old, line)
           IN  /\ next \in ConfResults
               /\ next.ok => /\ old.ok /\ line \in Assignments /\ next.realms = old.realms
                             /\ next.domain_realm = {m \in old.domain_realm : m.domain # Domain(line)}
                                     \cup {[domain |-> Domain(line), realm |-> Target(line)]}
<1>1. CASE ~ old.ok \/ ~ IsAssignment(line)
  BY <1>1 DEF ReadMapping, ConfResults, Failed
<1>2. CASE old.ok /\ IsAssignment(line)
  <2>1. old \in Confs /\ line \in Assignments
    BY <1>2, ConfCases DEF Assignments
  <2>2. PICK D : D = {m \in old.domain_realm : m.domain # Domain(line)}
                     \cup {[domain |-> Domain(line), realm |-> Target(line)]}
    OBVIOUS
  <2>3. ReadMapping(old, line) = [old EXCEPT !.domain_realm = D]
    BY <1>2, <2>1, <2>2 DEF ReadMapping, Confs
  <2>4. old.domain_realm \in SUBSET Mappings
    BY <2>1 DEF Confs
  <2>5. [domain |-> Domain(line), realm |-> Target(line)] \in Mappings
    BY <2>1 DEF Mappings
  <2>6. D \in SUBSET Mappings
    BY <2>2, <2>4, <2>5
  <2>7. [old EXCEPT !.domain_realm = D] \in Confs /\ [old EXCEPT !.domain_realm = D].domain_realm = D
        /\ [old EXCEPT !.domain_realm = D].realms = old.realms
    BY <2>1, <2>6 DEF Confs
  <2> QED
    BY <1>2, <2>1, <2>2, <2>3, <2>7 DEF ConfResults
<1> QED
  BY <1>1, <1>2, ConfCases

\* What LibDefaults::parse_lines has after each line.
LEMMA SettingsFacts ==
    ASSUME NEW old \in ConfResults, NEW text \in Seq(Lines), NEW first \in Nat \ {0}, NEW last \in 0 .. Len(text)
    PROVE  /\ SettingsRead(old, text, first, last) \in [0 .. last -> ConfResults]
           /\ \A i \in 0 .. last : i < first => SettingsRead(old, text, first, last)[i] = old
           /\ \A i \in first .. last : SettingsRead(old, text, first, last)[i]
                = ReadSetting(SettingsRead(old, text, first, last)[i - 1], text[i])
<1> DEFINE Step(i, v) == ReadSetting(v, text[i])
           Is(h, m) == h = [i \in 0 .. m |-> IF i < first THEN old ELSE Step(i, h[i - 1])]
<1>1. PICK n, V, none : n = last /\ V = ConfResults /\ none = old
  OBVIOUS
<1>2. n \in Nat /\ none \in V /\ first \in Nat \ {0}
  BY <1>1
<1>3. ASSUME NEW i \in first .. n, NEW v \in V PROVE Step(i, v) \in V
  <2>1. text[i] \in Lines
    BY <1>1
  <2> QED
    BY <1>1, <2>1, SettingStep
<1> HIDE DEF Step
<1>4. PICK G : G = [i \in 1 .. n |-> [v \in V |-> IF i < first THEN none ELSE Step(i, v)]]
  OBVIOUS
<1>5. G \in [1 .. n -> [V -> V]] /\ \A i \in 1 .. n, v \in V : G[i][v] = IF i < first THEN none ELSE Step(i, v)
  <2>1. ASSUME NEW i \in 1 .. n, NEW v \in V PROVE (IF i < first THEN none ELSE Step(i, v)) \in V
    <3>1. ~ (i < first) => i \in first .. n
      BY <1>2
    <3> QED
      BY <1>2, <1>3, <3>1
  <2> QED
    BY <1>4, <2>1
<1>6. PICK f : f \in [0 .. n -> V] /\ Recursive(f, n, none, G)
  BY ONLY <1>2, <1>5, Recursion
<1>7. Is(f, n)
  <2>1. ASSUME NEW i \in 0 .. n PROVE f[i] = IF i < first THEN old ELSE Step(i, f[i - 1])
    <3>1. i # 0 => i \in 1 .. n /\ i - 1 \in 0 .. n
      BY <1>2
    <3>2. i = 0 => i < first
      BY <1>2
    <3> QED
      BY <1>1, <1>5, <1>6, <3>1, <3>2 DEF Recursive
  <2> QED
    BY <1>6, <2>1
<1>8. PICK g : g = SettingsRead(old, text, first, last)
  OBVIOUS
<1>9. g = CHOOSE h : Is(h, n)
  BY <1>1, <1>8 DEF SettingsRead, Step
<1>10. Is(g, n)
  BY <1>7, <1>9, Zenon
<1>11. /\ g = [i \in 0 .. n |-> g[i]]
       /\ \A i \in 0 .. n : i < first => g[i] = none
       /\ \A i \in first .. n : g[i] = Step(i, g[i - 1])
  <2>1. \A i \in first .. n : i \in 0 .. n /\ ~ (i < first)
    BY <1>2
  <2>2. \A i \in 0 .. n : g[i] = IF i < first THEN old ELSE Step(i, g[i - 1])
    BY <1>10
  <2>3. g = [i \in 0 .. n |-> g[i]]
    BY <1>10, <2>2
  <2> QED
    BY <1>1, <2>1, <2>2, <2>3
<1>12. g[0] \in V /\ \A i \in 1 .. n : g[i - 1] \in V => g[i] = G[i][g[i - 1]]
  <2>1. 0 \in 0 .. n /\ 0 < first /\ g[0] = none
    BY <1>2, <1>11
  <2>2. ASSUME NEW i \in 1 .. n, g[i - 1] \in V PROVE g[i] = G[i][g[i - 1]]
    <3>1. i \in 0 .. n /\ (~ (i < first) => i \in first .. n)
      BY <1>2
    <3> QED
      BY <1>5, <1>11, <2>2, <3>1
  <2> QED
    BY <1>2, <2>1, <2>2
<1>13. g \in [0 .. n -> V]
  BY ONLY <1>2, <1>5, <1>11, <1>12, RecursionTyped
<1> QED
  BY <1>1, <1>8, <1>11, <1>13 DEF Step

\* What parse_domain_realm has after each line.
LEMMA MappingsFacts ==
    ASSUME NEW old \in ConfResults, NEW text \in Seq(Lines), NEW first \in Nat \ {0}, NEW last \in 0 .. Len(text)
    PROVE  /\ MappingsRead(old, text, first, last) \in [0 .. last -> ConfResults]
           /\ \A i \in 0 .. last : i < first => MappingsRead(old, text, first, last)[i] = old
           /\ \A i \in first .. last : MappingsRead(old, text, first, last)[i]
                = ReadMapping(MappingsRead(old, text, first, last)[i - 1], text[i])
<1> DEFINE Step(i, v) == ReadMapping(v, text[i])
           Is(h, m) == h = [i \in 0 .. m |-> IF i < first THEN old ELSE Step(i, h[i - 1])]
<1>1. PICK n, V, none : n = last /\ V = ConfResults /\ none = old
  OBVIOUS
<1>2. n \in Nat /\ none \in V /\ first \in Nat \ {0}
  BY <1>1
<1>3. ASSUME NEW i \in first .. n, NEW v \in V PROVE Step(i, v) \in V
  <2>1. text[i] \in Lines
    BY <1>1
  <2> QED
    BY <1>1, <2>1, MappingStep
<1> HIDE DEF Step
<1>4. PICK G : G = [i \in 1 .. n |-> [v \in V |-> IF i < first THEN none ELSE Step(i, v)]]
  OBVIOUS
<1>5. G \in [1 .. n -> [V -> V]] /\ \A i \in 1 .. n, v \in V : G[i][v] = IF i < first THEN none ELSE Step(i, v)
  <2>1. ASSUME NEW i \in 1 .. n, NEW v \in V PROVE (IF i < first THEN none ELSE Step(i, v)) \in V
    <3>1. ~ (i < first) => i \in first .. n
      BY <1>2
    <3> QED
      BY <1>2, <1>3, <3>1
  <2> QED
    BY <1>4, <2>1
<1>6. PICK f : f \in [0 .. n -> V] /\ Recursive(f, n, none, G)
  BY ONLY <1>2, <1>5, Recursion
<1>7. Is(f, n)
  <2>1. ASSUME NEW i \in 0 .. n PROVE f[i] = IF i < first THEN old ELSE Step(i, f[i - 1])
    <3>1. i # 0 => i \in 1 .. n /\ i - 1 \in 0 .. n
      BY <1>2
    <3>2. i = 0 => i < first
      BY <1>2
    <3> QED
      BY <1>1, <1>5, <1>6, <3>1, <3>2 DEF Recursive
  <2> QED
    BY <1>6, <2>1
<1>8. PICK g : g = MappingsRead(old, text, first, last)
  OBVIOUS
<1>9. g = CHOOSE h : Is(h, n)
  BY <1>1, <1>8 DEF MappingsRead, Step
<1>10. Is(g, n)
  BY <1>7, <1>9, Zenon
<1>11. /\ g = [i \in 0 .. n |-> g[i]]
       /\ \A i \in 0 .. n : i < first => g[i] = none
       /\ \A i \in first .. n : g[i] = Step(i, g[i - 1])
  <2>1. \A i \in first .. n : i \in 0 .. n /\ ~ (i < first)
    BY <1>2
  <2>2. \A i \in 0 .. n : g[i] = IF i < first THEN old ELSE Step(i, g[i - 1])
    BY <1>10
  <2>3. g = [i \in 0 .. n |-> g[i]]
    BY <1>10, <2>2
  <2> QED
    BY <1>1, <2>1, <2>2, <2>3
<1>12. g[0] \in V /\ \A i \in 1 .. n : g[i - 1] \in V => g[i] = G[i][g[i - 1]]
  <2>1. 0 \in 0 .. n /\ 0 < first /\ g[0] = none
    BY <1>2, <1>11
  <2>2. ASSUME NEW i \in 1 .. n, g[i - 1] \in V PROVE g[i] = G[i][g[i - 1]]
    <3>1. i \in 0 .. n /\ (~ (i < first) => i \in first .. n)
      BY <1>2
    <3> QED
      BY <1>5, <1>11, <2>2, <3>1
  <2> QED
    BY <1>2, <2>1, <2>2
<1>13. g \in [0 .. n -> V]
  BY ONLY <1>2, <1>5, <1>11, <1>12, RecursionTyped
<1> QED
  BY <1>1, <1>8, <1>11, <1>13 DEF Step

-----------------------------------------------------------------------------
(* The servers of a realm.                                                  *)

ServerLists == [servers : Seq(ServerRecords), final : BOOLEAN]
ListSets == [ok : {TRUE}, admin : ServerLists, kdc : ServerLists, kpasswd : ServerLists]
ListResults == ListSets \cup {Failed}

\* Lists of servers were read, or reading failed.
LEMMA ListCases ==
    ASSUME NEW lists \in ListResults
    PROVE  lists.ok \in BOOLEAN /\ (lists.ok => lists \in ListSets) /\ (~ lists.ok => lists = Failed)
<1>1. CASE lists \in ListSets
  <2>1. lists.ok \in {TRUE}
    BY <1>1 DEF ListSets
  <2> QED
    BY <1>1, <2>1
<1>2. CASE lists = Failed
  BY <1>2 DEF Failed
<1> QED
  BY <1>1, <1>2 DEF ListResults

\* add_default_port fills in the port that was left out.
LEMMA PortTyped ==
    ASSUME NEW value \in ServerValues
    PROVE  /\ add_default_port(value, 88) \in ServerValues
           /\ add_default_port(value, 88).host = value.host
           /\ add_default_port(value, 88).port = IF value.port = 0 THEN 88 ELSE value.port
           /\ add_default_port(value, 88).final = value.final
  BY DEF add_default_port, ServerValues

\* append_until_final keeps the type of a list.
LEMMA AppendTyped ==
    ASSUME NEW list \in ServerLists, NEW value \in ServerValues
    PROVE  append_until_final(list, value) \in ServerLists
<1>1. Server(value) \in ServerRecords /\ value.final \in BOOLEAN
  BY DEF Server, ServerValues, ServerRecords
<1>2. list.servers \in Seq(ServerRecords)
  BY DEF ServerLists
<1>3. Append(list.servers, Server(value)) \in Seq(ServerRecords)
  BY <1>1, <1>2
<1> QED
  BY <1>1, <1>3 DEF append_until_final, ServerLists

\* A line of a realm adds to one of its lists at most.
LEMMA ServerStep ==
    ASSUME NEW lists \in ListResults, NEW line \in Lines
    PROVE  LET next == ReadServer(lists, line)
           IN  /\ next \in ListResults
               /\ next.ok =>
                     /\ lists.ok /\ IsAssignment(line)
                     /\ line.key \in ServerKeys => line.kind = "set" /\ line.value \in ServerValues
                     /\ next.admin = IF line.key = "admin_server" THEN append_until_final(lists.admin, line.value)
                                     ELSE lists.admin
                     /\ next.kdc = IF line.key = "kdc" THEN append_until_final(lists.kdc, add_default_port(line.value, 88))
                                   ELSE lists.kdc
                     /\ next.kpasswd = IF line.key = "kpasswd_server" THEN append_until_final(lists.kpasswd, line.value)
                                       ELSE lists.kpasswd
<1>1. CASE ~ lists.ok \/ ~ IsAssignment(line) \/ IsV4(line)
  BY <1>1 DEF ReadServer, ListResults, Failed
<1>2. CASE lists.ok /\ IsAssignment(line) /\ ~ IsV4(line)
  <2>1. lists \in ListSets
    BY <1>2, ListCases
  <2>2. lists.admin \in ServerLists /\ lists.kdc \in ServerLists /\ lists.kpasswd \in ServerLists
    BY <2>1 DEF ListSets
  <2>3. line.key \in ServerKeys => line.kind = "set" /\ line.value \in ServerValues
    BY <1>2, LineAssumption DEF IsAssignment
  <2>4. CASE line.key = "admin_server"
    <3>1. PICK L : L = append_until_final(lists.admin, line.value)
      OBVIOUS
    <3>2. L \in ServerLists
      BY <2>2, <2>3, <2>4, <3>1, AppendTyped DEF ServerKeys
    <3>3. ReadServer(lists, line) = [lists EXCEPT !.admin = L]
      BY <1>2, <2>1, <2>4, <3>1 DEF ReadServer, ListSets
    <3>4. [lists EXCEPT !.admin = L] \in ListSets
      BY <2>1, <3>2 DEF ListSets
    <3> QED
      BY <1>2, <2>1, <2>3, <2>4, <3>1, <3>3, <3>4 DEF ListResults, ListSets
  <2>5. CASE line.key = "kdc"
    <3>1. PICK L : L = append_until_final(lists.kdc, add_default_port(line.value, 88))
      OBVIOUS
    <3>2. L \in ServerLists
      <4>1. add_default_port(line.value, 88) \in ServerValues
        BY <2>3, <2>5, PortTyped DEF ServerKeys
      <4> QED
        BY <2>2, <3>1, <4>1, AppendTyped
    <3>3. ReadServer(lists, line) = [lists EXCEPT !.kdc = L]
      BY <1>2, <2>1, <2>5, <3>1 DEF ReadServer, ListSets
    <3>4. [lists EXCEPT !.kdc = L] \in ListSets
      BY <2>1, <3>2 DEF ListSets
    <3> QED
      BY <1>2, <2>1, <2>3, <2>5, <3>1, <3>3, <3>4 DEF ListResults, ListSets
  <2>6. CASE line.key = "kpasswd_server"
    <3>1. PICK L : L = append_until_final(lists.kpasswd, line.value)
      OBVIOUS
    <3>2. L \in ServerLists
      BY <2>2, <2>3, <2>6, <3>1, AppendTyped DEF ServerKeys
    <3>3. ReadServer(lists, line) = [lists EXCEPT !.kpasswd = L]
      BY <1>2, <2>1, <2>6, <3>1 DEF ReadServer, ListSets
    <3>4. [lists EXCEPT !.kpasswd = L] \in ListSets
      BY <2>1, <3>2 DEF ListSets
    <3> QED
      BY <1>2, <2>1, <2>3, <2>6, <3>1, <3>3, <3>4 DEF ListResults, ListSets
  <2>7. CASE line.key \notin ServerKeys
    <3>1. ReadServer(lists, line) = lists
      BY <1>2, <2>7 DEF ReadServer, ServerKeys
    <3> QED
      BY <1>2, <2>7, <3>1 DEF ServerKeys
  <2> QED
    BY <2>4, <2>5, <2>6, <2>7 DEF ServerKeys
<1> QED
  BY <1>1, <1>2, ListCases

\* What Realm::parse has after each line, in the block or not.
LEMMA ListsFacts ==
    ASSUME NEW text \in Seq(Lines), NEW block
    PROVE  /\ ListsRead(text, block) \in [0 .. Len(text) -> ListResults]
           /\ ListsRead(text, block)[0] = NoLists
           /\ \A i \in 1 .. Len(text) : ListsRead(text, block)[i]
                = IF i \in block THEN ReadServer(ListsRead(text, block)[i - 1], text[i]) ELSE ListsRead(text, block)[i - 1]
<1> DEFINE Step(i, v) == IF i \in block THEN ReadServer(v, text[i]) ELSE v
           Is(h, m) == h = [i \in 0 .. m |-> IF i = 0 THEN NoLists ELSE Step(i, h[i - 1])]
<1>1. PICK n, V, none : n = Len(text) /\ V = ListResults /\ none = NoLists
  OBVIOUS
<1>2. n \in Nat /\ none \in V
  <2>1. NoServers \in ServerLists
    BY DEF NoServers, ServerLists
  <2>2. NoLists \in ListSets
    BY <2>1 DEF NoLists, ListSets
  <2> QED
    BY <1>1, <2>2 DEF ListResults
<1>3. ASSUME NEW i \in 1 .. n, NEW v \in V PROVE Step(i, v) \in V
  <2>1. text[i] \in Lines
    BY <1>1
  <2>2. ReadServer(v, text[i]) \in ListResults
    BY <1>1, <2>1, ServerStep
  <2> QED
    BY <1>1, <2>2
<1> HIDE DEF Step
<1>4. PICK G : G = [i \in 1 .. n |-> [v \in V |-> Step(i, v)]]
  OBVIOUS
<1>5. G \in [1 .. n -> [V -> V]] /\ \A i \in 1 .. n, v \in V : G[i][v] = Step(i, v)
  BY <1>3, <1>4
<1>6. PICK f : f \in [0 .. n -> V] /\ Recursive(f, n, none, G)
  BY ONLY <1>2, <1>5, Recursion
<1>7. Is(f, n)
  <2>1. ASSUME NEW i \in 0 .. n PROVE f[i] = IF i = 0 THEN NoLists ELSE Step(i, f[i - 1])
    <3>1. i # 0 => i \in 1 .. n /\ i - 1 \in 0 .. n
      BY <1>2
    <3> QED
      BY <1>1, <1>5, <1>6, <3>1 DEF Recursive
  <2> QED
    BY <1>6, <2>1
<1>8. PICK g : g = ListsRead(text, block)
  OBVIOUS
<1>9. g = CHOOSE h : Is(h, n)
  BY <1>1, <1>8 DEF ListsRead, Step
<1>10. Is(g, n)
  BY <1>7, <1>9, Zenon
<1>11. g[0] = none /\ g = [i \in 0 .. n |-> g[i]] /\ \A i \in 1 .. n : g[i] = Step(i, g[i - 1])
  <2>1. 0 \in 0 .. n /\ \A i \in 1 .. n : i \in 0 .. n /\ i # 0
    BY <1>2
  <2>2. \A i \in 0 .. n : g[i] = IF i = 0 THEN NoLists ELSE Step(i, g[i - 1])
    BY <1>10
  <2>3. g = [i \in 0 .. n |-> g[i]]
    BY <1>10, <2>2
  <2> QED
    BY <1>1, <2>1, <2>2, <2>3
<1>12. g[0] \in V /\ \A i \in 1 .. n : g[i - 1] \in V => g[i] = G[i][g[i - 1]]
  BY <1>2, <1>5, <1>11
<1>13. g \in [0 .. n -> V]
  BY ONLY <1>2, <1>5, <1>11, <1>12, RecursionTyped
<1> QED
  BY <1>1, <1>8, <1>11, <1>13 DEF Step

\* The password servers that stand in are servers, too.
LEMMA FallbackTyped ==
    ASSUME NEW admin \in Seq(ServerRecords)
    PROVE  KpasswdFallback(admin) \in Seq(ServerRecords)
<1>1. admin \in [1 .. Len(admin) -> ServerRecords] /\ Len(admin) \in Nat /\ DOMAIN admin = 1 .. Len(admin)
  OBVIOUS
<1>2. ASSUME NEW i \in 1 .. Len(admin)
      PROVE  [host |-> IF admin[i].literal THEN 0 ELSE admin[i].host, port |-> 464, literal |-> FALSE] \in ServerRecords
  <2>1. admin[i] \in ServerRecords
    BY <1>1
  <2>2. (IF admin[i].literal THEN 0 ELSE admin[i].host) \in Hosts \cup {0}
    BY <2>1 DEF ServerRecords
  <2> QED
    BY <2>2 DEF ServerRecords
<1>3. KpasswdFallback(admin) \in [1 .. Len(admin) -> ServerRecords]
  BY <1>1, <1>2 DEF KpasswdFallback
<1> QED
  BY <1>1, <1>3

RealmNames == {line.key : line \in Assignments}
RealmResults == RealmEntries \cup {Failed}

\* Realm::parse returns an entry with the servers of the lists, or fails.
LEMMA RealmParsed ==
    ASSUME NEW text \in Seq(Lines), NEW block, NEW name \in RealmNames,
           NEW realm, realm = Realm_parse(name, text, block), NEW lists, lists = ListsRead(text, block)[Len(text)]
    PROVE  /\ realm \in RealmResults
           /\ realm.ok => /\ realm \in RealmEntries /\ lists \in ListSets /\ realm.realm = name
                          /\ realm.kdc = lists.kdc.servers
                          /\ realm.kpasswd = IF lists.kpasswd.servers # <<>> THEN lists.kpasswd.servers
                                            ELSE KpasswdFallback(lists.admin.servers)
<1>2. lists \in ListResults
  <2>1. Len(text) \in 0 .. Len(text)
    OBVIOUS
  <2> QED
    BY <2>1, ListsFacts
<1>3. realm = RealmOf(name, lists)
  BY DEF Realm_parse
<1>4. CASE ~ lists.ok
  BY <1>3, <1>4 DEF RealmOf, RealmResults, Failed
<1>5. CASE lists.ok
  <2>1. lists \in ListSets
    BY <1>2, <1>5, ListCases
  <2>2. /\ lists.kdc.servers \in Seq(ServerRecords) /\ lists.kpasswd.servers \in Seq(ServerRecords)
        /\ lists.admin.servers \in Seq(ServerRecords)
    BY <2>1 DEF ListSets, ServerLists
  <2>3. PICK own : own = IF lists.kpasswd.servers # <<>> THEN lists.kpasswd.servers
                         ELSE KpasswdFallback(lists.admin.servers)
    OBVIOUS
  <2>4. own \in Seq(ServerRecords)
    BY <2>2, <2>3, FallbackTyped
  <2>5. RealmOf(name, lists) = [ok |-> TRUE, realm |-> name, kdc |-> lists.kdc.servers, kpasswd |-> own]
    BY <1>5, <2>3 DEF RealmOf
  <2>6. name \in {x.key : x \in Assignments}
    BY DEF RealmNames
  <2>7. RealmOf(name, lists) \in RealmEntries
    BY <2>2, <2>4, <2>5, <2>6 DEF RealmEntries
  <2> QED
    BY <1>3, <2>1, <2>3, <2>5, <2>7 DEF RealmResults
<1> QED
  BY <1>4, <1>5, <1>2, ListCases

-----------------------------------------------------------------------------
(* The blocks of realms.                                                    *)

RealmRecords ==
    [ok : {TRUE}, realms : Seq(RealmEntries), depth : Nat, name : RealmNames \cup {Missing}, block : SUBSET Nat]
RealmStates == {acc \in RealmRecords : acc.depth > 0 => acc.name \in RealmNames}
RealmReads == RealmStates \cup {Failed}

\* So it is with the realms of a section,
LEMMA RealmCases ==
    ASSUME NEW acc \in RealmReads
    PROVE  acc.ok \in BOOLEAN /\ (acc.ok => acc \in RealmStates) /\ (~ acc.ok => acc = Failed)
<1>1. CASE acc \in RealmStates
  <2>1. acc.ok \in {TRUE}
    BY <1>1 DEF RealmStates, RealmRecords
  <2> QED
    BY <1>1, <2>1
<1>2. CASE acc = Failed
  BY <1>2 DEF Failed
<1> QED
  BY <1>1, <1>2 DEF RealmReads

\* whose states are built by RealmState,
LEMMA RealmStateTyped ==
    ASSUME NEW realms \in Seq(RealmEntries), NEW depth \in Nat, NEW name \in RealmNames \cup {Missing},
           NEW block \in SUBSET Nat, depth > 0 => name \in RealmNames
    PROVE  RealmState(realms, depth, name, block) \in RealmStates
<1>1. RealmState(realms, depth, name, block) \in RealmRecords
  BY DEF RealmState, RealmRecords
<1>2. RealmState(realms, depth, name, block).depth = depth /\ RealmState(realms, depth, name, block).name = name
  BY DEF RealmState
<1> QED
  BY <1>1, <1>2 DEF RealmStates

\* have the fields they should
LEMMA RealmStateFields ==
    ASSUME NEW acc \in RealmStates
    PROVE  /\ acc.realms \in Seq(RealmEntries) /\ acc.depth \in Nat /\ acc.name \in RealmNames \cup {Missing}
           /\ acc.block \in SUBSET Nat /\ (acc.depth > 0 => acc.name \in RealmNames)
           /\ acc = RealmState(acc.realms, acc.depth, acc.name, acc.block)
<1>1. acc \in RealmRecords /\ (acc.depth > 0 => acc.name \in RealmNames)
  BY DEF RealmStates
<1>2. acc.ok = TRUE
  BY <1>1 DEF RealmRecords
<1> QED
  BY <1>1, <1>2 DEF RealmRecords, RealmState

\* and hold what they were built from.
LEMMA RealmStateIs ==
    ASSUME NEW realms, NEW depth, NEW name, NEW block
    PROVE  LET next == RealmState(realms, depth, name, block)
           IN  next.ok /\ next.realms = realms /\ next.depth = depth /\ next.name = name /\ next.block = block
  BY DEF RealmState

\* A line opens a block, closes one, or neither.
LEMMA DeltaFacts ==
    ASSUME NEW line \in Lines
    PROVE  /\ line.kind = "open" => brace_delta(line) = 1
           /\ line.kind = "close" => brace_delta(line) = 0 - 1
           /\ line.kind \notin {"open", "close"} => brace_delta(line) = 0
           /\ brace_delta(line) \in Int
  BY DEF brace_delta

\* What a line outside of all blocks does.
Begins(acc, text, i, next) ==
    /\ acc.depth = 0 /\ text[i].kind = "open"
    /\ next.depth = 1 /\ next.name = text[i].key /\ next.block = {} /\ next.realms = acc.realms
\* A line in a block.
GoesOn(acc, text, i, next) ==
    /\ acc.depth > 0 /\ next.depth = acc.depth + brace_delta(text[i]) /\ next.depth > 0
    /\ next.name = acc.name /\ next.realms = acc.realms
    /\ next.block = IF acc.depth = 1 /\ text[i].kind # "close" THEN acc.block \cup {i} ELSE acc.block
\* Its last line.
Ends(acc, text, i, next) ==
    /\ acc.depth = 1 /\ text[i].kind = "close" /\ next.depth = 0
    /\ LET realm == Realm_parse(acc.name, text, acc.block)
       IN  realm.ok /\ realm \in RealmEntries /\ realm.realm = acc.name /\ next.realms = Append(acc.realms, realm)

\* A turn of the loops of parse_realms.
LEMMA RealmStep ==
    ASSUME NEW acc \in RealmReads, NEW text \in Seq(Lines), NEW i \in 1 .. Len(text)
    PROVE  LET next == ReadRealmLine(acc, text, i)
           IN  /\ next \in RealmReads
               /\ next.ok => /\ acc.ok
                             /\ Begins(acc, text, i, next) \/ GoesOn(acc, text, i, next) \/ Ends(acc, text, i, next)
<1> DEFINE next == ReadRealmLine(acc, text, i)
<1>1. text[i] \in Lines /\ i \in Nat
  OBVIOUS
<1>2. CASE ~ acc.ok
  BY <1>2, RealmCases DEF ReadRealmLine
<1>3. CASE acc.ok /\ acc.depth = 0
  <2>1. acc \in RealmStates
    BY <1>3, RealmCases
  <2>2. next = BeginRealm(acc, text[i])
    BY <1>3 DEF ReadRealmLine
  <2>3. CASE text[i].kind = "open"
    <3>1. next = RealmState(acc.realms, 1, text[i].key, {})
      BY <2>2, <2>3 DEF BeginRealm
    <3>2. text[i] \in Assignments
      BY <1>1, <2>3 DEF Assignments, IsAssignment
    <3>3. text[i].key \in RealmNames
      BY <3>2 DEF RealmNames
    <3>4. next \in RealmStates
      BY <2>1, <3>1, <3>3, RealmStateFields, RealmStateTyped
    <3>5. next.depth = 1 /\ next.name = text[i].key /\ next.block = {} /\ next.realms = acc.realms
      BY <2>1, <3>1, RealmStateIs
    <3> QED
      BY <1>3, <2>3, <3>4, <3>5 DEF RealmReads, Begins
  <2>4. CASE text[i].kind # "open"
    BY <2>2, <2>4 DEF BeginRealm, RealmReads, Failed
  <2> QED
    BY <2>3, <2>4
<1>4. CASE acc.ok /\ acc.depth # 0
  <2>1. acc \in RealmStates
    BY <1>4, RealmCases
  <2>2. acc.depth \in Nat \ {0} /\ acc.name \in RealmNames /\ acc.block \in SUBSET Nat
        /\ acc.realms \in Seq(RealmEntries)
    BY <1>4, <2>1 DEF RealmStates, RealmRecords
  <2>3. PICK block, depth : /\ block = IF acc.depth = 1 /\ text[i].kind # "close" THEN acc.block \cup {i} ELSE acc.block
                            /\ depth = acc.depth + brace_delta(text[i])
    OBVIOUS
  <2>4. next = IF depth > 0 THEN RealmState(acc.realms, depth, acc.name, block)
               ELSE EndRealm(acc, Realm_parse(acc.name, text, block))
    BY <1>4, <2>3 DEF ReadRealmLine, InsideRealm
  <2>5. depth \in Int /\ block \in SUBSET Nat
    BY <1>1, <2>2, <2>3, DeltaFacts
  <2>6. CASE depth > 0
    <3>1. next = RealmState(acc.realms, depth, acc.name, block)
      BY <2>4, <2>6
    <3>2. next \in RealmStates
      BY <2>1, <3>1, <2>2, <2>5, <2>6, RealmStateFields, RealmStateTyped
    <3>3. next.depth = depth /\ next.name = acc.name /\ next.block = block /\ next.realms = acc.realms
      BY <2>1, <3>1, RealmStateIs
    <3>4. acc.depth > 0
      BY <2>2
    <3> QED
      BY <1>4, <2>3, <2>6, <3>2, <3>3, <3>4 DEF RealmReads, GoesOn
  <2>7. CASE ~ (depth > 0)
    <3>1. acc.depth = 1 /\ text[i].kind = "close"
      <4>1. PICK d : d = brace_delta(text[i])
        OBVIOUS
      <4>2. d \in Int /\ (text[i].kind = "open" => d = 1) /\ (text[i].kind = "close" => d = 0 - 1)
            /\ (text[i].kind \notin {"open", "close"} => d = 0)
        BY <1>1, <4>1, DeltaFacts
      <4>3. ~ (acc.depth + d > 0)
        BY <2>3, <2>7, <4>1
      <4> QED
        BY <2>2, <4>2, <4>3
    <3>2. block = acc.block
      BY <2>3, <3>1
    <3>3. PICK realm : realm = Realm_parse(acc.name, text, acc.block)
      OBVIOUS
    <3>4. next = EndRealm(acc, realm)
      BY <2>4, <2>7, <3>2, <3>3
    <3>6. realm \in RealmResults /\ (realm.ok => realm \in RealmEntries /\ realm.realm = acc.name)
      BY <2>2, <3>3, RealmParsed
    <3>7. CASE ~ realm.ok
      BY <3>4, <3>7 DEF EndRealm, RealmReads, Failed
    <3>8. CASE realm.ok
      <4>0. PICK more : more = Append(acc.realms, realm)
        OBVIOUS
      <4>1. next = RealmState(more, 0, acc.name, acc.block)
        BY <2>1, <3>4, <3>8, <4>0 DEF EndRealm, RealmStates
      <4>2. more \in Seq(RealmEntries)
        BY <2>2, <3>6, <3>8, <4>0
      <4>3. next \in RealmStates
        BY <2>1, <4>1, <2>2, <4>2, RealmStateFields, RealmStateTyped
      <4>4. next.depth = 0 /\ next.realms = Append(acc.realms, realm)
        <5>1. PICK there : there = RealmState(more, 0, acc.name, acc.block)
          OBVIOUS
        <5>2. there.depth = 0 /\ there.realms = more
          BY ONLY <5>1 DEF RealmState
        <5>3. next = there
          BY <4>1, <5>1
        <5> QED
          BY ONLY <4>0, <5>2, <5>3, Zenon
      <4> QED
        BY <1>4, <3>1, <3>3, <3>6, <3>8, <4>3, <4>4 DEF RealmReads, Ends
    <3> QED
      BY <3>7, <3>8
  <2> QED
    BY <2>6, <2>7
<1> QED
  BY <1>2, <1>3, <1>4, RealmCases

\* What parse_realms has after each line.
LEMMA RealmsFacts ==
    ASSUME NEW text \in Seq(Lines), NEW first \in Nat \ {0}, NEW last \in 0 .. Len(text)
    PROVE  /\ RealmsRead(text, first, last) \in [0 .. last -> RealmReads]
           /\ \A i \in 0 .. last : i < first => RealmsRead(text, first, last)[i] = NoRealms
           /\ \A i \in first .. last : RealmsRead(text, first, last)[i]
                = ReadRealmLine(RealmsRead(text, first, last)[i - 1], text, i)
<1> DEFINE Step(i, v) == ReadRealmLine(v, text, i)
           Is(h, m) == h = [i \in 0 .. m |-> IF i < first THEN NoRealms ELSE Step(i, h[i - 1])]
<1>1. PICK n, V, none : n = last /\ V = RealmReads /\ none = NoRealms
  OBVIOUS
<1>2. n \in Nat /\ none \in V /\ first \in Nat \ {0}
  <2>1. NoRealms \in RealmStates
    <3>1. <<>> \in Seq(RealmEntries) /\ {} \in SUBSET Nat
      OBVIOUS
    <3>2. ~ (0 > 0) /\ 0 \in Nat
      OBVIOUS
    <3>3. RealmState(<<>>, 0, Missing, {}) \in RealmStates
      BY ONLY <3>1, <3>2, RealmStateTyped
    <3> QED
      BY <3>3 DEF NoRealms
  <2> QED
    BY <1>1, <2>1 DEF RealmReads
<1>3. ASSUME NEW i \in first .. n, NEW v \in V PROVE Step(i, v) \in V
  <2>1. i \in 1 .. Len(text)
    BY <1>1
  <2> QED
    BY <1>1, <2>1, RealmStep
<1> HIDE DEF Step
<1>4. PICK G : G = [i \in 1 .. n |-> [v \in V |-> IF i < first THEN none ELSE Step(i, v)]]
  OBVIOUS
<1>5. G \in [1 .. n -> [V -> V]] /\ \A i \in 1 .. n, v \in V : G[i][v] = IF i < first THEN none ELSE Step(i, v)
  <2>1. ASSUME NEW i \in 1 .. n, NEW v \in V PROVE (IF i < first THEN none ELSE Step(i, v)) \in V
    <3>1. ~ (i < first) => i \in first .. n
      BY <1>2
    <3> QED
      BY <1>2, <1>3, <3>1
  <2> QED
    BY <1>4, <2>1
<1>6. PICK f : f \in [0 .. n -> V] /\ Recursive(f, n, none, G)
  BY ONLY <1>2, <1>5, Recursion
<1>7. Is(f, n)
  <2>1. ASSUME NEW i \in 0 .. n PROVE f[i] = IF i < first THEN NoRealms ELSE Step(i, f[i - 1])
    <3>1. i # 0 => i \in 1 .. n /\ i - 1 \in 0 .. n
      BY <1>2
    <3>2. i = 0 => i < first
      BY <1>2
    <3> QED
      BY <1>1, <1>5, <1>6, <3>1, <3>2 DEF Recursive
  <2> QED
    BY <1>6, <2>1
<1>8. PICK g : g = RealmsRead(text, first, last)
  OBVIOUS
<1>9. g = CHOOSE h : Is(h, n)
  BY <1>1, <1>8 DEF RealmsRead, Step
<1>10. Is(g, n)
  BY <1>7, <1>9, Zenon
<1>11. /\ g = [i \in 0 .. n |-> g[i]]
       /\ \A i \in 0 .. n : i < first => g[i] = none
       /\ \A i \in first .. n : g[i] = Step(i, g[i - 1])
  <2>1. \A i \in first .. n : i \in 0 .. n /\ ~ (i < first)
    BY <1>2
  <2>2. \A i \in 0 .. n : g[i] = IF i < first THEN NoRealms ELSE Step(i, g[i - 1])
    BY <1>10
  <2>3. g = [i \in 0 .. n |-> g[i]]
    BY <1>10, <2>2
  <2> QED
    BY <1>1, <2>1, <2>2, <2>3
<1>12. g[0] \in V /\ \A i \in 1 .. n : g[i - 1] \in V => g[i] = G[i][g[i - 1]]
  <2>1. 0 \in 0 .. n /\ 0 < first /\ g[0] = none
    BY <1>2, <1>11
  <2>2. ASSUME NEW i \in 1 .. n, g[i - 1] \in V PROVE g[i] = G[i][g[i - 1]]
    <3>1. i \in 0 .. n /\ (~ (i < first) => i \in first .. n)
      BY <1>2
    <3> QED
      BY <1>5, <1>11, <2>2, <3>1
  <2> QED
    BY <1>2, <2>1, <2>2
<1>13. g \in [0 .. n -> V]
  BY ONLY <1>2, <1>5, <1>11, <1>12, RecursionTyped
<1> QED
  BY <1>1, <1>8, <1>11, <1>13 DEF Step

\* A section of realms replaces the realms.
LEMMA RealmsSection ==
    ASSUME NEW old \in Confs, NEW text \in Seq(Lines), NEW first \in Nat \ {0}, NEW last \in 0 .. Len(text)
    PROVE  LET next == parse_realms(old, text, first, last)
               read == RealmsRead(text, first, last)[last]
           IN  /\ next \in ConfResults
               /\ next.ok => /\ read.ok /\ read.depth = 0 /\ next.realms = read.realms
                             /\ next.domain_realm = old.domain_realm
<1>1. PICK read : read = RealmsRead(text, first, last)[last]
  OBVIOUS
<1>2. last \in 0 .. last
  OBVIOUS
<1>3. read \in RealmReads
  BY <1>1, <1>2, RealmsFacts
<1>4. parse_realms(old, text, first, last) = WithRealms(old, read)
  BY <1>1 DEF parse_realms
<1>5. CASE ~ read.ok \/ read.depth # 0
  BY <1>4, <1>5 DEF WithRealms, ConfResults, Failed
<1>6. CASE read.ok /\ read.depth = 0
  <2>1. read.realms \in Seq(RealmEntries)
    BY <1>3, <1>6, RealmCases DEF RealmStates, RealmRecords
  <2>2. WithRealms(old, read) = [old EXCEPT !.realms = read.realms]
    BY <1>6 DEF WithRealms
  <2>3. [old EXCEPT !.realms = read.realms] \in Confs
    BY <2>1 DEF Confs
  <2>4. [old EXCEPT !.realms = read.realms].realms = read.realms
        /\ [old EXCEPT !.realms = read.realms].domain_realm = old.domain_realm
    BY DEF Confs
  <2> QED
    BY <1>1, <1>4, <1>6, <2>2, <2>3, <2>4 DEF ConfResults
<1> QED
  BY <1>3, <1>5, <1>6, RealmCases

-----------------------------------------------------------------------------
(* Sections.                                                                *)

\* Settings leave realms and mappings alone.
LEMMA SettingsSection ==
    ASSUME NEW old \in Confs, NEW text \in Seq(Lines), NEW first \in Nat \ {0}, NEW last \in 0 .. Len(text)
    PROVE  LET next == parse_lines(old, text, first, last)
           IN  /\ next \in ConfResults
               /\ next.ok => next.realms = old.realms /\ next.domain_realm = old.domain_realm
<1>1. PICK read : read = SettingsRead(old, text, first, last)
  OBVIOUS
<1>2. old \in ConfResults
  BY DEF ConfResults
<1>3. /\ read \in [0 .. last -> ConfResults]
      /\ \A i \in 0 .. last : i < first => read[i] = old
      /\ \A i \in first .. last : read[i] = ReadSetting(read[i - 1], text[i])
  BY <1>1, <1>2, SettingsFacts
<1> DEFINE S == {i \in 0 .. last : read[i].ok => read[i].realms = old.realms /\ read[i].domain_realm = old.domain_realm}
<1>4. 0 \in S
  <2>1. 0 \in 0 .. last /\ 0 < first
    OBVIOUS
  <2> QED
    BY <1>3, <2>1
<1>5. ASSUME NEW i \in 1 .. last, i - 1 \in S PROVE i \in S
  <2>1. i \in 0 .. last /\ i - 1 \in 0 .. last /\ i \in 1 .. Len(text)
    OBVIOUS
  <2>2. CASE i < first
    BY <1>3, <2>1, <2>2
  <2>3. CASE ~ (i < first)
    <3>1. i \in first .. last
      BY <2>3
    <3>2. read[i] = ReadSetting(read[i - 1], text[i]) /\ read[i - 1] \in ConfResults /\ text[i] \in Lines
      BY <1>3, <2>1, <3>1
    <3>3. read[i].ok => read[i - 1].ok /\ read[i].realms = read[i - 1].realms
                        /\ read[i].domain_realm = read[i - 1].domain_realm
      BY <3>2, SettingStep
    <3> QED
      BY <1>5, <2>1, <3>3
  <2> QED
    BY <2>2, <2>3
<1>6. last \in S
  <2>1. \A i \in 0 .. last : i \in S
    <3> HIDE DEF S
    <3> QED
      BY <1>4, <1>5, Induct
  <2> QED
    BY <2>1
<1>7. last \in 0 .. last
  OBVIOUS
<1> QED
  BY <1>1, <1>3, <1>6, <1>7 DEF parse_lines

\* What a section does.
LEMMA SectionFacts ==
    ASSUME NEW old \in Confs, NEW section, NEW text \in Seq(Lines), NEW first \in Nat \ {0}, NEW last \in 0 .. Len(text),
           NEW next, next = apply_section(old, section, text, first, last)
    PROVE  /\ next \in ConfResults
           /\ next.ok =>
                 /\ IF section = "realms"
                    THEN LET read == RealmsRead(text, first, last)[last]
                         IN  read.ok /\ read.depth = 0 /\ next.realms = read.realms
                    ELSE next.realms = old.realms
                 /\ IF section = "domain_realm" THEN next = MappingsRead(old, text, first, last)[last]
                    ELSE next.domain_realm = old.domain_realm
<1>1. CASE section = "libdefaults"
  <2>1. next = parse_lines(old, text, first, last)
    BY <1>1 DEF apply_section
  <2> QED
    BY <1>1, <2>1, SettingsSection
<1>2. CASE section = "realms"
  <2>1. next = parse_realms(old, text, first, last)
    BY <1>2 DEF apply_section
  <2> QED
    BY <1>2, <2>1, RealmsSection
<1>3. CASE section = "domain_realm"
  <2>1. next = MappingsRead(old, text, first, last)[last]
    BY <1>3 DEF apply_section, parse_domain_realm
  <2>2. PICK read : read = MappingsRead(old, text, first, last)
    OBVIOUS
  <2>3. old \in ConfResults
    BY DEF ConfResults
  <2>4. /\ read \in [0 .. last -> ConfResults]
        /\ \A i \in 0 .. last : i < first => read[i] = old
        /\ \A i \in first .. last : read[i] = ReadMapping(read[i - 1], text[i])
    BY <2>2, <2>3, MappingsFacts
  <2> DEFINE S == {i \in 0 .. last : read[i].ok => read[i].realms = old.realms}
  <2>5. 0 \in S
    <3>1. 0 \in 0 .. last /\ 0 < first
      OBVIOUS
    <3> QED
      BY <2>4, <3>1
  <2>6. ASSUME NEW i \in 1 .. last, i - 1 \in S PROVE i \in S
    <3>1. i \in 0 .. last /\ i - 1 \in 0 .. last /\ i \in 1 .. Len(text)
      OBVIOUS
    <3>2. CASE i < first
      BY <2>4, <3>1, <3>2
    <3>3. CASE ~ (i < first)
      <4>1. i \in first .. last
        BY <3>3
      <4>2. read[i] = ReadMapping(read[i - 1], text[i]) /\ read[i - 1] \in ConfResults /\ text[i] \in Lines
        BY <2>4, <3>1, <4>1
      <4>3. read[i].ok => read[i - 1].ok /\ read[i].realms = read[i - 1].realms
        BY <4>2, MappingStep
      <4> QED
        BY <2>6, <3>1, <4>3
    <3> QED
      BY <3>2, <3>3
  <2>7. last \in S
    <3>1. \A i \in 0 .. last : i \in S
      <4> HIDE DEF S
      <4> QED
        BY <2>5, <2>6, Induct
    <3> QED
      BY <3>1
  <2>8. last \in 0 .. last
    OBVIOUS
  <2> QED
    BY <1>3, <2>1, <2>2, <2>4, <2>7, <2>8
<1>4. CASE section \notin {"libdefaults", "realms", "domain_realm"}
  <2>1. next = old
    BY <1>4 DEF apply_section
  <2> QED
    BY <1>4, <2>1 DEF ConfResults
<1> QED
  BY <1>1, <1>2, <1>3, <1>4

\* The name of the section that begins at a header.
SectionAt(text, h) == IF h = 0 THEN "unknown" ELSE text[h].name

\* Applied, with the section that it ends.
LEMMA AppliedIs ==
    ASSUME NEW old \in ConfResults, NEW h \in Nat, NEW text, NEW last,
           NEW acc, acc = [conf |-> old, header |-> h]
    PROVE  Applied(acc, text, last)
             = IF old.ok THEN apply_section(old, SectionAt(text, h), text, h + 1, last) ELSE Failed
<1>1. acc.conf = old /\ acc.header = h
  OBVIOUS
<1> QED
  BY <1>1 DEF Applied, SectionAt

\* A section that is applied leaves a configuration, or fails.
LEMMA AppliedTyped ==
    ASSUME NEW old \in ConfResults, NEW h \in Nat, NEW text \in Seq(Lines), NEW last \in 0 .. Len(text),
           NEW acc, acc = [conf |-> old, header |-> h]
    PROVE  Applied(acc, text, last) \in ConfResults
<1>1. CASE ~ old.ok
  BY <1>1, AppliedIs DEF ConfResults
<1>2. CASE old.ok
  <2>1. old \in Confs /\ h + 1 \in Nat \ {0}
    BY <1>2, ConfCases
  <2>2. PICK section : section = SectionAt(text, h)
    OBVIOUS
  <2>3. apply_section(old, section, text, h + 1, last) \in ConfResults
    BY <2>1, SectionFacts
  <2> QED
    BY <1>2, <2>2, <2>3, AppliedIs
<1> QED
  BY <1>1, <1>2

SectionStates == [conf : ConfResults, header : Nat]

\* So does a line,
LEMMA ReadLineTyped ==
    ASSUME NEW text \in Seq(Lines), NEW acc \in SectionStates, NEW i \in 1 .. Len(text)
    PROVE  ReadLine(acc, text, i) \in SectionStates
<1>1. acc.conf \in ConfResults /\ acc.header \in Nat /\ acc = [conf |-> acc.conf, header |-> acc.header]
  BY DEF SectionStates
<1>2. i - 1 \in 0 .. Len(text) /\ i \in Nat
  OBVIOUS
<1>3. Applied(acc, text, i - 1) \in ConfResults
  BY <1>1, <1>2, AppliedTyped
<1> QED
  BY <1>2, <1>3 DEF ReadLine, SectionStates

\* and the configuration to begin with is one.
LEMMA NewConfTyped == NewConf \in Confs
  BY DEF NewConf, Confs

\* What Config::parse has after each line.
LEMMA SectionsFacts ==
    ASSUME NEW text \in Seq(Lines)
    PROVE  /\ SectionsRead(text) \in [0 .. Len(text) -> SectionStates]
           /\ SectionsRead(text)[0] = [conf |-> NewConf, header |-> 0]
           /\ \A i \in 1 .. Len(text) : SectionsRead(text)[i]
                = ReadLine(SectionsRead(text)[i - 1], text, i)
<1> DEFINE Step(i, v) == ReadLine(v, text, i)
           Is(h, m) == h = [i \in 0 .. m |-> IF i = 0 THEN [conf |-> NewConf, header |-> 0] ELSE Step(i, h[i - 1])]
<1>1. PICK n, V, none : n = Len(text) /\ V = SectionStates /\ none = [conf |-> NewConf, header |-> 0]
  OBVIOUS
<1>2. n \in Nat /\ none \in V
  <2>1. NewConf \in ConfResults
    BY NewConfTyped DEF ConfResults
  <2> QED
    BY <1>1, <2>1 DEF SectionStates
<1>3. ASSUME NEW i \in 1 .. n, NEW v \in V PROVE Step(i, v) \in V
  <2>1. i \in 1 .. Len(text)
    BY <1>1
  <2> QED
    BY <1>1, <2>1, ReadLineTyped
<1> HIDE DEF Step
<1>4. PICK G : G = [i \in 1 .. n |-> [v \in V |-> Step(i, v)]]
  OBVIOUS
<1>5. G \in [1 .. n -> [V -> V]] /\ \A i \in 1 .. n, v \in V : G[i][v] = Step(i, v)
  BY <1>3, <1>4
<1>6. PICK f : f \in [0 .. n -> V] /\ Recursive(f, n, none, G)
  BY ONLY <1>2, <1>5, Recursion
<1>7. Is(f, n)
  <2>1. ASSUME NEW i \in 0 .. n PROVE f[i] = IF i = 0 THEN [conf |-> NewConf, header |-> 0] ELSE Step(i, f[i - 1])
    <3>1. i # 0 => i \in 1 .. n /\ i - 1 \in 0 .. n
      BY <1>2
    <3> QED
      BY <1>1, <1>5, <1>6, <3>1 DEF Recursive
  <2> QED
    BY <1>6, <2>1
<1>8. PICK g : g = SectionsRead(text)
  OBVIOUS
<1>9. g = CHOOSE h : Is(h, n)
  BY <1>1, <1>8 DEF SectionsRead, Step
<1>10. Is(g, n)
  BY <1>7, <1>9, Zenon
<1>11. g[0] = none /\ g = [i \in 0 .. n |-> g[i]] /\ \A i \in 1 .. n : g[i] = Step(i, g[i - 1])
  <2>1. 0 \in 0 .. n /\ \A i \in 1 .. n : i \in 0 .. n /\ i # 0
    BY <1>2
  <2>2. \A i \in 0 .. n : g[i] = IF i = 0 THEN [conf |-> NewConf, header |-> 0] ELSE Step(i, g[i - 1])
    BY <1>10
  <2>3. g = [i \in 0 .. n |-> g[i]]
    BY <1>10, <2>2
  <2> QED
    BY <1>1, <2>1, <2>2, <2>3
<1>12. g[0] \in V /\ \A i \in 1 .. n : g[i - 1] \in V => g[i] = G[i][g[i - 1]]
  BY <1>2, <1>5, <1>11
<1>13. g \in [0 .. n -> V]
  BY ONLY <1>2, <1>5, <1>11, <1>12, RecursionTyped
<1> QED
  BY <1>1, <1>8, <1>11, <1>13 DEF Step

-----------------------------------------------------------------------------
(* Headers, and the depth of braces.                                        *)

\* The header over a line is the last one up to it,
LEMMA HeaderFacts ==
    ASSUME NEW text \in Seq(Lines), NEW i \in 0 .. Len(text)
    PROVE  /\ Header(text, i) \in 0 .. i
           /\ Header(text, i) # 0 => text[Header(text, i)].kind = "section"
           /\ \A j \in 1 .. i : text[j].kind = "section" => j <= Header(text, i)
<1>1. PICK P : P = {0} \cup {j \in 1 .. i : text[j].kind = "section"}
  OBVIOUS
<1>2. P # {} /\ \A j \in P : j \in 0 .. i
  BY <1>1
<1>3. i \in Nat
  OBVIOUS
<1>4. LastOf(P) \in P /\ \A j \in P : j <= LastOf(P)
  BY <1>2, <1>3, LastOfFacts
<1>5. Header(text, i) = LastOf(P)
  BY <1>1 DEF Header
<1> QED
  BY <1>1, <1>2, <1>4, <1>5

\* and only that one.
LEMMA HeaderIs ==
    ASSUME NEW text \in Seq(Lines), NEW i \in 0 .. Len(text), NEW h \in 0 .. i,
           h # 0 => text[h].kind = "section", \A j \in h + 1 .. i : text[j].kind # "section"
    PROVE  Header(text, i) = h
<1>1. PICK g : g = Header(text, i)
  OBVIOUS
<1>2. g \in 0 .. i /\ (g # 0 => text[g].kind = "section") /\ \A j \in 1 .. i : text[j].kind = "section" => j <= g
  BY <1>1, HeaderFacts
<1>3. h <= g
  <2>1. CASE h = 0
    BY <1>2, <2>1
  <2>2. CASE h # 0
    <3>1. h \in 1 .. i
      BY <2>2
    <3> QED
      BY <1>2, <2>2, <3>1
  <2> QED
    BY <2>1, <2>2
<1>4. ~ (h < g)
  <2>1. SUFFICES ASSUME h < g PROVE FALSE
    OBVIOUS
  <2>2. g \in h + 1 .. i /\ g # 0
    BY <1>2, <2>1
  <2> QED
    BY <1>2, <2>2
<1> QED
  BY <1>1, <1>2, <1>3, <1>4

\* The lines of one kind from i to j.
OfKind(text, i, j, kind) == {k \in i .. j : text[k].kind = kind}

\* One more line adds at most one to the lines of a kind,
LEMMA OfKindStep ==
    ASSUME NEW text, NEW i \in Nat, NEW j \in Nat, i <= j, NEW kind
    PROVE  /\ Cardinality(OfKind(text, i, j, kind)) \in Nat /\ Cardinality(OfKind(text, i, j - 1, kind)) \in Nat
           /\ Cardinality(OfKind(text, i, j, kind))
                = Cardinality(OfKind(text, i, j - 1, kind)) + (IF text[j].kind = kind THEN 1 ELSE 0)
<1>1. PICK A, B : A = OfKind(text, i, j - 1, kind) /\ B = OfKind(text, i, j, kind)
  OBVIOUS
<1>2. IsFiniteSet(i .. j - 1)
  <2>1. i \in Int /\ j - 1 \in Int
    OBVIOUS
  <2> QED
    BY <2>1, FS_Interval
<1>3. A \subseteq i .. j - 1
  BY <1>1 DEF OfKind
<1>4. IsFiniteSet(A)
  BY <1>2, <1>3, FS_Subset
<1>5. j \notin A
  BY <1>3
<1>6. B = IF text[j].kind = kind THEN A \cup {j} ELSE A
  <2>1. \A k : k \in i .. j <=> k \in i .. j - 1 \/ k = j
    OBVIOUS
  <2> QED
    BY <1>1, <2>1 DEF OfKind
<1>7. Cardinality(A) \in Nat
  BY <1>4, FS_CardinalityType
<1>8. Cardinality(A \cup {j}) = Cardinality(A) + 1
  BY <1>4, <1>5, FS_AddElement
<1> QED
  BY <1>1, <1>6, <1>7, <1>8

\* and so to the depth of braces what brace_delta says.
LEMMA DepthStep ==
    ASSUME NEW text \in Seq(Lines), NEW i \in Nat \ {0}, NEW j \in Nat, i <= j, j <= Len(text)
    PROVE  /\ Depth(text, i, j) \in Int /\ Depth(text, i, j - 1) \in Int
           /\ Depth(text, i, j) = Depth(text, i, j - 1) + brace_delta(text[j])
<1>1. PICK a, b, c, d : /\ a = Cardinality(OfKind(text, i, j, "open")) /\ b = Cardinality(OfKind(text, i, j, "close"))
                        /\ c = Cardinality(OfKind(text, i, j - 1, "open")) /\ d = Cardinality(OfKind(text, i, j - 1, "close"))
  OBVIOUS
<1>2. Depth(text, i, j) = a - b /\ Depth(text, i, j - 1) = c - d
  BY <1>1 DEF Depth, OfKind
<1>3. a \in Nat /\ c \in Nat /\ a = c + (IF text[j].kind = "open" THEN 1 ELSE 0)
  BY <1>1, OfKindStep
<1>4. b \in Nat /\ d \in Nat /\ b = d + (IF text[j].kind = "close" THEN 1 ELSE 0)
  BY <1>1, OfKindStep
<1>5. text[j] \in Lines
  OBVIOUS
<1>6. PICK delta : delta = brace_delta(text[j])
  OBVIOUS
<1>7. /\ text[j].kind = "open" => delta = 1
      /\ text[j].kind = "close" => delta = 0 - 1
      /\ text[j].kind \notin {"open", "close"} => delta = 0
  BY <1>5, <1>6, DeltaFacts
<1>8. a - b = (c - d) + delta
  BY <1>3, <1>4, <1>7
<1>9. a - b \in Int /\ c - d \in Int
  BY <1>3, <1>4
<1> QED
  BY <1>2, <1>6, <1>8, <1>9

\* No lines have no depth.
LEMMA DepthNone ==
    ASSUME NEW text, NEW i \in Nat, NEW j \in Int, j < i
    PROVE  Depth(text, i, j) = 0
<1>1. OfKind(text, i, j, "open") = {} /\ OfKind(text, i, j, "close") = {}
  BY DEF OfKind
<1>2. Cardinality({}) = 0
  BY FS_EmptySet
<1>3. PICK a, b : a = Cardinality(OfKind(text, i, j, "open")) /\ b = Cardinality(OfKind(text, i, j, "close"))
  OBVIOUS
<1>4. Depth(text, i, j) = a - b
  BY <1>3 DEF Depth, OfKind
<1>5. a = 0 /\ b = 0
  BY <1>1, <1>2, <1>3
<1> QED
  BY <1>4, <1>5

\* Depths add up.
LEMMA DepthSplit ==
    ASSUME NEW text \in Seq(Lines), NEW i \in Nat \ {0}, NEW o \in Nat, i <= o, Depth(text, i, o - 1) = 0
    PROVE  \A k \in 0 .. Len(text) : k >= o - 1 => Depth(text, i, k) = Depth(text, o, k)
<1> DEFINE S == {k \in 0 .. Len(text) : k >= o - 1 => Depth(text, i, k) = Depth(text, o, k)}
<1>1. ASSUME NEW k \in 0 .. Len(text), k = o - 1 PROVE k \in S
  <2>1. Depth(text, o, k) = 0
    BY <1>1, DepthNone
  <2> QED
    BY <1>1, <2>1
<1>2. 0 \in S
  <2>1. 0 \in 0 .. Len(text)
    OBVIOUS
  <2> QED
    BY <1>1, <2>1
<1>3. ASSUME NEW k \in 1 .. Len(text), k - 1 \in S PROVE k \in S
  <2>1. k \in 0 .. Len(text) /\ k - 1 \in 0 .. Len(text) /\ k \in Nat
    OBVIOUS
  <2>2. CASE k <= o - 1
    BY <1>1, <2>1, <2>2
  <2>3. CASE ~ (k <= o - 1)
    <3>1. k - 1 >= o - 1 /\ i <= k /\ o <= k /\ k <= Len(text) /\ o \in Nat \ {0}
      BY <2>3
    <3>2. Depth(text, i, k - 1) = Depth(text, o, k - 1)
      BY <1>3, <3>1
    <3>3. Depth(text, i, k) = Depth(text, i, k - 1) + brace_delta(text[k])
      BY <2>1, <3>1, DepthStep
    <3>4. Depth(text, o, k) = Depth(text, o, k - 1) + brace_delta(text[k])
      BY <2>1, <3>1, DepthStep
    <3>5. Depth(text, i, k) = Depth(text, o, k)
      BY <3>2, <3>3, <3>4, Zenon
    <3> QED
      BY <2>1, <3>5
  <2> QED
    BY <2>2, <2>3
<1>4. \A k \in 0 .. Len(text) : k \in S
  <2> HIDE DEF S
  <2>1. Len(text) \in Nat
    OBVIOUS
  <2> QED
    BY <1>2, <1>3, <2>1, Induct
<1> QED
  BY <1>4

-----------------------------------------------------------------------------
(* The servers of a realm, against the lines that name them.                *)

\* The servers on some lines, line by line.
LEMMA ServersUpToFacts ==
    ASSUME NEW text \in Seq(Lines), NEW places, \A i \in 1 .. Len(text) : i \in places => text[i].value \in ServerValues
    PROVE  /\ ServersUpTo(text, places) \in [0 .. Len(text) -> Seq(ServerValues)]
           /\ ServersUpTo(text, places)[0] = <<>>
           /\ \A i \in 1 .. Len(text) : ServersUpTo(text, places)[i]
                = IF i \in places THEN Append(ServersUpTo(text, places)[i - 1], text[i].value) ELSE ServersUpTo(text, places)[i - 1]
<1> DEFINE Step(i, v) == IF i \in places THEN Append(v, text[i].value) ELSE v
           Is(h, m) == h = [i \in 0 .. m |-> IF i = 0 THEN <<>> ELSE Step(i, h[i - 1])]
<1>1. PICK n, V, none : n = Len(text) /\ V = Seq(ServerValues) /\ none = <<>>
  OBVIOUS
<1>2. n \in Nat /\ none \in V
  BY <1>1
<1>3. ASSUME NEW i \in 1 .. n, NEW v \in V PROVE Step(i, v) \in V
  BY <1>1
<1> HIDE DEF Step
<1>4. PICK G : G = [i \in 1 .. n |-> [v \in V |-> Step(i, v)]]
  OBVIOUS
<1>5. G \in [1 .. n -> [V -> V]] /\ \A i \in 1 .. n, v \in V : G[i][v] = Step(i, v)
  BY <1>3, <1>4
<1>6. PICK f : f \in [0 .. n -> V] /\ Recursive(f, n, none, G)
  BY ONLY <1>2, <1>5, Recursion
<1>7. Is(f, n)
  <2>1. ASSUME NEW i \in 0 .. n PROVE f[i] = IF i = 0 THEN <<>> ELSE Step(i, f[i - 1])
    <3>1. i # 0 => i \in 1 .. n /\ i - 1 \in 0 .. n
      BY <1>2
    <3> QED
      BY <1>1, <1>5, <1>6, <3>1 DEF Recursive
  <2> QED
    BY <1>6, <2>1
<1>8. PICK g : g = ServersUpTo(text, places)
  OBVIOUS
<1>9. g = CHOOSE h : Is(h, n)
  BY <1>1, <1>8 DEF ServersUpTo, Step
<1>10. Is(g, n)
  BY <1>7, <1>9, Zenon
<1>11. g[0] = none /\ g = [i \in 0 .. n |-> g[i]] /\ \A i \in 1 .. n : g[i] = Step(i, g[i - 1])
  <2>1. 0 \in 0 .. n /\ \A i \in 1 .. n : i \in 0 .. n /\ i # 0
    BY <1>2
  <2>2. \A i \in 0 .. n : g[i] = IF i = 0 THEN <<>> ELSE Step(i, g[i - 1])
    BY <1>10
  <2>3. g = [i \in 0 .. n |-> g[i]]
    BY <1>10, <2>2
  <2> QED
    BY <1>1, <2>1, <2>2, <2>3
<1>12. g[0] \in V /\ \A i \in 1 .. n : g[i - 1] \in V => g[i] = G[i][g[i - 1]]
  BY <1>2, <1>5, <1>11
<1>13. g \in [0 .. n -> V]
  BY ONLY <1>2, <1>5, <1>11, <1>12, RecursionTyped
<1> QED
  BY <1>1, <1>8, <1>11, <1>13 DEF Step

\* Servers as values give them, with a port where it is left out.
Like(servers, values, port) ==
    /\ Len(servers) = Len(values)
    /\ \A k \in 1 .. Len(values) :
          /\ servers[k].host = values[k].host /\ servers[k].literal = values[k].literal
          /\ servers[k].port = IF values[k].port = 0 THEN port ELSE values[k].port

\* A server that is taken from a line keeps the lists alike.
LEMMA LikeAppend ==
    ASSUME NEW servers \in Seq(ServerRecords), NEW values \in Seq(ServerValues), NEW port \in Nat,
           NEW value \in ServerValues, Like(servers, values, port)
    PROVE  Like(Append(servers, Server(add_default_port(value, port))), Append(values, value), port)
<1>1. PICK n : n = Len(values) /\ n = Len(servers) /\ n \in Nat
  BY DEF Like
<1>2. PICK server : server = Server(add_default_port(value, port))
  OBVIOUS
<1>3. /\ server.host = value.host /\ server.literal = value.literal
      /\ server.port = IF value.port = 0 THEN port ELSE value.port
  BY <1>2 DEF Server, add_default_port, ServerValues
<1>4. server \in ServerRecords
  BY <1>2 DEF Server, add_default_port, ServerValues, ServerRecords
<1>5. PICK s, v : s = Append(servers, server) /\ v = Append(values, value)
  OBVIOUS
<1>6. /\ Len(s) = n + 1 /\ Len(v) = n + 1 /\ s[n + 1] = server /\ v[n + 1] = value
      /\ \A k \in 1 .. n : s[k] = servers[k] /\ v[k] = values[k]
  <2>1. servers \in Seq(ServerRecords) /\ server \in ServerRecords /\ Len(servers) = n /\ s = Append(servers, server)
    BY <1>1, <1>4, <1>5
  <2>2. values \in Seq(ServerValues) /\ value \in ServerValues /\ Len(values) = n /\ v = Append(values, value)
    BY <1>1, <1>5
  <2>3. Len(s) = n + 1 /\ s[n + 1] = server /\ \A k \in 1 .. n : s[k] = servers[k]
    BY ONLY <2>1, AppendProperties
  <2>4. Len(v) = n + 1 /\ v[n + 1] = value /\ \A k \in 1 .. n : v[k] = values[k]
    BY ONLY <2>2, AppendProperties
  <2> QED
    BY <2>3, <2>4
<1>7. ASSUME NEW k \in 1 .. n + 1
      PROVE  /\ s[k].host = v[k].host /\ s[k].literal = v[k].literal
             /\ s[k].port = IF v[k].port = 0 THEN port ELSE v[k].port
  <2>1. CASE k = n + 1
    BY <1>3, <1>6, <2>1
  <2>2. CASE k # n + 1
    <3>1. k \in 1 .. n /\ k \in 1 .. Len(values)
      BY <1>1, <2>2
    <3>2. s[k] = servers[k] /\ v[k] = values[k]
      BY <1>6, <3>1
    <3> QED
      BY <3>1, <3>2 DEF Like
  <2> QED
    BY <2>1, <2>2
<1>8. Like(s, v, port)
  BY <1>6, <1>7 DEF Like
<1> QED
  BY <1>2, <1>5, <1>8

\* append_until_final.
LEMMA AppendIs ==
    ASSUME NEW list \in ServerLists, NEW value \in ServerValues, NEW port \in Nat,
           NEW next, next = append_until_final(list, add_default_port(value, port))
    PROVE  /\ next \in ServerLists
           /\ list.final => next = list
           /\ ~ list.final => /\ next.servers = Append(list.servers, Server(add_default_port(value, port)))
                              /\ next.final = value.final
<1>1. PICK given : given = add_default_port(value, port)
  OBVIOUS
<1>2. given \in ServerValues /\ given.final = value.final
  BY <1>1 DEF add_default_port, ServerValues
<1>3. next = append_until_final(list, given)
  BY <1>1
<1> QED
  BY <1>1, <1>2, <1>3, AppendTyped DEF append_until_final

\* A list that takes the values of some lines ends with the first final one.
LEMMA ListFollows ==
    ASSUME NEW text \in Seq(Lines), NEW N, NEW port \in Nat, NEW list,
           \A i \in N : i \in 1 .. Len(text) /\ text[i].value \in ServerValues,
           \A i \in 0 .. Len(text) : list[i] \in ServerLists,
           list[0] = NoServers,
           \A i \in 1 .. Len(text) :
              list[i] = IF i \in N THEN append_until_final(list[i - 1], add_default_port(text[i].value, port))
                        ELSE list[i - 1]
    PROVE  /\ Like(list[Len(text)].servers, ServersOn(text, UpToFinal(text, N)), port)
           /\ ServersOn(text, UpToFinal(text, N)) \in Seq(ServerValues)
<1>1. PICK n, U, up : n = Len(text) /\ U = UpToFinal(text, N) /\ up = ServersUpTo(text, U)
  OBVIOUS
<1>2. n \in Nat /\ U = {i \in N : \A j \in N : j < i => ~ text[j].value.final}
  BY <1>1 DEF UpToFinal
<1>3. \A i \in 1 .. Len(text) : i \in U => text[i].value \in ServerValues
  BY <1>2
<1>4. /\ up \in [0 .. n -> Seq(ServerValues)] /\ up[0] = <<>>
      /\ \A i \in 1 .. n : up[i] = IF i \in U THEN Append(up[i - 1], text[i].value) ELSE up[i - 1]
  <2>1. /\ ServersUpTo(text, U) \in [0 .. Len(text) -> Seq(ServerValues)] /\ ServersUpTo(text, U)[0] = <<>>
        /\ \A i \in 1 .. Len(text) : ServersUpTo(text, U)[i]
              = IF i \in U THEN Append(ServersUpTo(text, U)[i - 1], text[i].value) ELSE ServersUpTo(text, U)[i - 1]
    BY ONLY <1>3, text \in Seq(Lines), ServersUpToFacts
  <2> QED
    BY ONLY <1>1, <2>1
<1> DEFINE Before(i) == \E j \in N : j <= i /\ text[j].value.final
           S == {i \in 0 .. n : (list[i].final <=> Before(i)) /\ Like(list[i].servers, up[i], port)}
<1>5. 0 \in S
  <2>1. list[0].final = FALSE /\ list[0].servers = <<>>
    BY DEF NoServers
  <2>2. ~ Before(0) /\ 0 \in 0 .. n
    BY <1>2
  <2>3. Like(<<>>, <<>>, port)
    BY DEF Like
  <2> QED
    BY <1>4, <2>1, <2>2, <2>3
<1>6. ASSUME NEW i \in 1 .. n, i - 1 \in S PROVE i \in S
  <2>1. i \in 0 .. n /\ i - 1 \in 0 .. n /\ i \in 1 .. Len(text)
    BY <1>1, <1>2
  <2>2. (list[i - 1].final <=> Before(i - 1)) /\ Like(list[i - 1].servers, up[i - 1], port)
    BY <1>6
  <2>3. list[i - 1] \in ServerLists /\ up[i - 1] \in Seq(ServerValues) /\ list[i - 1].servers \in Seq(ServerRecords)
    BY <1>1, <1>4, <2>1 DEF ServerLists
  <2>4. \A j \in N : (j <= i <=> j <= i - 1 \/ j = i) /\ (j < i <=> j <= i - 1)
    BY <2>1
  <2>5. CASE i \notin N
    <3>1. list[i] = list[i - 1] /\ up[i] = up[i - 1]
      BY <1>2, <1>4, <2>1, <2>5
    <3>2. Before(i) <=> Before(i - 1)
      BY <2>4, <2>5
    <3> QED
      BY <2>1, <2>2, <3>1, <3>2
  <2>6. CASE i \in N
    <3>1. text[i].value \in ServerValues
      BY <2>6
    <3>2. list[i] = append_until_final(list[i - 1], add_default_port(text[i].value, port))
      BY <2>1, <2>6
    <3>3. CASE list[i - 1].final
      <4>1. list[i] = list[i - 1]
        BY <2>3, <3>1, <3>2, <3>3, AppendIs
      <4>2. Before(i - 1)
        BY <2>2, <3>3
      <4>3. Before(i) /\ i \notin U
        BY <1>2, <2>4, <4>2
      <4>4. up[i] = up[i - 1]
        BY <1>4, <4>3
      <4> QED
        BY <2>1, <2>2, <3>3, <4>1, <4>3, <4>4
    <3>4. CASE ~ list[i - 1].final
      <4>1. /\ list[i].servers = Append(list[i - 1].servers, Server(add_default_port(text[i].value, port)))
            /\ list[i].final = text[i].value.final
        <5>1. PICK before, after, value : before = list[i - 1] /\ after = list[i] /\ value = text[i].value
          OBVIOUS
        <5>2. before \in ServerLists /\ value \in ServerValues /\ ~ before.final
              /\ after = append_until_final(before, add_default_port(value, port))
          BY <2>3, <3>1, <3>2, <3>4, <5>1
        <5>3. /\ after.servers = Append(before.servers, Server(add_default_port(value, port)))
              /\ after.final = value.final
          BY <5>2, AppendIs
        <5> QED
          BY <5>1, <5>3
      <4>2. ~ Before(i - 1)
        BY <2>2, <3>4
      <4>3. i \in U /\ (Before(i) <=> text[i].value.final)
        BY <1>2, <2>4, <2>6, <4>2
      <4>4. up[i] = Append(up[i - 1], text[i].value)
        BY <1>4, <4>3
      <4>5. Like(list[i].servers, up[i], port)
        BY <2>2, <2>3, <3>1, <4>1, <4>4, LikeAppend
      <4> QED
        BY <2>1, <4>1, <4>3, <4>5
    <3> QED
      BY <3>3, <3>4
  <2> QED
    BY <2>5, <2>6
<1>7. n \in S
  <2>1. \A i \in 0 .. n : i \in S
    <3> HIDE DEF S
    <3> QED
      BY <1>2, <1>5, <1>6, Induct
  <2> QED
    BY <1>2, <2>1
<1>8. n \in 0 .. n
  BY <1>2
<1> QED
  BY <1>1, <1>4, <1>7, <1>8 DEF ServersOn

\* Where no line names a server there is none.
LEMMA NoServersOn ==
    ASSUME NEW text \in Seq(Lines)
    PROVE  ServersOn(text, {}) = <<>>
<1>1. PICK up : up = ServersUpTo(text, {})
  OBVIOUS
<1>2. \A i \in 1 .. Len(text) : i \in {} => text[i].value \in ServerValues
  OBVIOUS
<1>3. up[0] = <<>> /\ \A i \in 1 .. Len(text) : up[i] = IF i \in {} THEN Append(up[i - 1], text[i].value) ELSE up[i - 1]
  BY <1>1, <1>2, ServersUpToFacts
<1> DEFINE S == {i \in 0 .. Len(text) : up[i] = <<>>}
<1>4. 0 \in S
  BY <1>3
<1>5. ASSUME NEW i \in 1 .. Len(text), i - 1 \in S PROVE i \in S
  BY <1>3, <1>5
<1>6. Len(text) \in Nat
  OBVIOUS
<1>7. \A i \in 0 .. Len(text) : i \in S
  <2> HIDE DEF S
  <2> QED
    BY <1>4, <1>5, <1>6, Induct
<1> QED
  BY <1>1, <1>6, <1>7 DEF ServersOn

\* The block that begins at line o ends at line c, with the lines B in it.
ClosedBlock(text, o, c, B) ==
    /\ \A k \in o .. c - 1 : Depth(text, o, k) > 0
    /\ Depth(text, o, c) = 0
    /\ B = {k \in o + 1 .. c - 1 : text[k].kind # "close" /\ Depth(text, o, k - 1) = 1}

\* A list that Realm::parse could read to the end it could read all the way.
LEMMA ListsAllRead ==
    ASSUME NEW text \in Seq(Lines), NEW B, ListsRead(text, B)[Len(text)].ok
    PROVE  \A i \in 0 .. Len(text) : ListsRead(text, B)[i] \in ListSets
<1>1. PICK n, read : n = Len(text) /\ read = ListsRead(text, B) /\ n \in Nat
  OBVIOUS
<1>2. /\ read \in [0 .. n -> ListResults]
      /\ \A i \in 1 .. n : read[i] = IF i \in B THEN ReadServer(read[i - 1], text[i]) ELSE read[i - 1]
  BY <1>1, ListsFacts
<1> DEFINE S == {i \in 0 .. n : read[n - i].ok}
<1>3. 0 \in S
  BY <1>1
<1>4. ASSUME NEW i \in 1 .. n, i - 1 \in S PROVE i \in S
  <2>1. PICK k : k = n - (i - 1) /\ k \in 1 .. n /\ n - i = k - 1 /\ k - 1 \in 0 .. n /\ i \in 0 .. n
    BY <1>1
  <2>2. read[k].ok /\ text[k] \in Lines /\ read[k - 1] \in ListResults
    BY <1>1, <1>2, <1>4, <2>1
  <2>3. read[k] = IF k \in B THEN ReadServer(read[k - 1], text[k]) ELSE read[k - 1]
    BY <1>2, <2>1
  <2>4. ReadServer(read[k - 1], text[k]).ok => read[k - 1].ok
    BY <2>2, ServerStep
  <2> QED
    BY <2>1, <2>2, <2>3, <2>4
<1>5. \A i \in 0 .. n : i \in S
  <2> HIDE DEF S
  <2> QED
    BY <1>1, <1>3, <1>4, Induct
<1>6. ASSUME NEW i \in 0 .. n PROVE read[i] \in ListSets
  <2>1. n - i \in 0 .. n /\ n - (n - i) = i
    BY <1>1
  <2>2. read[i].ok
    BY <1>5, <2>1
  <2> QED
    BY <1>2, <2>2, ListCases
<1> QED
  BY <1>1, <1>6

\* The lines of a block with the name of a list are the ones that the list is
\* made of.
LEMMA BlockLines ==
    ASSUME NEW text \in Seq(Lines), NEW o \in 1 .. Len(text), NEW c \in o + 1 .. Len(text), NEW B,
           ClosedBlock(text, o, c, B), NEW key, \A i \in B : text[i].key = key => text[i].kind = "set"
    PROVE  NamedLines(text, o, key) = {i \in B : text[i].key = key}
<1>1. ASSUME NEW i \in NamedLines(text, o, key) PROVE i \in B /\ text[i].key = key
  <2>1. /\ i \in o + 1 .. Len(text) /\ \A k \in o .. i : Depth(text, o, k) > 0
        /\ Depth(text, o, i) = 1 /\ text[i].kind = "set" /\ text[i].key = key
    BY DEF NamedLines
  <2>2. i < c
    <3>1. SUFFICES ASSUME c <= i PROVE FALSE
      BY <2>1
    <3>2. c \in o .. i
      BY <2>1, <3>1
    <3>3. Depth(text, o, c) > 0 /\ Depth(text, o, c) = 0
      BY <2>1, <3>2 DEF ClosedBlock
    <3> QED
      BY <3>3
  <2>3. i \in o + 1 .. c - 1 /\ i \in Nat /\ o <= i /\ i <= Len(text)
    BY <2>1, <2>2
  <2>4. Depth(text, o, i) = Depth(text, o, i - 1) + brace_delta(text[i]) /\ Depth(text, o, i - 1) \in Int
    BY <2>3, DepthStep
  <2>5. brace_delta(text[i]) = 0
    <3>1. text[i] \in Lines /\ text[i].kind = "set"
      BY <2>1, <2>3
    <3> QED
      BY <3>1, DeltaFacts
  <2>6. Depth(text, o, i - 1) = 1
    BY <2>1, <2>4, <2>5
  <2> QED
    BY <2>1, <2>3, <2>6 DEF ClosedBlock
<1>2. ASSUME NEW i \in B, text[i].key = key PROVE i \in NamedLines(text, o, key)
  <2>1. i \in o + 1 .. c - 1 /\ Depth(text, o, i - 1) = 1 /\ text[i].kind = "set"
    BY <1>2 DEF ClosedBlock
  <2>2. i \in Nat /\ o <= i /\ i <= Len(text) /\ i \in o + 1 .. Len(text)
    BY <2>1
  <2>3. Depth(text, o, i) = Depth(text, o, i - 1) + brace_delta(text[i])
    BY <2>2, DepthStep
  <2>4. brace_delta(text[i]) = 0
    <3>1. text[i] \in Lines /\ text[i].kind = "set"
      BY <2>1, <2>2
    <3> QED
      BY <3>1, DeltaFacts
  <2>5. Depth(text, o, i) = 1
    BY <2>1, <2>3, <2>4
  <2>6. \A k \in o .. i : Depth(text, o, k) > 0
    <3>1. \A k \in o .. i : k \in o .. c - 1
      BY <2>1
    <3> QED
      BY <3>1 DEF ClosedBlock
  <2> QED
    BY <1>2, <2>1, <2>2, <2>5, <2>6 DEF NamedLines
<1> QED
  BY <1>1, <1>2

\* A port that is left out stays 0 where none is added.
LEMMA PortZero ==
    ASSUME NEW value \in ServerValues
    PROVE  add_default_port(value, 0) = value
  BY DEF add_default_port, ServerValues

\* Realm::parse has the servers of its block, up to the final ones.
LEMMA RealmLists ==
    ASSUME NEW text \in Seq(Lines), NEW o \in 1 .. Len(text), NEW c \in o + 1 .. Len(text), NEW B,
           ClosedBlock(text, o, c, B), NEW lists, lists = ListsRead(text, B)[Len(text)], lists.ok
    PROVE  /\ Like(lists.kdc.servers, ServersOn(text, ServerLines(text, o, "kdc")), 88)
           /\ ServersOn(text, ServerLines(text, o, "kdc")) \in Seq(ServerValues)
           /\ Like(lists.kpasswd.servers, ServersOn(text, ServerLines(text, o, "kpasswd_server")), 0)
           /\ ServersOn(text, ServerLines(text, o, "kpasswd_server")) \in Seq(ServerValues)
           /\ Like(lists.admin.servers, ServersOn(text, ServerLines(text, o, "admin_server")), 0)
           /\ ServersOn(text, ServerLines(text, o, "admin_server")) \in Seq(ServerValues)
<1>1. PICK n, read : n = Len(text) /\ n \in Nat /\ read = ListsRead(text, B) /\ read[n] = lists
  OBVIOUS
<1>2. /\ read[0] = NoLists
      /\ \A i \in 1 .. n : read[i] = IF i \in B THEN ReadServer(read[i - 1], text[i]) ELSE read[i - 1]
  BY <1>1, ListsFacts
<1>3. \A i \in 0 .. n : read[i] \in ListSets
  BY <1>1, ListsAllRead
<1>4. ASSUME NEW i \in B
      PROVE  /\ i \in 1 .. n
             /\ text[i].key \in ServerKeys => text[i].kind = "set" /\ text[i].value \in ServerValues
             /\ read[i].admin = IF text[i].key = "admin_server" THEN append_until_final(read[i - 1].admin, text[i].value)
                                ELSE read[i - 1].admin
             /\ read[i].kdc = IF text[i].key = "kdc"
                              THEN append_until_final(read[i - 1].kdc, add_default_port(text[i].value, 88))
                              ELSE read[i - 1].kdc
             /\ read[i].kpasswd = IF text[i].key = "kpasswd_server"
                                  THEN append_until_final(read[i - 1].kpasswd, text[i].value)
                                  ELSE read[i - 1].kpasswd
  <2>1. i \in 1 .. n /\ i - 1 \in 0 .. n /\ i \in 0 .. n
    <3>1. i \in o + 1 .. c - 1
      BY DEF ClosedBlock
    <3> QED
      BY <1>1, <3>1
  <2>2. PICK before, after, line : before = read[i - 1] /\ after = read[i] /\ line = text[i]
    OBVIOUS
  <2>3. after = ReadServer(before, line) /\ before \in ListResults /\ after.ok /\ line \in Lines
    <3>1. after.ok \in {TRUE}
      BY <1>3, <2>1, <2>2 DEF ListSets
    <3>2. after = ReadServer(before, line)
      BY <1>2, <2>1, <2>2
    <3>3. before \in ListResults
      BY <1>3, <2>1, <2>2 DEF ListResults
    <3>4. line \in Lines
      BY <1>1, <2>1, <2>2
    <3> QED
      BY <3>1, <3>2, <3>3, <3>4
  <2>4. /\ line.key \in ServerKeys => line.kind = "set" /\ line.value \in ServerValues
        /\ after.admin = IF line.key = "admin_server" THEN append_until_final(before.admin, line.value) ELSE before.admin
        /\ after.kdc = IF line.key = "kdc" THEN append_until_final(before.kdc, add_default_port(line.value, 88))
                       ELSE before.kdc
        /\ after.kpasswd = IF line.key = "kpasswd_server" THEN append_until_final(before.kpasswd, line.value)
                           ELSE before.kpasswd
    BY <2>3, ServerStep
  <2> QED
    BY <2>1, <2>2, <2>4
<1>5. /\ Like(lists.kdc.servers, ServersOn(text, ServerLines(text, o, "kdc")), 88)
      /\ ServersOn(text, ServerLines(text, o, "kdc")) \in Seq(ServerValues)
  <2>1. PICK N, list : N = NamedLines(text, o, "kdc") /\ list = [i \in 0 .. n |-> read[i].kdc]
    OBVIOUS
  <2>2. N = {i \in B : text[i].key = "kdc"}
    <3>1. \A i \in B : text[i].key = "kdc" => text[i].kind = "set"
      BY <1>4 DEF ServerKeys
    <3>2. NamedLines(text, o, "kdc") = {i \in B : text[i].key = "kdc"}
      BY <3>1, BlockLines
    <3> QED
      BY ONLY <2>1, <3>2
  <2>3. \A i \in N : i \in 1 .. Len(text) /\ text[i].value \in ServerValues
    BY <1>1, <1>4, <2>2 DEF ServerKeys
  <2>4. \A i \in 0 .. Len(text) : list[i] \in ServerLists
    BY <1>1, <1>3, <2>1 DEF ListSets
  <2>5. list[0] = NoServers
    BY <1>1, <1>2, <2>1 DEF NoLists
  <2>6. ASSUME NEW i \in 1 .. Len(text)
        PROVE  list[i] = IF i \in N THEN append_until_final(list[i - 1], add_default_port(text[i].value, 88))
                         ELSE list[i - 1]
    <3>1. i \in 0 .. n /\ i - 1 \in 0 .. n /\ i \in 1 .. n
      BY <1>1
    <3>2. list[i] = read[i].kdc /\ list[i - 1] = read[i - 1].kdc
      BY <2>1, <3>1
    <3>3. CASE i \notin B
      <4>1. read[i] = read[i - 1] /\ i \notin N
        BY <1>2, <2>2, <3>1, <3>3
      <4> QED
        BY <3>2, <4>1
    <3>4. CASE i \in B
      <4>1. read[i].kdc = IF text[i].key = "kdc"
                THEN append_until_final(read[i - 1].kdc, add_default_port(text[i].value, 88))
                ELSE read[i - 1].kdc
        BY <1>4, <3>4
      <4>2. i \in N <=> text[i].key = "kdc"
        BY <2>2, <3>4
      <4>3. i \in N => add_default_port(text[i].value, 0) = text[i].value
        BY <2>3, PortZero
      <4> QED
        BY <3>2, <4>1, <4>2, <4>3
    <3> QED
      BY <3>3, <3>4
  <2>7. /\ Like(list[Len(text)].servers, ServersOn(text, UpToFinal(text, N)), 88)
        /\ ServersOn(text, UpToFinal(text, N)) \in Seq(ServerValues)
    <3>1. 88 \in Nat
      OBVIOUS
    <3> QED
      BY ONLY text \in Seq(Lines), <2>3, <2>4, <2>5, <2>6, <3>1, ListFollows
  <2>8. list[Len(text)] = lists.kdc
    BY <1>1, <2>1
  <2>9. ServerLines(text, o, "kdc") = UpToFinal(text, N)
    BY <2>1 DEF ServerLines
  <2> QED
    BY <2>7, <2>8, <2>9
<1>6. /\ Like(lists.kpasswd.servers, ServersOn(text, ServerLines(text, o, "kpasswd_server")), 0)
      /\ ServersOn(text, ServerLines(text, o, "kpasswd_server")) \in Seq(ServerValues)
  <2>1. PICK N, list : N = NamedLines(text, o, "kpasswd_server") /\ list = [i \in 0 .. n |-> read[i].kpasswd]
    OBVIOUS
  <2>2. N = {i \in B : text[i].key = "kpasswd_server"}
    <3>1. \A i \in B : text[i].key = "kpasswd_server" => text[i].kind = "set"
      BY <1>4 DEF ServerKeys
    <3>2. NamedLines(text, o, "kpasswd_server") = {i \in B : text[i].key = "kpasswd_server"}
      BY <3>1, BlockLines
    <3> QED
      BY ONLY <2>1, <3>2
  <2>3. \A i \in N : i \in 1 .. Len(text) /\ text[i].value \in ServerValues
    BY <1>1, <1>4, <2>2 DEF ServerKeys
  <2>4. \A i \in 0 .. Len(text) : list[i] \in ServerLists
    BY <1>1, <1>3, <2>1 DEF ListSets
  <2>5. list[0] = NoServers
    BY <1>1, <1>2, <2>1 DEF NoLists
  <2>6. ASSUME NEW i \in 1 .. Len(text)
        PROVE  list[i] = IF i \in N THEN append_until_final(list[i - 1], add_default_port(text[i].value, 0))
                         ELSE list[i - 1]
    <3>1. i \in 0 .. n /\ i - 1 \in 0 .. n /\ i \in 1 .. n
      BY <1>1
    <3>2. list[i] = read[i].kpasswd /\ list[i - 1] = read[i - 1].kpasswd
      BY <2>1, <3>1
    <3>3. CASE i \notin B
      <4>1. read[i] = read[i - 1] /\ i \notin N
        BY <1>2, <2>2, <3>1, <3>3
      <4> QED
        BY <3>2, <4>1
    <3>4. CASE i \in B
      <4>1. read[i].kpasswd = IF text[i].key = "kpasswd_server"
                THEN append_until_final(read[i - 1].kpasswd, text[i].value)
                ELSE read[i - 1].kpasswd
        BY <1>4, <3>4
      <4>2. i \in N <=> text[i].key = "kpasswd_server"
        BY <2>2, <3>4
      <4>3. i \in N => add_default_port(text[i].value, 0) = text[i].value
        BY <2>3, PortZero
      <4> QED
        BY <3>2, <4>1, <4>2, <4>3
    <3> QED
      BY <3>3, <3>4
  <2>7. /\ Like(list[Len(text)].servers, ServersOn(text, UpToFinal(text, N)), 0)
        /\ ServersOn(text, UpToFinal(text, N)) \in Seq(ServerValues)
    <3>1. 0 \in Nat
      OBVIOUS
    <3> QED
      BY ONLY text \in Seq(Lines), <2>3, <2>4, <2>5, <2>6, <3>1, ListFollows
  <2>8. list[Len(text)] = lists.kpasswd
    BY <1>1, <2>1
  <2>9. ServerLines(text, o, "kpasswd_server") = UpToFinal(text, N)
    BY <2>1 DEF ServerLines
  <2> QED
    BY <2>7, <2>8, <2>9
<1>7. /\ Like(lists.admin.servers, ServersOn(text, ServerLines(text, o, "admin_server")), 0)
      /\ ServersOn(text, ServerLines(text, o, "admin_server")) \in Seq(ServerValues)
  <2>1. PICK N, list : N = NamedLines(text, o, "admin_server") /\ list = [i \in 0 .. n |-> read[i].admin]
    OBVIOUS
  <2>2. N = {i \in B : text[i].key = "admin_server"}
    <3>1. \A i \in B : text[i].key = "admin_server" => text[i].kind = "set"
      BY <1>4 DEF ServerKeys
    <3>2. NamedLines(text, o, "admin_server") = {i \in B : text[i].key = "admin_server"}
      BY <3>1, BlockLines
    <3> QED
      BY ONLY <2>1, <3>2
  <2>3. \A i \in N : i \in 1 .. Len(text) /\ text[i].value \in ServerValues
    BY <1>1, <1>4, <2>2 DEF ServerKeys
  <2>4. \A i \in 0 .. Len(text) : list[i] \in ServerLists
    BY <1>1, <1>3, <2>1 DEF ListSets
  <2>5. list[0] = NoServers
    BY <1>1, <1>2, <2>1 DEF NoLists
  <2>6. ASSUME NEW i \in 1 .. Len(text)
        PROVE  list[i] = IF i \in N THEN append_until_final(list[i - 1], add_default_port(text[i].value, 0))
                         ELSE list[i - 1]
    <3>1. i \in 0 .. n /\ i - 1 \in 0 .. n /\ i \in 1 .. n
      BY <1>1
    <3>2. list[i] = read[i].admin /\ list[i - 1] = read[i - 1].admin
      BY <2>1, <3>1
    <3>3. CASE i \notin B
      <4>1. read[i] = read[i - 1] /\ i \notin N
        BY <1>2, <2>2, <3>1, <3>3
      <4> QED
        BY <3>2, <4>1
    <3>4. CASE i \in B
      <4>1. read[i].admin = IF text[i].key = "admin_server"
                THEN append_until_final(read[i - 1].admin, text[i].value)
                ELSE read[i - 1].admin
        BY <1>4, <3>4
      <4>2. i \in N <=> text[i].key = "admin_server"
        BY <2>2, <3>4
      <4>3. i \in N => add_default_port(text[i].value, 0) = text[i].value
        BY <2>3, PortZero
      <4> QED
        BY <3>2, <4>1, <4>2, <4>3
    <3> QED
      BY <3>3, <3>4
  <2>7. /\ Like(list[Len(text)].servers, ServersOn(text, UpToFinal(text, N)), 0)
        /\ ServersOn(text, UpToFinal(text, N)) \in Seq(ServerValues)
    <3>1. 0 \in Nat
      OBVIOUS
    <3> QED
      BY ONLY text \in Seq(Lines), <2>3, <2>4, <2>5, <2>6, <3>1, ListFollows
  <2>8. list[Len(text)] = lists.admin
    BY <1>1, <2>1
  <2>9. ServerLines(text, o, "admin_server") = UpToFinal(text, N)
    BY <2>1 DEF ServerLines
  <2> QED
    BY <2>7, <2>8, <2>9
<1> QED
  BY <1>5, <1>6, <1>7

\* The endpoints of servers.
LEMMA EndpointsLike ==
    ASSUME NEW servers \in Seq(ServerRecords), NEW values \in Seq(ServerValues), NEW port, Like(servers, values, port)
    PROVE  /\ Endpoints(servers) = [i \in DOMAIN values |-> <<values[i].host, IF values[i].port = 0 THEN port ELSE values[i].port>>]
           /\ servers = <<>> <=> values = <<>>
<1>1. DOMAIN servers = 1 .. Len(values) /\ DOMAIN values = 1 .. Len(values)
  BY DEF Like
<1>2. ASSUME NEW i \in 1 .. Len(values)
      PROVE  <<servers[i].host, servers[i].port>> = <<values[i].host, IF values[i].port = 0 THEN port ELSE values[i].port>>
  BY DEF Like
<1>3. Len(servers) = Len(values)
  BY DEF Like
<1>4. servers = <<>> <=> values = <<>>
  BY <1>3
<1> QED
  BY <1>1, <1>2, <1>4 DEF Endpoints

\* What a realm may have for its lines: they are named for it, or a password
\* server cannot be used.
AsDeclared(realm, said) ==
    /\ Endpoints(realm.kdc) = said.kdc
    /\ \/ Endpoints(realm.kpasswd) = said.kpasswd
       \/ \E i \in DOMAIN realm.kpasswd : Listed(realm.kpasswd)[i] = Malformed

\* Realm::parse takes the servers that its block names.
LEMMA RealmAsDeclared ==
    ASSUME NEW text \in Seq(Lines), NEW o \in 1 .. Len(text), NEW c \in o + 1 .. Len(text), NEW B,
           ClosedBlock(text, o, c, B), NEW name \in RealmNames, NEW realm, realm = Realm_parse(name, text, B), realm.ok
    PROVE  AsDeclared(realm, DeclaredIn(text, o))
<1>1. PICK lists : lists = ListsRead(text, B)[Len(text)]
  OBVIOUS
<1>2. /\ realm \in RealmEntries /\ lists \in ListSets /\ realm.kdc = lists.kdc.servers
      /\ realm.kpasswd = IF lists.kpasswd.servers # <<>> THEN lists.kpasswd.servers
                         ELSE KpasswdFallback(lists.admin.servers)
  BY <1>1, RealmParsed
<1>3. PICK kdc, own, admin : /\ kdc = ServersOn(text, ServerLines(text, o, "kdc"))
                             /\ own = ServersOn(text, ServerLines(text, o, "kpasswd_server"))
                             /\ admin = ServersOn(text, ServerLines(text, o, "admin_server"))
  OBVIOUS
<1>4. lists.ok
  <2>1. lists.ok \in {TRUE}
    BY <1>2 DEF ListSets
  <2> QED
    BY <2>1
<1>5. /\ Like(lists.kdc.servers, kdc, 88) /\ kdc \in Seq(ServerValues)
      /\ Like(lists.kpasswd.servers, own, 0) /\ own \in Seq(ServerValues)
      /\ Like(lists.admin.servers, admin, 0) /\ admin \in Seq(ServerValues)
  BY <1>1, <1>3, <1>4, RealmLists
<1>6. /\ lists.kdc.servers \in Seq(ServerRecords) /\ lists.kpasswd.servers \in Seq(ServerRecords)
      /\ lists.admin.servers \in Seq(ServerRecords)
  BY <1>2 DEF ListSets, ServerLists
<1>7. PICK said : said = DeclaredIn(text, o)
  OBVIOUS
<1>8. /\ said.kdc = [i \in DOMAIN kdc |-> <<kdc[i].host, IF kdc[i].port = 0 THEN 88 ELSE kdc[i].port>>]
      /\ said.kpasswd = IF own # <<>> THEN [i \in DOMAIN own |-> <<own[i].host, own[i].port>>]
                        ELSE [i \in DOMAIN admin |-> <<admin[i].host, 464>>]
  BY <1>3, <1>7 DEF DeclaredIn
<1>9. Endpoints(realm.kdc) = said.kdc
  <2>1. PICK servers : servers = lists.kdc.servers
    OBVIOUS
  <2>2. Endpoints(servers) = [i \in DOMAIN kdc |-> <<kdc[i].host, IF kdc[i].port = 0 THEN 88 ELSE kdc[i].port>>]
    <3>1. servers \in Seq(ServerRecords) /\ kdc \in Seq(ServerValues) /\ Like(servers, kdc, 88)
      BY <1>5, <1>6, <2>1
    <3> QED
      BY ONLY <3>1, EndpointsLike
  <2> QED
    BY <1>2, <1>8, <2>1, <2>2
<1>10. CASE own # <<>>
  <2>1. /\ Endpoints(lists.kpasswd.servers)
             = [i \in DOMAIN own |-> <<own[i].host, IF own[i].port = 0 THEN 0 ELSE own[i].port>>]
        /\ lists.kpasswd.servers # <<>>
    <3>1. PICK servers : servers = lists.kpasswd.servers
      OBVIOUS
    <3>2. servers \in Seq(ServerRecords) /\ own \in Seq(ServerValues) /\ Like(servers, own, 0)
      BY <1>5, <1>6, <3>1
    <3>3. /\ Endpoints(servers) = [i \in DOMAIN own |-> <<own[i].host, IF own[i].port = 0 THEN 0 ELSE own[i].port>>]
          /\ servers # <<>>
      BY ONLY <1>10, <3>2, EndpointsLike
    <3> QED
      BY <3>1, <3>3
  <2>2. \A i \in DOMAIN own : (IF own[i].port = 0 THEN 0 ELSE own[i].port) = own[i].port
    OBVIOUS
  <2>3. Endpoints(realm.kpasswd) = said.kpasswd
    BY <1>2, <1>8, <1>10, <2>1, <2>2
  <2> QED
    BY <1>7, <1>9, <2>3 DEF AsDeclared
<1>11. CASE own = <<>>
  <2>1. PICK mine : mine = lists.admin.servers
    OBVIOUS
  <2>2. lists.kpasswd.servers = <<>>
    BY <1>5, <1>6, <1>11, EndpointsLike
  <2>3. realm.kpasswd = KpasswdFallback(mine)
    BY <1>2, <2>1, <2>2
  <2>4. DOMAIN mine = 1 .. Len(admin) /\ DOMAIN admin = 1 .. Len(admin)
    BY <1>5, <1>6, <2>1 DEF Like
  <2>5. /\ DOMAIN realm.kpasswd = 1 .. Len(admin)
        /\ \A i \in 1 .. Len(admin) : /\ realm.kpasswd[i].host = IF mine[i].literal THEN 0 ELSE mine[i].host
                                      /\ realm.kpasswd[i].port = 464
    <3>1. PICK own464 : own464 = [i \in 1 .. Len(admin) |->
             [host |-> IF mine[i].literal THEN 0 ELSE mine[i].host, port |-> 464, literal |-> FALSE]]
      OBVIOUS
    <3>2. realm.kpasswd = own464
      BY <2>3, <2>4, <3>1 DEF KpasswdFallback
    <3>3. /\ DOMAIN own464 = 1 .. Len(admin)
          /\ \A i \in 1 .. Len(admin) : own464[i].host = (IF mine[i].literal THEN 0 ELSE mine[i].host) /\ own464[i].port = 464
      BY ONLY <3>1
    <3> QED
      BY ONLY <3>2, <3>3
  <2>6. \A i \in 1 .. Len(admin) : mine[i].host = admin[i].host
    BY <1>5, <2>1 DEF Like
  <2>7. CASE \E i \in 1 .. Len(admin) : mine[i].literal
    <3>1. PICK i \in 1 .. Len(admin) : mine[i].literal
      BY <2>7
    <3>2. realm.kpasswd[i].host = 0
      BY <2>5, <3>1
    <3>3. Listed(realm.kpasswd)[i] = Malformed /\ i \in DOMAIN realm.kpasswd
      BY <2>5, <3>2 DEF Listed
    <3> QED
      BY <1>7, <1>9, <3>3 DEF AsDeclared
  <2>8. CASE ~ \E i \in 1 .. Len(admin) : mine[i].literal
    <3>1. \A i \in 1 .. Len(admin) : realm.kpasswd[i].host = admin[i].host /\ realm.kpasswd[i].port = 464
      BY <2>5, <2>6, <2>8
    <3>2. Endpoints(realm.kpasswd) = [i \in 1 .. Len(admin) |-> <<admin[i].host, 464>>]
      BY <2>5, <3>1 DEF Endpoints
    <3>3. Endpoints(realm.kpasswd) = said.kpasswd
      BY <1>8, <1>11, <2>4, <3>2
    <3> QED
      BY <1>7, <1>9, <3>3 DEF AsDeclared
  <2> QED
    BY <2>7, <2>8
<1> QED
  BY <1>10, <1>11

\* A realm without a block has no servers.
LEMMA NothingDeclared ==
    ASSUME NEW text \in Seq(Lines)
    PROVE  DeclaredIn(text, 0).kdc = <<>> /\ DeclaredIn(text, 0).kpasswd = <<>>
<1>1. \A key : ServersOn(text, ServerLines(text, 0, key)) = <<>>
  <2>1. \A key : ServerLines(text, 0, key) = {}
    BY DEF ServerLines
  <2> QED
    BY <2>1, NoServersOn
<1>2. PICK said, none : said = DeclaredIn(text, 0) /\ none = <<>>
  OBVIOUS
<1>3. /\ said.kdc = [i \in DOMAIN none |-> <<none[i].host, IF none[i].port = 0 THEN 88 ELSE none[i].port>>]
      /\ said.kpasswd = [i \in DOMAIN none |-> <<none[i].host, 464>>]
  BY <1>1, <1>2 DEF DeclaredIn
<1>4. said.kdc = <<>> /\ said.kpasswd = <<>>
  BY <1>2, <1>3
<1> QED
  BY <1>2, <1>4

-----------------------------------------------------------------------------
(* The realms of a section.                                                 *)

\* What comes first of some places is the first of them.
LEMMA FirstOfIs ==
    ASSUME NEW places \in SUBSET Nat, NEW x \in places, \A y \in places : x <= y
    PROVE  FirstOf(places) = x
<1>1. FirstOf(places) \in places /\ \A j \in places : FirstOf(places) <= j
  BY FirstOfFacts
<1>2. FirstOf(places) <= x /\ x <= FirstOf(places) /\ x \in Nat /\ FirstOf(places) \in Nat
  BY <1>1
<1> QED
  BY <1>2

\* A later place does not come first.
LEMMA FirstOfMore ==
    ASSUME NEW places \in SUBSET Nat, places # {}, NEW x \in Nat, \A y \in places : y < x
    PROVE  FirstOf(places \cup {x}) = FirstOf(places)
<1>1. PICK f : f = FirstOf(places)
  OBVIOUS
<1>2. f \in places /\ f \in Nat /\ \A j \in places : f <= j
  BY <1>1, FirstOfFacts
<1>3. places \cup {x} \in SUBSET Nat /\ f \in places \cup {x} /\ \A y \in places \cup {x} : f <= y
  BY <1>2
<1> QED
  BY <1>1, <1>3, FirstOfIs

\* Lines that open a block of realm r after header L, up to line n.
Opens(text, L, n, r) ==
    {j \in L + 1 .. n : text[j].kind = "open" /\ text[j].key = r /\ Depth(text, L, j - 1) = 0}
EntriesOf(realms, r) == {k \in DOMAIN realms : realms[k].realm = r}

\* The realms are those whose blocks are there, each with the servers of its
\* first block.
Entered(text, L, n, realms) ==
    \A r : /\ Opens(text, L, n, r) = {} <=> EntriesOf(realms, r) = {}
           /\ Opens(text, L, n, r) # {} =>
                 AsDeclared(realms[FirstOf(EntriesOf(realms, r))], DeclaredIn(text, FirstOf(Opens(text, L, n, r))))

\* One more realm.
LEMMA EnteredStep ==
    ASSUME NEW text, NEW L \in Nat, NEW n \in Nat, NEW i \in Nat, L <= n, n + 1 < i,
           NEW realms \in Seq(RealmEntries), NEW realm \in RealmEntries, Entered(text, L, n, realms),
           AsDeclared(realm, DeclaredIn(text, n + 1)),
           realm.realm = text[n + 1].key, text[n + 1].kind = "open", Depth(text, L, n) = 0,
           \A k \in n + 1 .. i - 1 : Depth(text, L, k) > 0
    PROVE  Entered(text, L, i, Append(realms, realm))
<1>1. PICK m, more : m = Len(realms) /\ more = Append(realms, realm) /\ m \in Nat /\ DOMAIN realms = 1 .. m
  <2>1. Len(realms) \in Nat /\ DOMAIN realms = 1 .. Len(realms)
    OBVIOUS
  <2> QED
    BY <2>1, Zenon
<1>2. DOMAIN more = 1 .. m + 1 /\ more[m + 1] = realm /\ \A k \in 1 .. m : more[k] = realms[k]
  BY <1>1, AppendProperties
<1>3. SUFFICES ASSUME NEW r
               PROVE  /\ Opens(text, L, i, r) = {} <=> EntriesOf(more, r) = {}
                      /\ Opens(text, L, i, r) # {} =>
                            AsDeclared(more[FirstOf(EntriesOf(more, r))], DeclaredIn(text, FirstOf(Opens(text, L, i, r))))
  BY <1>1 DEF Entered
<1>4. PICK A, E : A = Opens(text, L, n, r) /\ E = EntriesOf(realms, r)
  OBVIOUS
<1>5. /\ A \in SUBSET Nat /\ E \in SUBSET Nat /\ (\A y \in A : y < n + 1) /\ (\A y \in E : y < m + 1 /\ y \in 1 .. m)
  BY <1>1, <1>4 DEF Opens, EntriesOf
<1>6. (A = {} <=> E = {}) /\ (A # {} => AsDeclared(realms[FirstOf(E)], DeclaredIn(text, FirstOf(A))))
  BY <1>4 DEF Entered
<1>7. Opens(text, L, i, r) = IF text[n + 1].key = r THEN A \cup {n + 1} ELSE A
  <2>1. ASSUME NEW j \in Opens(text, L, i, r) PROVE j \in A \/ (j = n + 1 /\ text[n + 1].key = r)
    <3>1. j \in L + 1 .. i /\ text[j].kind = "open" /\ text[j].key = r /\ Depth(text, L, j - 1) = 0
      BY DEF Opens
    <3>2. ~ (j > n + 1)
      <4>1. SUFFICES ASSUME j > n + 1 PROVE FALSE
        OBVIOUS
      <4>2. j - 1 \in n + 1 .. i - 1
        BY <3>1, <4>1
      <4>3. Depth(text, L, j - 1) > 0
        BY <4>2
      <4> QED
        BY <3>1, <4>3
    <3>3. j = n + 1 \/ j \in L + 1 .. n
      BY <3>1, <3>2
    <3> QED
      BY <1>4, <3>1, <3>3 DEF Opens
  <2>2. ASSUME NEW j \in A PROVE j \in Opens(text, L, i, r)
    BY <1>4 DEF Opens
  <2>3. text[n + 1].key = r => n + 1 \in Opens(text, L, i, r)
    <3>1. n + 1 \in L + 1 .. i /\ (n + 1) - 1 = n
      OBVIOUS
    <3> QED
      BY <3>1 DEF Opens
  <2> QED
    BY <2>1, <2>2, <2>3
<1>8. EntriesOf(more, r) = IF text[n + 1].key = r THEN E \cup {m + 1} ELSE E
  <2>1. ASSUME NEW k \in 1 .. m + 1 PROVE k \in 1 .. m \/ k = m + 1
    BY <1>1
  <2>2. \A k \in 1 .. m : k \in 1 .. m + 1
    BY <1>1
  <2>3. m + 1 \in 1 .. m + 1 /\ m + 1 \notin 1 .. m
    BY <1>1
  <2> QED
    BY <1>1, <1>2, <1>4, <2>1, <2>2, <2>3 DEF EntriesOf
<1>9. CASE A # {}
  <2>1. PICK a, e : a = FirstOf(A) /\ e = FirstOf(E)
    OBVIOUS
  <2>2. FirstOf(A \cup {n + 1}) = a /\ FirstOf(E \cup {m + 1}) = e
    <3>1. n + 1 \in Nat /\ m + 1 \in Nat /\ E # {}
      BY <1>1, <1>6, <1>9
    <3>2. FirstOf(A \cup {n + 1}) = FirstOf(A)
      BY ONLY <1>5, <1>9, <3>1, FirstOfMore
    <3>3. FirstOf(E \cup {m + 1}) = FirstOf(E)
      BY ONLY <1>5, <3>1, FirstOfMore
    <3> QED
      BY <2>1, <3>2, <3>3
  <2>3. FirstOf(Opens(text, L, i, r)) = a /\ FirstOf(EntriesOf(more, r)) = e
    BY <1>7, <1>8, <2>1, <2>2
  <2>4. e \in E
    BY <1>5, <1>6, <1>9, <2>1, FirstOfFacts
  <2>5. more[e] = realms[e]
    BY <1>2, <1>5, <2>4
  <2>6. Opens(text, L, i, r) # {} /\ EntriesOf(more, r) # {}
    BY <1>6, <1>7, <1>8, <1>9
  <2> QED
    BY <1>6, <1>9, <2>1, <2>3, <2>5, <2>6
<1>10. CASE A = {} /\ text[n + 1].key = r
  <2>1. Opens(text, L, i, r) = {n + 1} /\ EntriesOf(more, r) = {m + 1}
    BY <1>6, <1>7, <1>8, <1>10
  <2>2. FirstOf({n + 1}) = n + 1 /\ FirstOf({m + 1}) = m + 1
    <3>1. \A x \in Nat : {x} \in SUBSET Nat /\ x \in {x} /\ \A y \in {x} : x <= y
      OBVIOUS
    <3> QED
      BY <1>1, <3>1, FirstOfIs
  <2> QED
    BY <1>2, <2>1, <2>2
<1>11. CASE A = {} /\ text[n + 1].key # r
  BY <1>6, <1>7, <1>8, <1>11
<1> QED
  BY <1>9, <1>10, <1>11

\* Where the loops of parse_realms stand after line i: the blocks up to line n
\* are read, and one that begins after it is not yet closed.
RealmsAt(text, L, i, acc, n) ==
    /\ n \in L .. i /\ Depth(text, L, n) = 0 /\ Entered(text, L, n, acc.realms)
    /\ acc.depth = Depth(text, L, i)
    /\ acc.depth = 0 => n = i
    /\ acc.depth > 0 =>
          /\ n + 1 <= i /\ text[n + 1].kind = "open" /\ acc.name = text[n + 1].key
          /\ \A k \in n + 1 .. i : Depth(text, L, k) > 0
          /\ acc.block = {k \in n + 2 .. i : text[k].kind # "close" /\ Depth(text, L, k - 1) = 1}

\* A line of the section keeps the realms as the text has them.
LEMMA RealmsAtStep ==
    ASSUME NEW text \in Seq(Lines), NEW L \in Nat \ {0}, NEW i \in L + 1 .. Len(text), NEW acc \in RealmReads,
           acc.ok => \E n : RealmsAt(text, L, i - 1, acc, n),
           NEW next, next = ReadRealmLine(acc, text, i), next.ok
    PROVE  \E n : RealmsAt(text, L, i, next, n)
<1>1. i \in 1 .. Len(text) /\ i \in Nat /\ L <= i /\ i <= Len(text)
  OBVIOUS
<1>2. acc.ok /\ next \in RealmReads
      /\ (Begins(acc, text, i, next) \/ GoesOn(acc, text, i, next) \/ Ends(acc, text, i, next))
  <2>1. PICK step : step = ReadRealmLine(acc, text, i)
    OBVIOUS
  <2>2. step \in RealmReads /\ (step.ok => acc.ok /\ (Begins(acc, text, i, step) \/ GoesOn(acc, text, i, step)
                                                      \/ Ends(acc, text, i, step)))
    BY ONLY <1>1, <2>1, acc \in RealmReads, text \in Seq(Lines), RealmStep, Zenon
  <2>3. step = next
    BY <2>1
  <2> QED
    BY ONLY <2>2, <2>3, next.ok
<1>3. PICK n : RealmsAt(text, L, i - 1, acc, n)
  BY <1>2
<1>4. /\ n \in L .. i - 1 /\ Depth(text, L, n) = 0 /\ Entered(text, L, n, acc.realms)
      /\ acc.depth = Depth(text, L, i - 1)
      /\ acc.depth = 0 => n = i - 1
      /\ acc.depth > 0 =>
            /\ n + 1 <= i - 1 /\ text[n + 1].kind = "open" /\ acc.name = text[n + 1].key
            /\ \A k \in n + 1 .. i - 1 : Depth(text, L, k) > 0
            /\ acc.block = {k \in n + 2 .. i - 1 : text[k].kind # "close" /\ Depth(text, L, k - 1) = 1}
  BY <1>3 DEF RealmsAt
<1>5. acc \in RealmStates
  BY <1>2, RealmCases
<1>6. acc.depth \in Nat
  BY <1>5, RealmStateFields
<1>7. Depth(text, L, i) \in Int /\ Depth(text, L, i) = acc.depth + brace_delta(text[i])
  BY <1>1, <1>4, DepthStep
<1>8. text[i] \in Lines
  BY <1>1
<1>9. CASE Begins(acc, text, i, next)
  <2>1. /\ acc.depth = 0 /\ text[i].kind = "open"
        /\ next.depth = 1 /\ next.name = text[i].key /\ next.block = {} /\ next.realms = acc.realms
    BY <1>9 DEF Begins
  <2>2. brace_delta(text[i]) = 1
    BY <1>8, <2>1, DeltaFacts
  <2>3. Depth(text, L, i) = 1
    BY <1>7, <2>1, <2>2
  <2>4. n = i - 1 /\ n + 1 = i /\ n \in L .. i
    BY <1>1, <1>4, <2>1
  <2>5. \A k \in n + 1 .. i : Depth(text, L, k) > 0
    <3>1. \A k \in n + 1 .. i : k = i
      BY <1>1, <2>4
    <3> QED
      BY <2>3, <3>1
  <2>6. next.block = {k \in n + 2 .. i : text[k].kind # "close" /\ Depth(text, L, k - 1) = 1}
    <3>1. n + 2 .. i = {}
      BY <1>1, <2>4
    <3> QED
      BY <2>1, <3>1
  <2>7. n + 1 <= i /\ text[n + 1].kind = "open" /\ next.name = text[n + 1].key
    BY <1>1, <2>1, <2>4
  <2>8. RealmsAt(text, L, i, next, n)
    BY <1>4, <2>1, <2>3, <2>4, <2>5, <2>6, <2>7 DEF RealmsAt
  <2> QED
    BY <2>8
<1>10. CASE GoesOn(acc, text, i, next)
  <2>1. /\ acc.depth > 0 /\ next.depth = acc.depth + brace_delta(text[i]) /\ next.depth > 0
        /\ next.name = acc.name /\ next.realms = acc.realms
        /\ next.block = IF acc.depth = 1 /\ text[i].kind # "close" THEN acc.block \cup {i} ELSE acc.block
    BY <1>10 DEF GoesOn
  <2>2. n \in L .. i /\ n + 1 <= i /\ n \in Nat /\ n + 2 <= i
    BY <1>1, <1>4, <2>1
  <2>3. next.depth = Depth(text, L, i)
    BY <1>7, <2>1
  <2>4. \A k \in n + 1 .. i : Depth(text, L, k) > 0
    <3>1. \A k \in n + 1 .. i : k = i \/ k \in n + 1 .. i - 1
      BY <1>1, <2>2
    <3> QED
      BY <1>4, <2>1, <2>3, <3>1
  <2>5. next.block = {k \in n + 2 .. i : text[k].kind # "close" /\ Depth(text, L, k - 1) = 1}
    <3>1. \A k : k \in n + 2 .. i <=> k = i \/ k \in n + 2 .. i - 1
      BY <1>1, <2>2
    <3>2. i \notin n + 2 .. i - 1
      BY <1>1
    <3> QED
      BY <1>4, <2>1, <3>1, <3>2
  <2>6. RealmsAt(text, L, i, next, n)
    BY <1>4, <2>1, <2>2, <2>3, <2>4, <2>5 DEF RealmsAt
  <2> QED
    BY <2>6
<1>11. CASE Ends(acc, text, i, next)
  <2>1. PICK realm : realm = Realm_parse(acc.name, text, acc.block)
    OBVIOUS
  <2>2. /\ acc.depth = 1 /\ text[i].kind = "close" /\ next.depth = 0
        /\ realm.ok /\ realm \in RealmEntries /\ realm.realm = acc.name /\ next.realms = Append(acc.realms, realm)
    BY <1>11, <2>1 DEF Ends
  <2>3. PICK o : o = n + 1 /\ o \in 1 .. Len(text) /\ i \in o + 1 .. Len(text) /\ o - 1 = n /\ o \in Nat /\ L <= o
    BY <1>1, <1>4, <2>2
  <2>4. brace_delta(text[i]) = 0 - 1
    BY <1>8, <2>2, DeltaFacts
  <2>5. Depth(text, L, i) = 0
    BY <1>7, <2>2, <2>4
  <2>6. \A k \in 0 .. Len(text) : k >= o - 1 => Depth(text, L, k) = Depth(text, o, k)
    BY <1>4, <2>3, DepthSplit
  <2>7. ClosedBlock(text, o, i, acc.block)
    <3>1. ASSUME NEW k \in o .. i - 1 PROVE Depth(text, o, k) > 0
      <4>1. k \in 0 .. Len(text) /\ k >= o - 1 /\ k \in n + 1 .. i - 1
        BY <1>1, <2>3
      <4> QED
        BY <1>4, <2>2, <2>6, <4>1
    <3>2. Depth(text, o, i) = 0
      <4>1. i \in 0 .. Len(text) /\ i >= o - 1
        BY <1>1, <2>3
      <4> QED
        BY <2>5, <2>6, <4>1
    <3>3. acc.block = {k \in o + 1 .. i - 1 : text[k].kind # "close" /\ Depth(text, o, k - 1) = 1}
      <4>1. o + 1 = n + 2
        BY <1>4, <2>3
      <4>2. acc.block = {k \in o + 1 .. i - 1 : text[k].kind # "close" /\ Depth(text, L, k - 1) = 1}
        BY <1>4, <2>2, <4>1
      <4>3. ASSUME NEW k \in o + 1 .. i - 1 PROVE Depth(text, L, k - 1) = Depth(text, o, k - 1)
        <5>1. k - 1 \in 0 .. Len(text) /\ k - 1 >= o - 1
          BY <1>1, <2>3
        <5> QED
          BY <2>6, <5>1
      <4> QED
        BY <4>2, <4>3
    <3> QED
      BY <3>1, <3>2, <3>3 DEF ClosedBlock
  <2>8. acc.name \in RealmNames /\ acc.realms \in Seq(RealmEntries)
    BY <1>5, <2>2, RealmStateFields
  <2>9. AsDeclared(realm, DeclaredIn(text, o))
    BY <2>1, <2>2, <2>3, <2>7, <2>8, RealmAsDeclared
  <2>10. Entered(text, L, i, next.realms)
    <3>1. n \in Nat /\ L <= n /\ n + 1 < i
      BY <1>1, <1>4, <2>2
    <3>2. \A k \in n + 1 .. i - 1 : Depth(text, L, k) > 0
      BY <1>4, <2>2
    <3>3. realm.realm = text[n + 1].key /\ text[n + 1].kind = "open"
      BY <1>4, <2>2
    <3>4. Entered(text, L, i, Append(acc.realms, realm))
      BY <1>1, <1>4, <2>2, <2>3, <2>8, <2>9, <3>1, <3>2, <3>3, EnteredStep
    <3> QED
      BY <2>2, <3>4
  <2>11. RealmsAt(text, L, i, next, i)
    <3>1. i \in L .. i
      BY <1>1
    <3> QED
      BY <2>2, <2>5, <2>10, <3>1 DEF RealmsAt
  <2> QED
    BY <2>11
<1> QED
  BY <1>2, <1>9, <1>10, <1>11

\* What a section of realms, from header L to line e, says.
LEMMA RealmsEntered ==
    ASSUME NEW text \in Seq(Lines), NEW L \in 1 .. Len(text), text[L].kind = "section", NEW e \in L .. Len(text),
           NEW read, read = RealmsRead(text, L + 1, e)[e], read.ok, read.depth = 0
    PROVE  Entered(text, L, e, read.realms)
<1>1. PICK all : all = RealmsRead(text, L + 1, e)
  OBVIOUS
<1>2. L + 1 \in Nat \ {0} /\ e \in 0 .. Len(text)
  OBVIOUS
<1>3. /\ all \in [0 .. e -> RealmReads]
      /\ \A i \in 0 .. e : i < L + 1 => all[i] = NoRealms
      /\ \A i \in L + 1 .. e : all[i] = ReadRealmLine(all[i - 1], text, i)
  BY <1>1, <1>2, RealmsFacts
<1> DEFINE S == {i \in 0 .. e : i >= L => (all[i].ok => \E n : RealmsAt(text, L, i, all[i], n))}
<1>4. L \in S
  <2>1. L \in 0 .. e /\ L < L + 1 /\ all[L] = NoRealms
    BY <1>2, <1>3
  <2>2. NoRealms.depth = 0 /\ NoRealms.realms = <<>>
    BY DEF NoRealms, RealmState
  <2>3. Depth(text, L, L) = 0
    <3>1. Depth(text, L, L) = Depth(text, L, L - 1) + brace_delta(text[L])
      BY DepthStep
    <3>2. Depth(text, L, L - 1) = 0
      BY DepthNone
    <3>3. brace_delta(text[L]) = 0
      BY DeltaFacts
    <3> QED
      BY <3>1, <3>2, <3>3
  <2>4. Entered(text, L, L, <<>>)
    <3>1. \A r : Opens(text, L, L, r) = {} /\ EntriesOf(<<>>, r) = {}
      BY DEF Opens, EntriesOf
    <3> QED
      BY <3>1 DEF Entered
  <2>5. RealmsAt(text, L, L, NoRealms, L)
    BY <2>2, <2>3, <2>4 DEF RealmsAt
  <2> QED
    BY <2>1, <2>5
<1>5. 0 \in S
  <2>1. 0 \in 0 .. e /\ ~ (0 >= L)
    BY <1>2
  <2> QED
    BY <2>1
<1>6. ASSUME NEW i \in 1 .. e, i - 1 \in S PROVE i \in S
  <2>1. i \in 0 .. e /\ i - 1 \in 0 .. e
    OBVIOUS
  <2>2. CASE i < L
    BY <2>1, <2>2
  <2>3. CASE i = L
    BY <1>4, <2>3
  <2>4. CASE i > L
    <3>1. i \in L + 1 .. e /\ i \in L + 1 .. Len(text) /\ i - 1 >= L /\ L \in Nat \ {0}
      BY <2>4
    <3>2. all[i - 1].ok => \E n : RealmsAt(text, L, i - 1, all[i - 1], n)
      BY <1>6, <3>1
    <3>3. all[i - 1] \in RealmReads /\ all[i] = ReadRealmLine(all[i - 1], text, i)
      BY <1>3, <2>1, <3>1
    <3>4. all[i].ok => \E n : RealmsAt(text, L, i, all[i], n)
      BY <3>1, <3>2, <3>3, RealmsAtStep
    <3> QED
      BY <2>1, <3>4
  <2> QED
    BY <2>2, <2>3, <2>4
<1>7. e \in S
  <2>1. e \in Nat
    OBVIOUS
  <2>2. \A i \in 0 .. e : i \in S
    <3> HIDE DEF S
    <3> QED
      BY <1>5, <1>6, <2>1, Induct
  <2> QED
    BY <2>1, <2>2
<1>8. PICK n : RealmsAt(text, L, e, read, n)
  BY <1>1, <1>7
<1> QED
  BY <1>8 DEF RealmsAt

-----------------------------------------------------------------------------
(* What a text says up to some line.                                        *)

IsRealms(text, i) == text[i].kind = "section" /\ text[i].name = "realms"
MappingLine(text, i) == InSection(text, i, "domain_realm")
LastMapping(text, n, i) ==
    /\ MappingLine(text, i)
    /\ \A j \in i + 1 .. n : MappingLine(text, j) => Domain(text[j]) # Domain(text[i])
MappingOn(line) == [domain |-> Domain(line), realm |-> Target(line)]

\* The last mapping of every domain.
MappedUpTo(text, n) == {MappingOn(text[i]) : i \in {k \in 1 .. n : LastMapping(text, n, k)}}

\* The realms of the last section of realms.
RealmsUpTo(text, n, realms) ==
    \/ realms = <<>> /\ \A i \in 1 .. n : ~ IsRealms(text, i)
    \/ \E L \in 1 .. n : \E e \in L .. n :
          /\ IsRealms(text, L) /\ \A i \in L + 1 .. n : ~ IsRealms(text, i)
          /\ \A i \in L + 1 .. e : text[i].kind # "section"
          /\ \A i \in e + 1 .. n : Header(text, i) # L
          /\ Entered(text, L, e, realms)

\* Lines that map nothing change nothing.
LEMMA MappedSkip ==
    ASSUME NEW text, NEW n \in Nat, NEW m \in Nat, n <= m, \A i \in n + 1 .. m : ~ MappingLine(text, i)
    PROVE  MappedUpTo(text, m) = MappedUpTo(text, n)
<1>1. ASSUME NEW k \in 1 .. m PROVE LastMapping(text, m, k) <=> k \in 1 .. n /\ LastMapping(text, n, k)
  <2>1. k \in 1 .. n \/ k \in n + 1 .. m
    OBVIOUS
  <2>2. CASE k \in n + 1 .. m
    <3>1. k \notin 1 .. n
      BY <2>2
    <3> QED
      BY <2>2, <3>1 DEF LastMapping
  <2>3. CASE k \in 1 .. n
    <3>1. \A j : j \in k + 1 .. m <=> j \in k + 1 .. n \/ j \in n + 1 .. m
      BY <2>3
    <3> QED
      BY <2>3, <3>1 DEF LastMapping
  <2> QED
    BY <2>1, <2>2, <2>3
<1>2. \A k \in 1 .. n : k \in 1 .. m
  OBVIOUS
<1>3. {k \in 1 .. m : LastMapping(text, m, k)} = {k \in 1 .. n : LastMapping(text, n, k)}
  BY <1>1, <1>2
<1> QED
  BY <1>3 DEF MappedUpTo

\* A mapping replaces the one of its domain.
LEMMA MappedAdd ==
    ASSUME NEW text, NEW i \in Nat \ {0}, MappingLine(text, i)
    PROVE  MappedUpTo(text, i) = {m \in MappedUpTo(text, i - 1) : m.domain # Domain(text[i])} \cup {MappingOn(text[i])}
<1>1. PICK K, J : K = {k \in 1 .. i : LastMapping(text, i, k)} /\ J = {k \in 1 .. i - 1 : LastMapping(text, i - 1, k)}
  OBVIOUS
<1>2. i \in K
  <2>1. i + 1 .. i = {} /\ i \in 1 .. i
    OBVIOUS
  <2> QED
    BY <1>1, <2>1 DEF LastMapping
<1>3. ASSUME NEW k \in 1 .. i - 1 PROVE k \in K <=> k \in J /\ Domain(text[k]) # Domain(text[i])
  <2>1. \A j : j \in k + 1 .. i <=> j \in k + 1 .. i - 1 \/ j = i
    OBVIOUS
  <2>2. k \in 1 .. i
    OBVIOUS
  <2> QED
    BY <1>1, <2>1, <2>2 DEF LastMapping
<1>4. \A k \in K : k = i \/ k \in 1 .. i - 1
  BY <1>1
<1>5. \A k \in J : k \in 1 .. i - 1
  BY <1>1
<1>6. \A line : MappingOn(line).domain = Domain(line)
  BY DEF MappingOn
<1>7. MappedUpTo(text, i) = {MappingOn(text[k]) : k \in K} /\ MappedUpTo(text, i - 1) = {MappingOn(text[k]) : k \in J}
  BY <1>1 DEF MappedUpTo
<1>8. ASSUME NEW m PROVE m \in MappedUpTo(text, i)
                          <=> (m \in MappedUpTo(text, i - 1) /\ m.domain # Domain(text[i])) \/ m = MappingOn(text[i])
  <2>1. ASSUME m \in MappedUpTo(text, i)
        PROVE  (m \in MappedUpTo(text, i - 1) /\ m.domain # Domain(text[i])) \/ m = MappingOn(text[i])
    <3>1. PICK k \in K : m = MappingOn(text[k])
      BY <1>7, <2>1
    <3>2. CASE k = i
      BY <3>1, <3>2
    <3>3. CASE k \in 1 .. i - 1
      <4>1. k \in J /\ Domain(text[k]) # Domain(text[i])
        BY <1>3, <3>3
      <4> QED
        BY <1>6, <1>7, <3>1, <4>1
    <3> QED
      BY <1>4, <3>2, <3>3
  <2>2. ASSUME m \in MappedUpTo(text, i - 1), m.domain # Domain(text[i]) PROVE m \in MappedUpTo(text, i)
    <3>1. PICK k \in J : m = MappingOn(text[k])
      BY <1>7, <2>2
    <3>2. Domain(text[k]) # Domain(text[i])
      BY <1>6, <2>2, <3>1
    <3>3. k \in K
      BY <1>3, <1>5, <3>2
    <3> QED
      BY <1>7, <3>1, <3>3
  <2>3. MappingOn(text[i]) \in MappedUpTo(text, i)
    BY <1>2, <1>7
  <2> QED
    BY <2>1, <2>2, <2>3
<1> QED
  BY <1>8

\* The lines of a section stand under its header.
LEMMA UnderHeader ==
    ASSUME NEW text \in Seq(Lines), NEW h \in 0 .. Len(text), NEW last \in h .. Len(text),
           h # 0 => text[h].kind = "section", \A j \in h + 1 .. last : text[j].kind # "section"
    PROVE  /\ \A i \in h .. last : Header(text, i) = h
           /\ \A i \in h + 1 .. last : MappingLine(text, i) <=> h # 0 /\ text[h].name = "domain_realm"
           /\ h # 0 => ~ MappingLine(text, h)
<1>1. ASSUME NEW i \in h .. last PROVE Header(text, i) = h
  <2>1. i \in 0 .. Len(text) /\ h \in 0 .. i /\ \A j \in h + 1 .. i : j \in h + 1 .. last
    OBVIOUS
  <2> QED
    BY <2>1, HeaderIs
<1>2. ASSUME NEW i \in h + 1 .. last PROVE MappingLine(text, i) <=> h # 0 /\ text[h].name = "domain_realm"
  <2>1. Header(text, i) = h
    BY <1>1
  <2>2. h > 0 <=> h # 0
    OBVIOUS
  <2> QED
    BY <2>1, <2>2 DEF MappingLine, InSection
<1>3. h # 0 => ~ MappingLine(text, h)
  BY DEF MappingLine, InSection
<1> QED
  BY <1>1, <1>2, <1>3

\* The mappings after a section.
LEMMA SectionMapped ==
    ASSUME NEW text \in Seq(Lines), NEW h \in 0 .. Len(text), NEW last \in h .. Len(text),
           h # 0 => text[h].kind = "section", \A j \in h + 1 .. last : text[j].kind # "section",
           NEW n, n = (IF h = 0 THEN 0 ELSE h - 1), NEW old \in Confs, old.domain_realm = MappedUpTo(text, n),
           NEW next, next = apply_section(old, SectionAt(text, h), text, h + 1, last), next.ok
    PROVE  next.domain_realm = MappedUpTo(text, last)
<1>1. /\ \A i \in h + 1 .. last : MappingLine(text, i) <=> h # 0 /\ text[h].name = "domain_realm"
      /\ h # 0 => ~ MappingLine(text, h)
  BY UnderHeader
<1>2. h + 1 \in Nat \ {0} /\ last \in 0 .. Len(text) /\ last \in Nat /\ n \in Nat /\ n <= last
  OBVIOUS
<1>3. PICK section : section = SectionAt(text, h)
  OBVIOUS
<1>4. next = apply_section(old, section, text, h + 1, last)
  BY <1>3
<1>5. IF section = "domain_realm" THEN next = MappingsRead(old, text, h + 1, last)[last]
      ELSE next.domain_realm = old.domain_realm
  BY <1>2, <1>4, SectionFacts
<1>6. section = "domain_realm" <=> h # 0 /\ text[h].name = "domain_realm"
  BY <1>3 DEF SectionAt
<1>7. CASE section # "domain_realm"
  <2>1. \A i \in n + 1 .. last : ~ MappingLine(text, i)
    <3>1. \A i \in n + 1 .. last : (h # 0 /\ i = h) \/ i \in h + 1 .. last
      BY <1>2
    <3> QED
      BY <1>1, <1>6, <1>7, <3>1
  <2> QED
    BY <1>2, <1>5, <1>7, <2>1, MappedSkip
<1>8. CASE section = "domain_realm"
  <2>1. PICK read : read = MappingsRead(old, text, h + 1, last)
    OBVIOUS
  <2>2. old \in ConfResults
    BY DEF ConfResults
  <2>3. /\ read \in [0 .. last -> ConfResults]
        /\ \A i \in 0 .. last : i < h + 1 => read[i] = old
        /\ \A i \in h + 1 .. last : read[i] = ReadMapping(read[i - 1], text[i])
    <3>1. PICK first : first = h + 1 /\ first \in Nat \ {0}
      BY <1>2
    <3>2. read = MappingsRead(old, text, first, last)
      BY <2>1, <3>1
    <3>3. /\ read \in [0 .. last -> ConfResults]
          /\ \A i \in 0 .. last : i < first => read[i] = old
          /\ \A i \in first .. last : read[i] = ReadMapping(read[i - 1], text[i])
      <4>1. /\ MappingsRead(old, text, first, last) \in [0 .. last -> ConfResults]
            /\ \A i \in 0 .. last : i < first => MappingsRead(old, text, first, last)[i] = old
            /\ \A i \in first .. last : MappingsRead(old, text, first, last)[i]
                  = ReadMapping(MappingsRead(old, text, first, last)[i - 1], text[i])
        BY ONLY <1>2, <2>2, <3>1, text \in Seq(Lines), MappingsFacts
      <4> QED
        BY ONLY <3>2, <4>1
    <3> QED
      BY ONLY <3>1, <3>3
  <2> DEFINE S == {i \in 0 .. last : i >= h => (read[i].ok => read[i].domain_realm = MappedUpTo(text, i))}
  <2>4. h \in S
    <3>1. h \in 0 .. last /\ h < h + 1 /\ h # 0 /\ n = h - 1 /\ h \in Nat /\ n <= h
      BY <1>2, <1>6, <1>8
    <3>2. \A i \in n + 1 .. h : ~ MappingLine(text, i)
      <4>1. \A i \in n + 1 .. h : i = h
        BY <3>1
      <4> QED
        BY <1>1, <3>1, <4>1
    <3>3. MappedUpTo(text, h) = MappedUpTo(text, n)
      BY <1>2, <3>1, <3>2, MappedSkip
    <3> QED
      BY <2>3, <3>1, <3>3
  <2>5. 0 \in S
    <3>1. 0 \in 0 .. last /\ ~ (0 >= h)
      BY <1>2, <1>6, <1>8
    <3> QED
      BY <3>1
  <2>6. ASSUME NEW i \in 1 .. last, i - 1 \in S PROVE i \in S
    <3>1. i \in 0 .. last /\ i - 1 \in 0 .. last
      BY <1>2
    <3>2. CASE i < h
      BY <3>1, <3>2
    <3>3. CASE i = h
      BY <2>4, <3>3
    <3>4. CASE i > h
      <4>1. i \in h + 1 .. last /\ i - 1 >= h /\ i \in Nat \ {0} /\ text[i] \in Lines
        BY <1>2, <3>4
      <4>2. read[i - 1].ok => read[i - 1].domain_realm = MappedUpTo(text, i - 1)
        BY <2>6, <4>1
      <4>3. read[i] = ReadMapping(read[i - 1], text[i]) /\ read[i - 1] \in ConfResults
        BY <2>3, <3>1, <4>1
      <4>4. read[i].ok => /\ read[i - 1].ok
                          /\ read[i].domain_realm
                                = {m \in read[i - 1].domain_realm : m.domain # Domain(text[i])}
                                  \cup {[domain |-> Domain(text[i]), realm |-> Target(text[i])]}
        <5>1. PICK before, line : before = read[i - 1] /\ line = text[i]
          OBVIOUS
        <5>2. PICK after : after = ReadMapping(before, line)
          OBVIOUS
        <5>3. after.ok => /\ before.ok
                          /\ after.domain_realm = {m \in before.domain_realm : m.domain # Domain(line)}
                                \cup {[domain |-> Domain(line), realm |-> Target(line)]}
          BY <4>1, <4>3, <5>1, <5>2, MappingStep
        <5> QED
          BY <4>3, <5>1, <5>2, <5>3
      <4>5. MappingLine(text, i)
        BY <1>1, <1>6, <1>8, <4>1
      <4>6. MappedUpTo(text, i) = {m \in MappedUpTo(text, i - 1) : m.domain # Domain(text[i])} \cup {MappingOn(text[i])}
        BY <4>1, <4>5, MappedAdd
      <4>7. read[i].ok => read[i].domain_realm = MappedUpTo(text, i)
        BY <4>2, <4>4, <4>6 DEF MappingOn
      <4> QED
        BY <3>1, <4>7
    <3> QED
      BY <3>2, <3>3, <3>4, <1>2
  <2>7. last \in S
    <3>1. \A i \in 0 .. last : i \in S
      <4> HIDE DEF S
      <4> QED
        BY <1>2, <2>5, <2>6, Induct
    <3>2. last \in 0 .. last
      BY <1>2
    <3> QED
      BY <3>1, <3>2
  <2>8. last >= h /\ read[last].ok /\ next = read[last]
    BY <1>2, <1>5, <1>8, <2>1
  <2> QED
    BY <2>7, <2>8
<1> QED
  BY <1>7, <1>8

\* The realms after a section.
LEMMA SectionRealms ==
    ASSUME NEW text \in Seq(Lines), NEW h \in 0 .. Len(text), NEW last \in h .. Len(text),
           h # 0 => text[h].kind = "section", \A j \in h + 1 .. last : text[j].kind # "section",
           NEW n, n = (IF h = 0 THEN 0 ELSE h - 1), NEW old \in Confs, RealmsUpTo(text, n, old.realms),
           NEW next, next = apply_section(old, SectionAt(text, h), text, h + 1, last), next.ok
    PROVE  RealmsUpTo(text, last, next.realms)
<1>1. \A i \in h .. last : Header(text, i) = h
  BY UnderHeader
<1>2. h + 1 \in Nat \ {0} /\ last \in 0 .. Len(text) /\ last \in Nat /\ n \in Nat /\ n <= last
  OBVIOUS
<1>3. PICK section, read : section = SectionAt(text, h) /\ read = RealmsRead(text, h + 1, last)[last]
  OBVIOUS
<1>4. next = apply_section(old, section, text, h + 1, last)
  BY <1>3
<1>5. IF section = "realms" THEN read.ok /\ read.depth = 0 /\ next.realms = read.realms
      ELSE next.realms = old.realms
  BY <1>2, <1>3, <1>4, SectionFacts
<1>6. section = "realms" <=> h # 0 /\ text[h].name = "realms"
  BY <1>3 DEF SectionAt
<1>7. CASE section = "realms"
  <2>1. h \in 1 .. Len(text) /\ text[h].kind = "section" /\ last \in h .. Len(text) /\ h \in 1 .. last /\ last \in h .. last
    BY <1>2, <1>6, <1>7
  <2>2. Entered(text, h, last, next.realms)
    BY <1>3, <1>5, <1>7, <2>1, RealmsEntered
  <2>3. IsRealms(text, h) /\ \A i \in h + 1 .. last : ~ IsRealms(text, i)
    BY <1>6, <1>7, <2>1 DEF IsRealms
  <2>4. \A i \in last + 1 .. last : Header(text, i) # h
    BY <1>2
  <2> QED
    BY <2>1, <2>2, <2>3, <2>4 DEF RealmsUpTo
<1>8. CASE section # "realms"
  <2>1. \A i \in n + 1 .. last : (h # 0 /\ i = h) \/ i \in h + 1 .. last
    BY <1>2
  <2>2. \A i \in n + 1 .. last : ~ IsRealms(text, i)
    BY <1>6, <1>8, <2>1 DEF IsRealms
  <2>3. CASE old.realms = <<>> /\ \A i \in 1 .. n : ~ IsRealms(text, i)
    <3>1. \A i \in 1 .. last : i \in 1 .. n \/ i \in n + 1 .. last
      BY <1>2
    <3> QED
      BY <1>5, <1>8, <2>2, <2>3, <3>1 DEF RealmsUpTo
  <2>4. CASE \E L \in 1 .. n : \E e \in L .. n :
               /\ IsRealms(text, L) /\ \A i \in L + 1 .. n : ~ IsRealms(text, i)
               /\ \A i \in L + 1 .. e : text[i].kind # "section"
               /\ \A i \in e + 1 .. n : Header(text, i) # L
               /\ Entered(text, L, e, old.realms)
    <3>1. PICK L \in 1 .. n : \E e \in L .. n :
               /\ IsRealms(text, L) /\ \A i \in L + 1 .. n : ~ IsRealms(text, i)
               /\ \A i \in L + 1 .. e : text[i].kind # "section"
               /\ \A i \in e + 1 .. n : Header(text, i) # L
               /\ Entered(text, L, e, old.realms)
      BY <2>4
    <3>2. PICK e \in L .. n :
               /\ IsRealms(text, L) /\ \A i \in L + 1 .. n : ~ IsRealms(text, i)
               /\ \A i \in L + 1 .. e : text[i].kind # "section"
               /\ \A i \in e + 1 .. n : Header(text, i) # L
               /\ Entered(text, L, e, old.realms)
      BY <3>1
    <3>3. L \in 1 .. last /\ e \in L .. last /\ h # 0 /\ L < h
      BY <1>2
    <3>4. \A i \in L + 1 .. last : i \in L + 1 .. n \/ i \in n + 1 .. last
      BY <1>2
    <3>5. \A i \in e + 1 .. last : Header(text, i) # L
      <4>1. \A i \in e + 1 .. last : i \in e + 1 .. n \/ i \in h .. last
        BY <1>2, <3>3
      <4>2. h # L
        BY <3>3
      <4> QED
        BY <1>1, <3>2, <4>1, <4>2
    <3>6. \A i \in L + 1 .. last : ~ IsRealms(text, i)
      BY <2>2, <3>2, <3>4
    <3> QED
      BY <1>5, <1>8, <3>2, <3>3, <3>5, <3>6 DEF RealmsUpTo
  <2> QED
    BY <2>3, <2>4 DEF RealmsUpTo
<1> QED
  BY <1>7, <1>8

\* Where Config::parse stands after a line.
Said(text, n, parsed) ==
    parsed.ok => RealmsUpTo(text, n, parsed.realms) /\ parsed.domain_realm = MappedUpTo(text, n)

\* A section that is applied brings what was said up to its last line.
LEMMA AppliedSaid ==
    ASSUME NEW text \in Seq(Lines), NEW h \in 0 .. Len(text), NEW last \in h .. Len(text),
           h # 0 => text[h].kind = "section", \A j \in h + 1 .. last : text[j].kind # "section",
           NEW old \in ConfResults, Said(text, IF h = 0 THEN 0 ELSE h - 1, old),
           NEW acc, acc = [conf |-> old, header |-> h]
    PROVE  Said(text, last, Applied(acc, text, last))
<1>1. PICK next : next = Applied(acc, text, last)
  OBVIOUS
<1>2. next = IF old.ok THEN apply_section(old, SectionAt(text, h), text, h + 1, last) ELSE Failed
  BY <1>1, AppliedIs
<1>3. CASE ~ old.ok
  BY <1>1, <1>2, <1>3 DEF Said, Failed
<1>4. CASE old.ok
  <2>1. PICK n : n = IF h = 0 THEN 0 ELSE h - 1
    OBVIOUS
  <2>2. old \in Confs /\ RealmsUpTo(text, n, old.realms) /\ old.domain_realm = MappedUpTo(text, n)
    BY <1>4, <2>1, ConfCases DEF Said
  <2>3. next = apply_section(old, SectionAt(text, h), text, h + 1, last)
    BY <1>2, <1>4
  <2>4. next.ok => RealmsUpTo(text, last, next.realms)
    BY <2>1, <2>2, <2>3, SectionRealms
  <2>5. next.ok => next.domain_realm = MappedUpTo(text, last)
    BY <2>1, <2>2, <2>3, SectionMapped
  <2> QED
    BY <1>1, <2>4, <2>5 DEF Said
<1> QED
  BY <1>3, <1>4

\* Config::parse says what the text says.
LEMMA ParsedSaid ==
    ASSUME NEW text \in Seq(Lines)
    PROVE  conf_parse(text) \in ConfResults /\ Said(text, Len(text), conf_parse(text))
<1>1. PICK n, read : n = Len(text) /\ read = SectionsRead(text) /\ n \in Nat
  OBVIOUS
<1>2. /\ read \in [0 .. n -> SectionStates]
      /\ read[0] = [conf |-> NewConf, header |-> 0]
      /\ \A i \in 1 .. n : read[i] = ReadLine(read[i - 1], text, i)
  BY <1>1, SectionsFacts
<1> DEFINE Before(h) == IF h = 0 THEN 0 ELSE h - 1
           S == {i \in 0 .. n : read[i].header = Header(text, i) /\ Said(text, Before(read[i].header), read[i].conf)}
<1>3. 0 \in S
  <2>1. read[0].header = 0 /\ read[0].conf = NewConf
    BY <1>2
  <2>2. Header(text, 0) = 0
    BY HeaderIs
  <2>3. RealmsUpTo(text, 0, NewConf.realms) /\ NewConf.domain_realm = MappedUpTo(text, 0)
    <3>1. NewConf.realms = <<>> /\ NewConf.domain_realm = {}
      BY DEF NewConf
    <3>2. 1 .. 0 = {}
      OBVIOUS
    <3>3. MappedUpTo(text, 0) = {}
      BY <3>2 DEF MappedUpTo
    <3> QED
      BY <3>1, <3>2, <3>3 DEF RealmsUpTo
  <2>4. Said(text, 0, NewConf)
    BY <2>3 DEF Said
  <2> QED
    BY <1>1, <2>1, <2>2, <2>4
<1>4. ASSUME NEW i \in 1 .. n, i - 1 \in S PROVE i \in S
  <2>1. i \in 0 .. n /\ i - 1 \in 0 .. n /\ i - 1 \in 0 .. Len(text) /\ i \in 0 .. Len(text)
    BY <1>1
  <2>2. PICK acc : acc = read[i - 1]
    OBVIOUS
  <2>3. /\ acc \in SectionStates /\ acc.header = Header(text, i - 1)
        /\ Said(text, IF acc.header = 0 THEN 0 ELSE acc.header - 1, acc.conf) /\ read[i] = ReadLine(acc, text, i)
    BY <1>2, <1>4, <2>1, <2>2
  <2>4. PICK old, h : old = acc.conf /\ h = acc.header
    OBVIOUS
  <2>5. old \in ConfResults /\ acc = [conf |-> old, header |-> h]
    BY <2>3, <2>4 DEF SectionStates
  <2>6. /\ h \in 0 .. i - 1 /\ (h # 0 => text[h].kind = "section")
        /\ \A j \in 1 .. i - 1 : text[j].kind = "section" => j <= h
    BY <2>1, <2>3, <2>4, HeaderFacts
  <2>7. h \in 0 .. Len(text) /\ i - 1 \in h .. Len(text) /\ \A j \in h + 1 .. i - 1 : text[j].kind # "section"
    <3>1. \A j \in h + 1 .. i - 1 : j \in 1 .. i - 1 /\ ~ (j <= h)
      BY <2>6
    <3> QED
      BY <2>1, <2>6, <3>1
  <2>8. CASE text[i].kind = "section"
    <3>1. read[i] = [conf |-> Applied(acc, text, i - 1), header |-> i]
      BY <2>3, <2>8 DEF ReadLine
    <3>2. Header(text, i) = i
      <4>1. i \in 0 .. i /\ \A j \in i + 1 .. i : text[j].kind # "section"
        BY <2>1
      <4> QED
        BY <2>1, <2>8, <4>1, HeaderIs
    <3>3. Said(text, i - 1, Applied(acc, text, i - 1))
      BY <2>3, <2>4, <2>5, <2>6, <2>7, AppliedSaid
    <3>4. Before(i) = i - 1
      BY <2>1
    <3>5. read[i].header = i /\ read[i].conf = Applied(acc, text, i - 1)
      BY <3>1
    <3> QED
      BY <2>1, <3>2, <3>3, <3>4, <3>5
  <2>9. CASE text[i].kind # "section"
    <3>1. read[i] = acc
      BY <2>3, <2>9 DEF ReadLine
    <3>2. Header(text, i) = h
      <4>1. h \in 0 .. i /\ \A j \in h + 1 .. i : j = i \/ j \in h + 1 .. i - 1
        BY <2>1, <2>6
      <4>2. \A j \in h + 1 .. i : text[j].kind # "section"
        BY <2>7, <2>9, <4>1
      <4> QED
        BY <2>1, <2>6, <4>1, <4>2, HeaderIs
    <3> QED
      BY <2>1, <2>3, <2>4, <3>1, <3>2
  <2> QED
    BY <2>8, <2>9
<1>5. n \in S
  <2>1. \A i \in 0 .. n : i \in S
    <3> HIDE DEF S
    <3> QED
      BY <1>1, <1>3, <1>4, Induct
  <2> QED
    BY <1>1, <2>1
<1>6. PICK acc : acc = read[n]
  OBVIOUS
<1>7. /\ acc \in SectionStates /\ acc.header = Header(text, n)
      /\ Said(text, IF acc.header = 0 THEN 0 ELSE acc.header - 1, acc.conf)
  BY <1>1, <1>2, <1>5, <1>6
<1>8. PICK old, h : old = acc.conf /\ h = acc.header
  OBVIOUS
<1>9. old \in ConfResults /\ acc = [conf |-> old, header |-> h]
  BY <1>7, <1>8 DEF SectionStates
<1>10. n \in 0 .. Len(text)
  BY <1>1
<1>11. /\ h \in 0 .. n /\ (h # 0 => text[h].kind = "section")
       /\ \A j \in 1 .. n : text[j].kind = "section" => j <= h
  BY <1>7, <1>8, <1>10, HeaderFacts
<1>12. h \in 0 .. Len(text) /\ n \in h .. Len(text) /\ h \in Nat /\ \A j \in h + 1 .. n : text[j].kind # "section"
  <2>1. \A j \in h + 1 .. n : j \in 1 .. n /\ ~ (j <= h)
    BY <1>1, <1>11
  <2> QED
    BY <1>1, <1>11, <2>1
<1>13. conf_parse(text) = Applied(acc, text, n)
  BY <1>1, <1>6 DEF conf_parse
<1>14. Applied(acc, text, n) \in ConfResults
  BY <1>9, <1>10, <1>12, AppliedTyped
<1>15. Said(text, n, Applied(acc, text, n))
  BY <1>7, <1>8, <1>9, <1>11, <1>12, AppliedSaid
<1> QED
  BY <1>1, <1>13, <1>14, <1>15

-----------------------------------------------------------------------------
(* Lookups.                                                                 *)

\* What comes last of some places is the last of them.
LEMMA LastOfIs ==
    ASSUME NEW n \in Nat, NEW places, \A i \in places : i \in 0 .. n, NEW x \in places, \A y \in places : y <= x
    PROVE  LastOf(places) = x
<1>1. LastOf(places) \in places /\ \A j \in places : j <= LastOf(places)
  BY LastOfFacts
<1>2. x <= LastOf(places) /\ LastOf(places) <= x /\ x \in Nat /\ LastOf(places) \in Nat
  BY <1>1
<1> QED
  BY <1>2

\* realm_entry finds the servers of the realm's first block.
LEMMA RealmFound ==
    ASSUME NEW text \in Seq(Lines), NEW c \in Confs, RealmsUpTo(text, Len(text), c.realms), NEW r,
           NEW entry, entry = realm_entry(c, r)
    PROVE  IF entry = Missing THEN BlockOf(text, r) = 0 ELSE AsDeclared(entry, DeclaredIn(text, BlockOf(text, r)))
<1>1. PICK n, P : /\ n = Len(text) /\ n \in Nat /\ DOMAIN text = 1 .. n
                  /\ P = {0} \cup {i \in 1 .. n : text[i].kind = "section" /\ text[i].name = "realms"}
  <2>1. Len(text) \in Nat /\ DOMAIN text = 1 .. Len(text)
    OBVIOUS
  <2> QED
    BY <2>1
<1>2. LastRealms(text) = LastOf(P) /\ \A i \in P : i \in 0 .. n
  BY <1>1 DEF LastRealms
<1>3. PICK E : E = EntriesOf(c.realms, r)
  OBVIOUS
<1>4. /\ entry = IF E = {} THEN Missing ELSE c.realms[FirstOf(E)]
      /\ c.realms \in Seq(RealmEntries) /\ E \in SUBSET Nat /\ E \subseteq DOMAIN c.realms
  BY <1>3 DEF realm_entry, EntriesOf, Confs
<1>5. E # {} => entry # Missing
  <2>1. SUFFICES ASSUME E # {} PROVE entry # Missing
    OBVIOUS
  <2>2. FirstOf(E) \in DOMAIN c.realms
    BY <1>4, <2>1, FirstOfFacts
  <2>3. entry \in RealmEntries
    <3>1. entry = c.realms[FirstOf(E)]
      BY <1>4, <2>1
    <3>2. \A k \in DOMAIN c.realms : c.realms[k] \in RealmEntries
      BY <1>4
    <3> QED
      BY ONLY <2>2, <3>1, <3>2
  <2> QED
    BY <2>3, MissingAssumption
<1>6. CASE c.realms = <<>> /\ \A i \in 1 .. n : ~ IsRealms(text, i)
  <2>1. E = {}
    BY <1>3, <1>6 DEF EntriesOf
  <2>2. P = {0}
    BY <1>1, <1>6 DEF IsRealms
  <2>3. LastRealms(text) = 0
    <3>1. 0 \in Nat /\ (\A i \in {0} : i \in 0 .. 0) /\ 0 \in {0} /\ \A y \in {0} : y <= 0
      OBVIOUS
    <3>2. LastOf({0}) = 0
      BY ONLY <3>1, LastOfIs
    <3> QED
      BY <1>2, <2>2, <3>2
  <2>4. Opening(text, r) = {}
    BY <2>3 DEF Opening
  <2> QED
    BY <1>4, <2>1, <2>4 DEF BlockOf
<1>7. CASE \E L \in 1 .. n : \E e \in L .. n :
             /\ IsRealms(text, L) /\ \A i \in L + 1 .. n : ~ IsRealms(text, i)
             /\ \A i \in L + 1 .. e : text[i].kind # "section"
             /\ \A i \in e + 1 .. n : Header(text, i) # L
             /\ Entered(text, L, e, c.realms)
  <2>1. PICK L \in 1 .. n : \E e \in L .. n :
             /\ IsRealms(text, L) /\ \A i \in L + 1 .. n : ~ IsRealms(text, i)
             /\ \A i \in L + 1 .. e : text[i].kind # "section"
             /\ \A i \in e + 1 .. n : Header(text, i) # L
             /\ Entered(text, L, e, c.realms)
    BY <1>7
  <2>2. PICK e \in L .. n :
             /\ IsRealms(text, L) /\ \A i \in L + 1 .. n : ~ IsRealms(text, i)
             /\ \A i \in L + 1 .. e : text[i].kind # "section"
             /\ \A i \in e + 1 .. n : Header(text, i) # L
             /\ Entered(text, L, e, c.realms)
    BY <2>1
  <2>3. LastRealms(text) = L
    <3>1. L \in P
      BY <1>1, <2>2 DEF IsRealms
    <3>2. ASSUME NEW i \in P PROVE i <= L
      <4>1. CASE i = 0
        BY <1>1, <4>1
      <4>2. CASE i # 0
        <5>1. i \in 1 .. n /\ IsRealms(text, i)
          BY <1>1, <4>2 DEF IsRealms
        <5>2. i \notin L + 1 .. n
          BY <2>2, <5>1
        <5> QED
          BY <1>1, <5>1, <5>2
      <4> QED
        BY <4>1, <4>2
    <3> QED
      BY <1>1, <1>2, <3>1, <3>2, LastOfIs
  <2>4. ASSUME NEW i \in 1 .. n, i > L PROVE Header(text, i) = L <=> i \in L + 1 .. e
    <3>1. CASE i \in L + 1 .. e
      <4>1. i \in 0 .. Len(text) /\ L \in 0 .. i /\ \A j \in L + 1 .. i : j \in L + 1 .. e
        BY <1>1, <3>1
      <4>2. L # 0 => text[L].kind = "section"
        BY <2>2 DEF IsRealms
      <4>3. \A j \in L + 1 .. i : text[j].kind # "section"
        BY <2>2, <4>1
      <4>4. Header(text, i) = L
        BY <4>1, <4>2, <4>3, HeaderIs
      <4> QED
        BY <3>1, <4>4
    <3>2. CASE i \notin L + 1 .. e
      <4>1. i \in e + 1 .. n
        BY <1>1, <2>4, <3>2
      <4> QED
        BY <2>2, <3>2, <4>1
    <3> QED
      BY <3>1, <3>2
  <2>5. Opening(text, r) = Opens(text, L, e, r)
    <3>1. L > 0 /\ \A i \in L + 1 .. e : i \in 1 .. n /\ i > L
      BY <1>1
    <3> QED
      BY <1>1, <2>3, <2>4, <3>1 DEF Opening, Opens
  <2>6. /\ Opens(text, L, e, r) = {} <=> E = {}
        /\ Opens(text, L, e, r) # {} => AsDeclared(c.realms[FirstOf(E)], DeclaredIn(text, FirstOf(Opens(text, L, e, r))))
    BY <1>3, <2>2 DEF Entered
  <2>7. CASE E = {}
    BY <1>4, <2>5, <2>6, <2>7 DEF BlockOf
  <2>8. CASE E # {}
    <3>1. BlockOf(text, r) = FirstOf(Opens(text, L, e, r))
      BY <2>5, <2>6, <2>8 DEF BlockOf
    <3> QED
      BY <1>4, <1>5, <2>6, <2>8, <3>1
  <2> QED
    BY <2>7, <2>8
<1> QED
  BY <1>1, <1>6, <1>7 DEF RealmsUpTo

\* The domain of a line has a label.
LEMMA DomainFacts ==
    ASSUME NEW line \in Lines, NEW dom, dom = Domain(line)
    PROVE  /\ dom = [dotted |-> dom.dotted, labels |-> dom.labels] /\ dom.dotted \in BOOLEAN
           /\ Len(dom.labels) \in Nat \ {0} /\ \E V : dom.labels \in Seq(V)
<1>1. PICK key : key = IF "domain" \in DOMAIN line THEN line.domain ELSE [dotted |-> FALSE, labels |-> <<line.key>>]
  OBVIOUS
<1>2. dom = [dotted |-> key.dotted, labels |-> [i \in DOMAIN key.labels |-> Lower(key.labels[i])]]
  BY <1>1 DEF Domain
<1>3. key.dotted \in BOOLEAN /\ \E n \in Nat \ {0} : DOMAIN key.labels = 1 .. n
  <2>1. CASE "domain" \in DOMAIN line
    <3>1. key \in [dotted : BOOLEAN, labels : Seq(STRING) \ {<<>>}]
      BY <1>1, <2>1, LineAssumption
    <3>2. key.labels \in Seq(STRING) /\ key.labels # <<>> /\ key.dotted \in BOOLEAN
      BY <3>1
    <3>3. Len(key.labels) \in Nat \ {0} /\ DOMAIN key.labels = 1 .. Len(key.labels)
      BY <3>2
    <3> QED
      BY <3>2, <3>3
  <2>2. CASE "domain" \notin DOMAIN line
    <3>1. key.dotted = FALSE /\ key.labels = <<line.key>>
      BY <1>1, <2>2
    <3>2. DOMAIN <<line.key>> = 1 .. 1
      OBVIOUS
    <3>3. DOMAIN key.labels = 1 .. 1 /\ 1 \in Nat \ {0}
      BY <3>1, <3>2
    <3> QED
      BY <3>1, <3>3
  <2> QED
    BY <2>1, <2>2
<1>4. PICK n \in Nat \ {0} : DOMAIN key.labels = 1 .. n
  BY <1>3
<1>5. PICK labels, V : labels = [i \in 1 .. n |-> Lower(key.labels[i])] /\ V = {Lower(key.labels[i]) : i \in 1 .. n}
  OBVIOUS
<1>6. labels \in [1 .. n -> V]
  BY <1>5
<1>7. labels \in Seq(V) /\ Len(labels) = n
  BY <1>6
<1>8. dom = [dotted |-> key.dotted, labels |-> labels]
  BY <1>2, <1>4, <1>5
<1>9. dom.dotted = key.dotted /\ dom.labels = labels
  BY <1>8
<1> QED
  BY <1>3, <1>7, <1>8, <1>9

TriedPlaces(labels) == {0} \cup 1 .. Len(labels) - 1

\* A domain that resolve_realm tries gets shorter.
LEMMA TriedLength ==
    ASSUME NEW labels \in Seq(STRING), NEW n \in TriedPlaces(labels)
    PROVE  /\ n \in 0 .. Len(labels) /\ n \in Nat /\ Len(Tried_domain(labels, n).labels) = Len(labels) - n
<1>1. n \in 0 .. Len(labels) /\ n \in Nat
  BY DEF TriedPlaces
<1>2. CASE n = 0
  <2>1. Tried_domain(labels, n).labels = labels
    BY <1>2 DEF Tried_domain
  <2> QED
    BY <1>1, <1>2, <2>1
<1>3. CASE n # 0
  <2>1. Tried_domain(labels, n).labels = SubSeq(labels, n + 1, Len(labels))
    BY <1>3 DEF Tried_domain
  <2>2. Len(SubSeq(labels, n + 1, Len(labels))) = Len(labels) - n
    BY <1>1, <1>3
  <2> QED
    BY <1>1, <2>1, <2>2
<1> QED
  BY <1>2, <1>3

\* It tries the domains that cover a host.
LEMMA CoversTried ==
    ASSUME NEW line \in Lines, NEW labels \in Seq(STRING)
    PROVE  Covers(Domain(line), labels) <=> \E n \in TriedPlaces(labels) : Domain(line) = Tried_domain(labels, n)
<1>1. PICK dom : dom = Domain(line)
  OBVIOUS
<1>2. /\ dom = [dotted |-> dom.dotted, labels |-> dom.labels] /\ dom.dotted \in BOOLEAN
      /\ Len(dom.labels) \in Nat \ {0}
  BY <1>1, DomainFacts
<1>3. ASSUME Covers(dom, labels) PROVE \E n \in TriedPlaces(labels) : dom = Tried_domain(labels, n)
  <2>1. CASE ~ dom.dotted
    <3>1. dom.labels = labels /\ dom.dotted = FALSE
      BY <1>2, <1>3, <2>1 DEF Covers
    <3>2. dom = Tried_domain(labels, 0)
      BY <1>2, <3>1 DEF Tried_domain
    <3> QED
      BY <3>2 DEF TriedPlaces
  <2>2. CASE dom.dotted
    <3>1. /\ Len(dom.labels) < Len(labels) /\ dom.dotted = TRUE
          /\ dom.labels = SubSeq(labels, Len(labels) - Len(dom.labels) + 1, Len(labels))
      BY <1>2, <1>3, <2>2 DEF Covers
    <3>2. PICK n : n = Len(labels) - Len(dom.labels)
      OBVIOUS
    <3>3. n \in 1 .. Len(labels) - 1 /\ n # 0
      <4>0. Len(labels) \in Nat
        OBVIOUS
      <4>1. PICK a, b : a = Len(labels) /\ b = Len(dom.labels) /\ a \in Nat
        BY <4>0
      <4> QED
        BY <1>2, <3>1, <3>2, <4>1
    <3>4. dom = Tried_domain(labels, n)
      BY <1>2, <3>1, <3>2, <3>3 DEF Tried_domain
    <3> QED
      BY <3>3, <3>4 DEF TriedPlaces
  <2> QED
    BY <2>1, <2>2
<1>4. ASSUME NEW n \in TriedPlaces(labels), dom = Tried_domain(labels, n) PROVE Covers(dom, labels)
  <2>1. CASE n = 0
    <3>1. dom.dotted = FALSE /\ dom.labels = labels
      BY <1>4, <2>1 DEF Tried_domain
    <3> QED
      BY <3>1 DEF Covers
  <2>2. CASE n # 0
    <3>1. dom.dotted = TRUE /\ dom.labels = SubSeq(labels, n + 1, Len(labels))
      BY <1>4, <2>2 DEF Tried_domain
    <3>2. Len(dom.labels) = Len(labels) - n /\ n \in Nat
      BY <1>4, TriedLength
    <3>3. Len(labels) - Len(dom.labels) + 1 = n + 1 /\ Len(dom.labels) < Len(labels)
      BY <2>2, <3>2
    <3> QED
      BY <3>1, <3>3 DEF Covers
  <2> QED
    BY <2>1, <2>2
<1> QED
  BY <1>1, <1>3, <1>4

\* resolve_realm takes the realm of the last mapping for the longest domain.
LEMMA Resolved_realm ==
    ASSUME NEW text \in Seq(Lines), NEW c \in Confs, c.domain_realm = MappedUpTo(text, Len(text)),
           NEW labels \in Seq(STRING), NEW realm, realm = resolve_realm(c, labels)
    PROVE  (IF realm = Missing THEN DefaultRealm ELSE realm) = RealmOfHost(text, labels)
<1> DEFINE Mapped(n) == {m \in c.domain_realm : m.domain = Tried_domain(labels, n)}
           hits == {n \in {0} \cup 1 .. Len(labels) - 1 : Mapped(n) # {}}
           covering == Covering(text, labels)
           best == BestCovering(text, labels)
<1>1. realm = IF hits = {} THEN Missing ELSE (CHOOSE m \in Mapped(FirstOf(hits)) : TRUE).realm
  BY DEF resolve_realm
<1>2. RealmOfHost(text, labels) = IF best = {} THEN DefaultRealm ELSE Target(text[LastOf(best)])
  BY DEF RealmOfHost
<1>3. \A n : n \in hits <=> n \in TriedPlaces(labels) /\ Mapped(n) # {}
  BY DEF TriedPlaces
<1>4. hits \in SUBSET Nat
  BY <1>3, TriedLength
<1>5. Len(text) \in Nat /\ DOMAIN text = 1 .. Len(text) /\ Len(labels) \in Nat
  OBVIOUS
<1>6. ASSUME NEW i
      PROVE  i \in covering <=> /\ i \in 1 .. Len(text) /\ MappingLine(text, i)
                                /\ \E n \in TriedPlaces(labels) : Domain(text[i]) = Tried_domain(labels, n)
  <2>1. i \in 1 .. Len(text) => text[i] \in Lines
    OBVIOUS
  <2> QED
    BY <1>5, <2>1, CoversTried DEF Covering, MappingLine
\* A line that covers the host maps a domain that is tried.
<1>7. ASSUME NEW i \in covering, NEW n \in TriedPlaces(labels), Domain(text[i]) = Tried_domain(labels, n)
      PROVE  n \in hits
  <2>1. PICK K : K = {k \in 1 .. Len(text) : MappingLine(text, k) /\ Domain(text[k]) = Domain(text[i])}
    OBVIOUS
  <2>2. i \in K /\ \A k \in K : k \in 0 .. Len(text)
    BY <1>6, <2>1
  <2>3. PICK l : l = LastOf(K)
    OBVIOUS
  <2>4. l \in K /\ \A j \in K : j <= l
    BY <1>5, <2>2, <2>3, LastOfFacts
  <2>5. l \in 1 .. Len(text) /\ MappingLine(text, l) /\ Domain(text[l]) = Domain(text[i])
    BY <2>1, <2>4
  <2>6. ASSUME NEW j \in l + 1 .. Len(text), MappingLine(text, j) PROVE Domain(text[j]) # Domain(text[l])
    <3>1. j \in 1 .. Len(text) /\ ~ (j <= l)
      BY <2>5
    <3>2. j \notin K
      BY <2>4, <3>1
    <3> QED
      BY <2>1, <2>5, <2>6, <3>1, <3>2
  <2>7. LastMapping(text, Len(text), l)
    BY <2>5, <2>6 DEF LastMapping
  <2>8. MappingOn(text[l]) \in c.domain_realm
    BY <2>5, <2>7 DEF MappedUpTo
  <2>9. MappingOn(text[l]).domain = Tried_domain(labels, n)
    BY <1>7, <2>5 DEF MappingOn
  <2>10. MappingOn(text[l]) \in Mapped(n)
    BY <2>8, <2>9
  <2> QED
    BY <1>3, <2>10
\* A domain that is tried and mapped is on a line that covers the host.
<1>8. ASSUME NEW n \in hits, NEW m \in Mapped(n)
      PROVE  \E i \in covering : LastMapping(text, Len(text), i) /\ m = MappingOn(text[i])
                                 /\ Domain(text[i]) = Tried_domain(labels, n)
  <2>1. m \in MappedUpTo(text, Len(text)) /\ m.domain = Tried_domain(labels, n)
    OBVIOUS
  <2>2. PICK i \in {k \in 1 .. Len(text) : LastMapping(text, Len(text), k)} : m = MappingOn(text[i])
    BY <2>1 DEF MappedUpTo
  <2>3. m.domain = Domain(text[i])
    BY <2>2 DEF MappingOn
  <2>4. MappingLine(text, i)
    BY <2>2 DEF LastMapping
  <2>5. i \in covering
    BY <1>3, <1>6, <2>1, <2>2, <2>3, <2>4
  <2> QED
    BY <2>1, <2>2, <2>3, <2>5
<1>9. best \subseteq covering /\ \A i \in covering : i \in 0 .. Len(text)
  BY <1>6 DEF BestCovering
<1> HIDE DEF Mapped, hits, covering, best
<1>10. CASE hits = {}
  <2>1. covering = {}
    <3>1. SUFFICES ASSUME NEW i \in covering PROVE FALSE
      OBVIOUS
    <3>2. PICK n \in TriedPlaces(labels) : Domain(text[i]) = Tried_domain(labels, n)
      BY <1>6
    <3> QED
      BY <1>7, <1>10, <3>2
  <2>2. best = {}
    BY <1>9, <2>1
  <2> QED
    BY <1>1, <1>2, <1>10, <2>2
<1>11. CASE hits # {}
  <2>1. PICK n : n = FirstOf(hits)
    OBVIOUS
  <2>2. n \in hits /\ (\A k \in hits : n <= k) /\ n \in TriedPlaces(labels) /\ n \in Nat /\ Mapped(n) # {}
    <3>1. n \in hits /\ \A k \in hits : n <= k
      BY <1>4, <1>11, <2>1, FirstOfFacts
    <3> QED
      BY <1>3, <1>4, <3>1
  <2>3. PICK m : m = (CHOOSE x \in Mapped(n) : TRUE)
    OBVIOUS
  <2>4. m \in Mapped(n) /\ realm = m.realm
    <3>1. m \in Mapped(n)
      BY <2>2, <2>3
    <3> QED
      BY <1>1, <1>11, <2>1, <2>3, <3>1
  <2>5. PICK i \in covering : /\ LastMapping(text, Len(text), i) /\ m = MappingOn(text[i])
                              /\ Domain(text[i]) = Tried_domain(labels, n)
    BY <1>8, <2>2, <2>4
  <2>6. Len(Domain(text[i]).labels) = Len(labels) - n
    BY <2>2, <2>5, TriedLength
  <2>7. ASSUME NEW j \in covering
        PROVE  \E k \in hits : /\ Domain(text[j]) = Tried_domain(labels, k) /\ n <= k /\ k \in Nat
                               /\ Len(Domain(text[j]).labels) = Len(labels) - k
    <3>1. PICK k \in TriedPlaces(labels) : Domain(text[j]) = Tried_domain(labels, k)
      BY <1>6
    <3>2. k \in hits
      BY <1>7, <3>1
    <3>3. Len(Domain(text[j]).labels) = Len(labels) - k /\ k \in Nat
      BY <3>1, TriedLength
    <3> QED
      BY <2>2, <3>1, <3>2, <3>3
  <2>8. \A j \in covering : Len(Domain(text[j]).labels) <= Len(Domain(text[i]).labels)
    BY <1>5, <2>2, <2>6, <2>7
  <2>9. i \in best
    BY <2>8 DEF best, BestCovering, covering
  <2>10. PICK l : l = LastOf(best)
    OBVIOUS
  <2>11. l \in best /\ \A j \in best : j <= l
    BY <1>5, <1>9, <2>9, <2>10, LastOfFacts
  <2>12. l \in covering /\ i <= l /\ Len(Domain(text[i]).labels) <= Len(Domain(text[l]).labels)
    BY <1>9, <2>9, <2>11 DEF best, BestCovering, covering
  <2>13. PICK k \in hits : /\ Domain(text[l]) = Tried_domain(labels, k) /\ n <= k /\ k \in Nat
                           /\ Len(Domain(text[l]).labels) = Len(labels) - k
    BY <2>7, <2>12
  <2>14. k = n
    BY <1>5, <2>2, <2>6, <2>12, <2>13
  <2>15. l = i
    <3>1. SUFFICES ASSUME l # i PROVE FALSE
      OBVIOUS
    <3>2. l \in i + 1 .. Len(text) /\ MappingLine(text, l)
      <4>1. l \in 1 .. Len(text) /\ MappingLine(text, l) /\ i \in 1 .. Len(text)
        BY <1>6, <2>12
      <4> QED
        BY <1>5, <2>12, <3>1, <4>1
    <3>3. Domain(text[l]) # Domain(text[i])
      BY <2>5, <3>2 DEF LastMapping
    <3> QED
      BY <2>5, <2>13, <2>14, <3>3
  <2>16. m.realm = Target(text[i])
    BY <2>5 DEF MappingOn
  <2>17. m.realm # Missing
    <3>1. m \in c.domain_realm /\ c.domain_realm \in SUBSET Mappings
      BY <2>4 DEF Mapped, Confs
    <3>2. PICK line \in Assignments : m = [domain |-> Domain(line), realm |-> Target(line)]
      BY <3>1 DEF Mappings
    <3>3. m.realm = Target(line)
      BY <3>2
    <3> QED
      BY <3>3, MissingAssumption
  <2>18. RealmOfHost(text, labels) = Target(text[i])
    BY <1>2, <2>9, <2>10, <2>15
  <2> QED
    BY <2>4, <2>16, <2>17, <2>18
<1> QED
  BY <1>10, <1>11

-----------------------------------------------------------------------------
(* Loading.                                                                 *)

\* The files that load_paths puts together, one after the other.
LEMMA JoinedFacts ==
    ASSUME NEW files \in [Paths -> Seq(Lines) \cup {Missing}], NEW paths \in Seq(Paths), NEW places,
           \A i \in 1 .. Len(paths) : i \in places => files[paths[i]] # Missing
    PROVE  /\ JoinedUpTo(files, paths, places) \in [0 .. Len(paths) -> Seq(Lines)]
           /\ JoinedUpTo(files, paths, places)[0] = <<>>
           /\ \A i \in 1 .. Len(paths) : JoinedUpTo(files, paths, places)[i]
                = IF i \in places THEN JoinedUpTo(files, paths, places)[i - 1] \o files[paths[i]] ELSE JoinedUpTo(files, paths, places)[i - 1]
<1> DEFINE Step(i, v) == IF i \in places THEN v \o files[paths[i]] ELSE v
           Is(h, m) == h = [i \in 0 .. m |-> IF i = 0 THEN <<>> ELSE Step(i, h[i - 1])]
<1>1. PICK n, V, none : n = Len(paths) /\ V = Seq(Lines) /\ none = <<>>
  OBVIOUS
<1>2. n \in Nat /\ none \in V
  BY <1>1
<1>3. ASSUME NEW i \in 1 .. n, NEW v \in V PROVE Step(i, v) \in V
  <2>1. i \in places => files[paths[i]] \in Seq(Lines)
    BY <1>1
  <2> QED
    BY <1>1, <2>1, ConcatProperties
<1> HIDE DEF Step
<1>4. PICK G : G = [i \in 1 .. n |-> [v \in V |-> Step(i, v)]]
  OBVIOUS
<1>5. G \in [1 .. n -> [V -> V]] /\ \A i \in 1 .. n, v \in V : G[i][v] = Step(i, v)
  BY <1>3, <1>4
<1>6. PICK f : f \in [0 .. n -> V] /\ Recursive(f, n, none, G)
  BY ONLY <1>2, <1>5, Recursion
<1>7. Is(f, n)
  <2>1. ASSUME NEW i \in 0 .. n PROVE f[i] = IF i = 0 THEN <<>> ELSE Step(i, f[i - 1])
    <3>1. i # 0 => i \in 1 .. n /\ i - 1 \in 0 .. n
      BY <1>2
    <3> QED
      BY <1>1, <1>5, <1>6, <3>1 DEF Recursive
  <2> QED
    BY <1>6, <2>1
<1>8. PICK g : g = JoinedUpTo(files, paths, places)
  OBVIOUS
<1>9. g = CHOOSE h : Is(h, n)
  BY <1>1, <1>8 DEF JoinedUpTo, Step
<1>10. Is(g, n)
  BY <1>7, <1>9, Zenon
<1>11. g[0] = none /\ g = [i \in 0 .. n |-> g[i]] /\ \A i \in 1 .. n : g[i] = Step(i, g[i - 1])
  <2>1. 0 \in 0 .. n /\ \A i \in 1 .. n : i \in 0 .. n /\ i # 0
    BY <1>2
  <2>2. \A i \in 0 .. n : g[i] = IF i = 0 THEN <<>> ELSE Step(i, g[i - 1])
    BY <1>10
  <2>3. g = [i \in 0 .. n |-> g[i]]
    BY <1>10, <2>2
  <2> QED
    BY <1>1, <2>1, <2>2, <2>3
<1>12. g[0] \in V /\ \A i \in 1 .. n : g[i - 1] \in V => g[i] = G[i][g[i - 1]]
  BY <1>2, <1>5, <1>11
<1>13. g \in [0 .. n -> V]
  BY ONLY <1>2, <1>5, <1>11, <1>12, RecursionTyped
<1> QED
  BY <1>1, <1>8, <1>11, <1>13 DEF Step

\* They are a text.
LEMMA JoinedTyped ==
    ASSUME NEW files \in [Paths -> Seq(Lines) \cup {Missing}], NEW paths \in Seq(Paths), NEW places,
           \A i \in 1 .. Len(paths) : i \in places => files[paths[i]] # Missing
    PROVE  Joined(files, paths, places) \in Seq(Lines)
<1>1. JoinedUpTo(files, paths, places) \in [0 .. Len(paths) -> Seq(Lines)]
  BY JoinedFacts
<1>2. Len(paths) \in 0 .. Len(paths)
  OBVIOUS
<1> QED
  BY <1>1, <1>2 DEF Joined

NamedPlaces(paths, places) == {i \in places : paths[i] # ""}

\* load_paths fails, or parses the files at all places that name one.
LEMMA PathsLoaded ==
    ASSUME NEW files \in [Paths -> Seq(Lines) \cup {Missing}], NEW paths \in Seq(Paths), NEW places,
           places \subseteq DOMAIN paths, NEW loaded, loaded = load_paths(files, paths, places),
           NEW named, named = NamedPlaces(paths, places)
    PROVE  \/ loaded = Failed
           \/ /\ named # {} /\ \A i \in named : files[paths[i]] # Missing
              /\ Joined(files, paths, named) \in Seq(Lines) /\ loaded = conf_parse(Joined(files, paths, named))
<1>1. CASE named = {} \/ \E i \in named : files[paths[i]] = Missing
  BY <1>1 DEF load_paths, NamedPlaces
<1>2. CASE ~ (named = {} \/ \E i \in named : files[paths[i]] = Missing)
  <2>1. loaded = conf_parse(Joined(files, paths, named))
    BY <1>2 DEF load_paths, NamedPlaces
  <2>2. Joined(files, paths, named) \in Seq(Lines)
    BY <1>2, JoinedTyped
  <2> QED
    BY <1>2, <2>1, <2>2
<1> QED
  BY <1>1, <1>2

\* load_default_or_parse fails, or parses the text that the source stands for.
LEMMA SourceLoaded ==
    ASSUME NEW s \in Sources, NEW loaded,
           loaded = load_default_or_parse(s.files, s.env, s.platform, s.embedded)
    PROVE  loaded = Failed \/ (SourceText(s) \in Seq(Lines) /\ loaded = conf_parse(SourceText(s)))
<1>1. /\ s.files \in [Paths -> Seq(Lines) \cup {Missing}]
      /\ s.env \in Seq(Paths) \cup {Missing} /\ s.platform \in Seq(Paths) /\ s.embedded \in Seq(Lines)
  BY SourceAssumption
<1>2. PICK files, env, platform : files = s.files /\ env = s.env /\ platform = s.platform
  OBVIOUS
<1>3. CASE env # Missing
  <2>1. loaded = load_paths(files, env, DOMAIN env)
    BY <1>2, <1>3 DEF load_default_or_parse
  <2>2. PICK named, present : /\ named = {i \in DOMAIN env : env[i] # ""}
                              /\ present = {i \in DOMAIN env : env[i] # "" /\ files[env[i]] # Missing}
    OBVIOUS
  <2>3. SourceText(s) = Joined(files, env, present)
    BY <1>2, <1>3, <2>2 DEF SourceText
  <2>4. \/ loaded = Failed
        \/ /\ named # {} /\ \A i \in named : files[env[i]] # Missing
           /\ Joined(files, env, named) \in Seq(Lines) /\ loaded = conf_parse(Joined(files, env, named))
    <3>1. files \in [Paths -> Seq(Lines) \cup {Missing}] /\ env \in Seq(Paths) /\ DOMAIN env \subseteq DOMAIN env
      BY <1>1, <1>2, <1>3
    <3>2. named = NamedPlaces(env, DOMAIN env)
      BY <2>2 DEF NamedPlaces
    <3> QED
      BY ONLY <2>1, <3>1, <3>2, PathsLoaded
  <2>5. (\A i \in named : files[env[i]] # Missing) => present = named
    BY <2>2
  <2> QED
    BY <2>3, <2>4, <2>5
<1>4. CASE env = Missing
  <2>1. PICK existing, present : /\ existing = {i \in DOMAIN platform : files[platform[i]] # Missing}
                                 /\ present = {i \in DOMAIN platform : platform[i] # "" /\ files[platform[i]] # Missing}
    OBVIOUS
  <2>2. loaded = IF existing # {} THEN load_paths(files, platform, existing) ELSE conf_parse(s.embedded)
    BY <1>2, <1>4, <2>1 DEF load_default_or_parse, existing_default_config_paths
  <2>3. SourceText(s) = IF present = {} THEN s.embedded ELSE Joined(files, platform, present)
    BY <1>2, <1>4, <2>1 DEF SourceText
  <2>4. CASE existing = {}
    BY <1>1, <2>1, <2>2, <2>3, <2>4
  <2>5. CASE existing # {}
    <3>1. PICK named : named = {i \in existing : platform[i] # ""}
      OBVIOUS
    <3>2. named = present
      BY <2>1, <3>1
    <3>3. \/ loaded = Failed
          \/ /\ named # {} /\ \A i \in named : files[platform[i]] # Missing
             /\ Joined(files, platform, named) \in Seq(Lines) /\ loaded = conf_parse(Joined(files, platform, named))
      <4>1. files \in [Paths -> Seq(Lines) \cup {Missing}] /\ platform \in Seq(Paths) /\ existing \subseteq DOMAIN platform
        BY <1>1, <1>2, <2>1
      <4>2. loaded = load_paths(files, platform, existing)
        BY <2>2, <2>5
      <4>3. named = NamedPlaces(platform, existing)
        BY <3>1 DEF NamedPlaces
      <4> QED
        BY ONLY <4>1, <4>2, <4>3, PathsLoaded
    <3> QED
      BY <2>3, <3>2, <3>3
  <2> QED
    BY <2>4, <2>5
<1> QED
  BY <1>3, <1>4

\* A configuration that was loaded is not Missing.
LEMMA LoadedConf ==
    ASSUME NEW s \in Sources, NEW loaded,
           loaded = load_default_or_parse(s.files, s.env, s.platform, s.embedded)
    PROVE  /\ loaded \in ConfResults /\ loaded # Missing
           /\ loaded.ok => SourceText(s) \in Seq(Lines) /\ loaded = conf_parse(SourceText(s))
<1>1. CASE loaded = Failed
  BY <1>1, MissingAssumption DEF ConfResults, Failed
<1>2. CASE SourceText(s) \in Seq(Lines) /\ loaded = conf_parse(SourceText(s))
  <2>1. loaded \in ConfResults
    BY <1>2, ParsedSaid
  <2>2. loaded # Missing
    BY <2>1, MissingAssumption DEF ConfResults
  <2> QED
    BY <1>2, <2>1, <2>2
<1> QED
  BY <1>1, <1>2, SourceLoaded

-----------------------------------------------------------------------------
(* The servers of a realm.                                                  *)

\* Those that the transport is given are the ones that the text names.
LEMMA LookedUp ==
    ASSUME NEW text \in Seq(Lines), conf = conf_parse(text), conf.ok, NEW d \in Domains,
           NEW realm, realm = service_realm(d), NEW said,
           said = DeclaredIn(text, BlockOf(text, RealmOfHost(text, d)))
    PROVE  /\ Servers(realm, "kdc") \in Seq(ServerRecords) /\ Servers(realm, "kpasswd") \in Seq(ServerRecords)
           /\ Endpoints(Servers(realm, "kdc")) = said.kdc
           /\ \/ Endpoints(Servers(realm, "kpasswd")) = said.kpasswd
              \/ \E i \in DOMAIN Servers(realm, "kpasswd") : Listed(Servers(realm, "kpasswd"))[i] = Malformed
<1>1. conf \in Confs /\ RealmsUpTo(text, Len(text), conf.realms) /\ conf.domain_realm = MappedUpTo(text, Len(text))
  <2>1. conf \in ConfResults /\ Said(text, Len(text), conf)
    BY ParsedSaid
  <2> QED
    BY <2>1, ConfCases DEF Said
<1>2. d \in Seq(STRING)
  BY SourceAssumption
<1>3. realm = RealmOfHost(text, d)
  <2>1. PICK mapped : mapped = resolve_realm(conf, d)
    OBVIOUS
  <2>2. (IF mapped = Missing THEN DefaultRealm ELSE mapped) = RealmOfHost(text, d)
    BY <1>1, <1>2, <2>1, Resolved_realm
  <2> QED
    BY <2>1, <2>2 DEF service_realm
<1>4. said = DeclaredIn(text, BlockOf(text, realm))
  BY <1>3
<1>5. PICK entry : entry = realm_entry(conf, realm)
  OBVIOUS
<1>6. IF entry = Missing THEN BlockOf(text, realm) = 0 ELSE AsDeclared(entry, DeclaredIn(text, BlockOf(text, realm)))
  BY <1>1, <1>5, RealmFound
<1>7. CASE entry = Missing
  <2>1. Servers(realm, "kdc") = <<>> /\ Servers(realm, "kpasswd") = <<>>
    BY <1>5, <1>7 DEF Servers
  <2>2. said.kdc = <<>> /\ said.kpasswd = <<>>
    BY <1>4, <1>6, <1>7, NothingDeclared
  <2>3. Endpoints(<<>>) = <<>> /\ <<>> \in Seq(ServerRecords)
    BY DEF Endpoints
  <2> QED
    BY <2>1, <2>2, <2>3
<1>8. CASE entry # Missing
  <2>1. Servers(realm, "kdc") = entry.kdc /\ Servers(realm, "kpasswd") = entry.kpasswd
    BY <1>5, <1>8 DEF Servers
  <2>2. entry \in RealmEntries
    <3>1. PICK E : E = {i \in DOMAIN conf.realms : conf.realms[i].realm = realm}
      OBVIOUS
    <3>2. entry = IF E = {} THEN Missing ELSE conf.realms[FirstOf(E)]
      BY <1>5, <3>1 DEF realm_entry
    <3>3. conf.realms \in Seq(RealmEntries)
      BY <1>1 DEF Confs
    <3>4. E \in SUBSET Nat /\ E # {}
      BY <1>8, <3>1, <3>2, <3>3
    <3>5. FirstOf(E) \in DOMAIN conf.realms
      BY <3>1, <3>4, FirstOfFacts
    <3>6. \A k \in DOMAIN conf.realms : conf.realms[k] \in RealmEntries
      BY <3>3
    <3> QED
      BY <3>2, <3>4, <3>5, <3>6
  <2>3. entry.kdc \in Seq(ServerRecords) /\ entry.kpasswd \in Seq(ServerRecords)
    BY <2>2 DEF RealmEntries
  <2>4. AsDeclared(entry, said)
    BY <1>4, <1>6, <1>8
  <2> QED
    BY <2>1, <2>3, <2>4 DEF AsDeclared
<1> QED
  BY <1>7, <1>8

\* They are a configuration of the transport.
LEMMA ListedTyped ==
    ASSUME NEW servers \in Seq(ServerRecords)
    PROVE  Listed(servers) \in Seq(Hosts \cup {Malformed}) /\ DOMAIN Listed(servers) = DOMAIN servers
<1>1. DOMAIN servers = 1 .. Len(servers) /\ Len(servers) \in Nat
  OBVIOUS
<1>2. ASSUME NEW i \in 1 .. Len(servers)
      PROVE  (IF servers[i].host = 0 THEN Malformed ELSE servers[i].host) \in Hosts \cup {Malformed}
  <2>1. servers[i] \in ServerRecords
    BY <1>1
  <2>2. servers[i].host \in Hosts \cup {0}
    BY <2>1 DEF ServerRecords
  <2> QED
    BY <2>2
<1>3. Listed(servers) \in [1 .. Len(servers) -> Hosts \cup {Malformed}]
  BY <1>1, <1>2 DEF Listed
<1> QED
  BY <1>1, <1>3

-----------------------------------------------------------------------------
(* The transport with its configuration.                                    *)

\* The configuration is what Config::parse made of some text, of which the
\* history tells what it names; before it is loaded no call is made.
ConfInv ==
    /\ conf = Missing => source \in Sources /\ call = Idle
    /\ conf # Missing =>
          /\ conf \in ConfResults
          /\ conf.ok => \E text \in Seq(Lines) :
                           conf = conf_parse(text) /\ declared = [d \in Domains |-> Declared(text, d)]

\* A call to a realm goes by the servers that are configured for it.
CallInv ==
    call.phase # "idle" /\ call.service # "address" =>
        /\ conf # Missing /\ conf.ok /\ target \in Domains /\ call.service \in {"kdc", "kpasswd"}
        /\ call.config.listed = Listed(Servers(service_realm(target), call.service))
        /\ call.config.dns = conf.dns_lookup_kdc

\* The endpoints of a call are the servers it was given, or come from DNS.
EndpointInv ==
    /\ call.phase = "adm" => call.config.listed = <<>> /\ call.config.dns
    /\ call.phase \in {"next", "wait"} =>
          IF call.config.listed = <<>> THEN call.config.dns
          ELSE /\ call.endpoints = call.config.listed
               /\ \A i \in DOMAIN call.config.listed : call.config.listed[i] # Malformed

\* What the transport may do to a call that has begun.
Continues ==
    /\ call.phase # "idle" /\ call'.service = call.service /\ call'.config = call.config
    /\ \/ call'.phase = "discover"
       \/ /\ call'.phase \in {"next", "wait"} /\ call.phase \in {"next", "wait"}
          /\ call'.endpoints = call.endpoints
Goes ==
    /\ EndpointInv'
    /\ \/ call' = Idle \/ call' = call
       \/ /\ call.phase # "idle" /\ call'.phase # "idle"
          /\ call'.service = call.service /\ call'.config = call.config

\* A leg that fails ends the call, or leads to the next one.
LEMMA LegFailedCall ==
    ASSUME IInv, call.phase # "idle", LegFailed
    PROVE  call' = Idle \/ Continues
<1>1. call \in Calls
  BY DEF IInv, TypeOK
<1>2. CASE Len(call.legs) = 2
  <2>1. call' = [call EXCEPT !.phase = "discover", !.legs = Tail(call.legs)]
    BY <1>2 DEF LegFailed, NextLeg
  <2>2. call'.service = call.service /\ call'.config = call.config /\ call'.phase = "discover"
    BY <1>1, <2>1 DEF Calls
  <2> QED
    BY <2>2 DEF Continues
<1>3. CASE Len(call.legs) # 2
  BY <1>3 DEF LegFailed, Return
<1> QED
  BY <1>2, <1>3

\* So does a reply that is taken for a failure; any other one ends it.
LEMMA LegReplyCall ==
    ASSUME IInv, call.phase # "idle", NEW body, NEW answered, LegReply(body, answered)
    PROVE  call' = Idle \/ Continues
<1>1. CASE Len(call.legs) = 2 /\ Protocol = "Udp" /\ body = "toobig"
  <2>1. LegFailed
    BY <1>1 DEF LegReply, LegFailed
  <2> QED
    BY <2>1, LegFailedCall
<1>2. CASE ~ (Len(call.legs) = 2 /\ Protocol = "Udp" /\ body = "toobig")
  BY <1>2 DEF LegReply, Return
<1> QED
  BY <1>1, <1>2

\* After an attempt that fails the call goes on to the next endpoint.
LEMMA EndpointFailedCall ==
    ASSUME IInv, call.phase \in {"next", "wait"}, EndpointFailed
    PROVE  call' = Idle \/ Continues
<1>1. call \in Calls /\ call.phase # "idle"
  BY DEF IInv, TypeOK
<1>2. CASE LegFailed
  BY <1>1, <1>2, LegFailedCall
<1>3. CASE call' = [call EXCEPT !.phase = "next", !.next = @ + 1]
  <2>1. PICK n : n = call.next + 1
    OBVIOUS
  <2>2. call' = [call EXCEPT !.phase = "next", !.next = n]
    BY <1>3, <2>1
  <2>3. /\ call'.service = call.service /\ call'.config = call.config /\ call'.phase = "next"
        /\ call'.endpoints = call.endpoints
    BY <1>1, <2>2 DEF Calls
  <2> QED
    BY <1>1, <2>3 DEF Continues
<1> QED
  BY <1>2, <1>3 DEF EndpointFailed

\* A leg begins with the endpoints that were discovered.
LEMMA StartLegCall ==
    ASSUME IInv, call.phase # "idle", NEW endpoints, StartLeg(endpoints)
    PROVE  /\ call'.service = call.service /\ call'.config = call.config /\ call'.phase = "next"
           /\ call'.endpoints = endpoints
<1>1. call \in Calls
  BY DEF IInv, TypeOK
<1>2. call' = [call EXCEPT !.phase = "next", !.endpoints = endpoints, !.next = 1]
  BY DEF StartLeg
<1> QED
  BY <1>1, <1>2 DEF Calls

\* The invariant of the endpoints goes with the call.
LEMMA Going ==
    ASSUME EndpointInv, call' = Idle \/ call' = call \/ Continues
    PROVE  Goes
<1>1. CASE call' = Idle
  BY <1>1 DEF Goes, EndpointInv, Idle
<1>2. CASE call' = call
  BY <1>2 DEF Goes, EndpointInv
<1>3. CASE Continues
  <2>1. call'.phase # "adm" /\ call'.phase # "idle"
    BY <1>3 DEF Continues
  <2>2. CASE call'.phase = "discover"
    BY <1>3, <2>2 DEF Continues, Goes, EndpointInv
  <2>3. CASE call'.phase # "discover"
    <3>1. /\ call.phase \in {"next", "wait"} /\ call'.endpoints = call.endpoints /\ call'.config = call.config
      BY <1>3, <2>3 DEF Continues
    <3>2. EndpointInv'
      BY <2>1, <3>1 DEF EndpointInv
    <3> QED
      BY <1>3, <2>1, <3>2 DEF Continues, Goes
  <2> QED
    BY <2>2, <2>3
<1> QED
  BY <1>1, <1>2, <1>3

\* A leg over endpoints of DNS.
LEMMA SrvGoes ==
    ASSUME IInv, call.phase # "idle", call.config.listed = <<>>, call.config.dns,
           NEW endpoints, StartLeg(endpoints)
    PROVE  Goes
<1>1. call'.service = call.service /\ call'.config = call.config /\ call'.phase = "next"
  BY StartLegCall
<1>2. EndpointInv'
  BY <1>1 DEF EndpointInv
<1> QED
  BY <1>1, <1>2 DEF Goes

\* discover_kdcs and discover_kpasswd_servers,
LEMMA DiscoverGoes ==
    ASSUME IInv, EndpointInv, Discover
    PROVE  Goes
<1>1. call.phase = "discover" /\ call \in Calls
  BY DEF Discover, IInv, TypeOK
<1>2. PICK listed : listed = call.config.listed
  OBVIOUS
<1>3. CASE listed # <<>> /\ (\A i \in DOMAIN listed : listed[i] # Malformed) /\ StartLeg(listed)
  <2>1. /\ call'.service = call.service /\ call'.config = call.config /\ call'.phase = "next"
        /\ call'.endpoints = listed
    BY <1>1, <1>3, StartLegCall
  <2>2. EndpointInv'
    BY <1>2, <1>3, <2>1 DEF EndpointInv
  <2> QED
    BY <1>1, <2>1, <2>2 DEF Goes
<1>4. CASE NoEndpoints
  <2>1. LegFailed
    BY <1>4 DEF NoEndpoints
  <2> QED
    BY <1>1, <2>1, LegFailedCall, Going
<1>5. CASE listed = <<>> /\ call.config.dns /\ \E endpoints : StartLeg(endpoints)
  BY <1>1, <1>2, <1>5, SrvGoes
<1>6. CASE listed = <<>> /\ call.config.dns /\ call' = [call EXCEPT !.phase = "adm"]
  <2>1. call'.service = call.service /\ call'.config = call.config /\ call'.phase = "adm"
    BY <1>1, <1>6 DEF Calls
  <2>2. EndpointInv'
    BY <1>2, <1>6, <2>1 DEF EndpointInv
  <2> QED
    BY <1>1, <2>1, <2>2 DEF Goes
<1> QED
  BY <1>2, <1>3, <1>4, <1>5, <1>6 DEF Discover, SrvLookup

\* the second lookup of the latter,
LEMMA DiscoverAdmGoes ==
    ASSUME IInv, EndpointInv, DiscoverAdm
    PROVE  Goes
<1>1. call.phase = "adm" /\ call.config.listed = <<>> /\ call.config.dns
  BY DEF DiscoverAdm, EndpointInv
<1>2. CASE NoEndpoints
  <2>1. LegFailed
    BY <1>2 DEF NoEndpoints
  <2> QED
    BY <1>1, <2>1, LegFailedCall, Going
<1>3. CASE \E endpoints : StartLeg(endpoints)
  BY <1>1, <1>3, SrvGoes
<1> QED
  BY <1>2, <1>3 DEF DiscoverAdm, SrvLookup

\* and the attempts keep the endpoints to those of the call.
LEMMA AttemptGoes ==
    ASSUME IInv, EndpointInv, SendNext \/ Receive \/ Timeout
    PROVE  Goes
<1>1. CASE call.phase \in {"next", "wait"} /\ EndpointFailed
  BY <1>1, EndpointFailedCall, Going
<1>2. CASE call.phase = "wait" /\ \E body, answered : LegReply(body, answered)
  BY <1>2, LegReplyCall, Going
<1>3. CASE call.phase = "next" /\ call' = [call EXCEPT !.phase = "wait"]
  <2>1. call \in Calls
    BY DEF IInv, TypeOK
  <2>2. /\ call'.service = call.service /\ call'.config = call.config /\ call'.phase = "wait"
        /\ call'.endpoints = call.endpoints
    BY <1>3, <2>1 DEF Calls
  <2>3. Continues
    BY <1>3, <2>2 DEF Continues
  <2> QED
    BY <2>3, Going
<1>4. SendNext => (call.phase = "next" /\ EndpointFailed) \/ (call.phase = "next" /\ call' = [call EXCEPT !.phase = "wait"])
  BY DEF SendNext
<1>5. Receive => call.phase = "wait" /\ (EndpointFailed \/ \E body, answered : LegReply(body, answered))
  BY DEF Receive
<1>6. Timeout => call.phase = "wait" /\ EndpointFailed
  BY DEF Timeout
<1> QED
  BY <1>1, <1>2, <1>3, <1>4, <1>5, <1>6

\* Every step of the transport, but for the beginning of a call.
LEMMA TransportGoes ==
    ASSUME IInv, EndpointInv, Progress \/ Serve \/ CancelCall \/ UNCHANGED vars
    PROVE  Goes /\ IInv'
<1>1. IInv'
  BY StepIInv DEF Next
<1>2. CASE Discover
  BY <1>1, <1>2, DiscoverGoes
<1>3. CASE DiscoverAdm
  BY <1>1, <1>3, DiscoverAdmGoes
<1>4. CASE SendNext \/ Receive \/ Timeout
  BY <1>1, <1>4, AttemptGoes
<1>5. CASE call' = Idle \/ call' = call
  BY <1>1, <1>5, Going
<1>6. Serve \/ CancelCall \/ UNCHANGED vars => call' = Idle \/ call' = call
  BY DEF Serve, CancelCall, vars
<1> QED
  BY <1>1, <1>2, <1>3, <1>4, <1>5, <1>6 DEF Progress

\* The calls that remain are those that were there, and so are their servers.
LEMMA KeptConf ==
    ASSUME ConfInv, CallInv, Goes, UNCHANGED <<conf, declared, target>>,
           source' = source
    PROVE  ConfInv' /\ CallInv' /\ EndpointInv'
<1>1. ConfInv'
  <2>1. conf = Missing => call' = Idle
    BY DEF ConfInv, Goes, Idle
  <2> QED
    BY <2>1 DEF ConfInv
<1>2. \A h, s : Servers(service_realm(h), s)' = Servers(service_realm(h), s)
  BY DEF Servers, service_realm
<1>3. Idle.phase = "idle"
  BY DEF Idle
<1>4. CASE call' = Idle
  BY <1>1, <1>3, <1>4 DEF CallInv, Goes
<1>5. CASE call' # Idle
  <2>1. /\ call'.phase # "idle" => call.phase # "idle"
        /\ call'.service = call.service /\ call'.config = call.config
    BY <1>5 DEF Goes
  <2>2. SUFFICES ASSUME call'.phase # "idle", call'.service # "address"
                 PROVE  /\ (conf # Missing /\ conf.ok /\ target \in Domains /\ call.service \in {"kdc", "kpasswd"})'
                        /\ call'.config.listed = Listed(Servers(service_realm(target), call.service))'
                        /\ call'.config.dns = conf'.dns_lookup_kdc
    BY <1>1 DEF CallInv, Goes
  <2>3. /\ conf # Missing /\ conf.ok /\ target \in Domains /\ call.service \in {"kdc", "kpasswd"}
        /\ call.config.listed = Listed(Servers(service_realm(target), call.service))
        /\ call.config.dns = conf.dns_lookup_kdc
    BY <2>1, <2>2 DEF CallInv
  <2>4. PICK h, s : h = target /\ s = call.service
    OBVIOUS
  <2>5. h = target' /\ s = call'.service
    BY <2>1, <2>4
  <2>6. Servers(service_realm(h), s)' = Servers(service_realm(h), s)
    BY <1>2
  <2> QED
    BY <2>1, <2>3, <2>4, <2>5, <2>6 DEF Listed
<1> QED
  BY <1>4, <1>5

-----------------------------------------------------------------------------
(* The steps of the process.                                                *)

\* Config::load_default_or_parse.
LEMMA LoadInv ==
    ASSUME IInv, ConfInv, CallInv, EndpointInv, Load
    PROVE  IInv' /\ ConfInv' /\ CallInv' /\ EndpointInv'
<1>1. /\ source \in Sources /\ call = Idle /\ UNCHANGED vars
      /\ conf' = load_default_or_parse(source.files, source.env, source.platform, source.embedded)
      /\ declared' = [d \in Domains |-> Declared(SourceText(source), d)]
  BY DEF Load, ConfInv
<1>2. /\ conf' \in ConfResults /\ conf' # Missing
      /\ conf'.ok => SourceText(source) \in Seq(Lines) /\ conf' = conf_parse(SourceText(source))
  BY <1>1, LoadedConf
<1>3. IInv'
  BY <1>1, StepIInv
<1>4. PICK text : text = SourceText(source)
  OBVIOUS
<1>5. ConfInv'
  BY <1>1, <1>2, <1>4 DEF ConfInv
<1>6. call' = Idle /\ call'.phase = "idle"
  BY <1>1 DEF vars, Idle
<1>7. CallInv' /\ EndpointInv'
  BY <1>6 DEF CallInv, EndpointInv
<1> QED
  BY <1>3, <1>5, <1>7

\* A call that begins.
LEMMA BeginInv ==
    ASSUME IInv, ConfInv, conf # Missing, NEW service \in Services, NEW config \in Config, NEW size \in Sizes,
           NEW legs \in Plans, Start(service, config, size, legs), UNCHANGED confVars
    PROVE  /\ IInv' /\ ConfInv' /\ EndpointInv'
           /\ call'.phase = "discover" /\ call'.service = service /\ call'.config = config
<1>1. size \in Nat
  BY ConfigAssumption
<1>2. IInv'
  BY <1>1, StartStep
<1>3. ConfInv'
  BY DEF ConfInv, confVars
<1>4. call' = [Idle EXCEPT !.phase = "discover", !.service = service, !.legs = legs, !.config = config, !.size = size]
  BY DEF Start
<1>5. call'.phase = "discover" /\ call'.service = service /\ call'.config = config
  BY <1>4 DEF Idle
<1>6. EndpointInv'
  BY <1>5 DEF EndpointInv
<1> QED
  BY <1>2, <1>3, <1>5, <1>6

\* send needs no configuration,
LEMMA RequestToInv ==
    ASSUME IInv, ConfInv, NEW host \in Hosts, NEW size \in Sizes, RequestTo(host, size)
    PROVE  IInv' /\ ConfInv' /\ CallInv' /\ EndpointInv'
<1>1. PICK legs \in Plans : Start("address", Only(host), size, legs)
  BY SingleLeg DEF RequestTo, send, Plans
<1>2. "address" \in Services /\ Only(host) \in Config
  BY DEF Services, Only, Config
<1>3. conf # Missing /\ UNCHANGED confVars
  BY DEF RequestTo, confVars
<1>4. IInv' /\ ConfInv' /\ EndpointInv' /\ call'.service = "address"
  BY <1>1, <1>2, <1>3, BeginInv
<1> QED
  BY <1>4 DEF CallInv

\* The servers of a realm are a configuration of the transport.
LEMMA ConfigOfRealm ==
    ASSUME ConfInv, conf # Missing, conf.ok, NEW host \in Domains, NEW service \in {"kdc", "kpasswd"}
    PROVE  [listed |-> Listed(Servers(service_realm(host), service)),
            dns |-> conf.dns_lookup_kdc, limit |-> conf.udp_preference_limit] \in Config
<1>1. PICK text \in Seq(Lines) : conf = conf_parse(text)
  BY DEF ConfInv
<1>2. PICK realm, said : /\ realm = service_realm(host)
                         /\ said = DeclaredIn(text, BlockOf(text, RealmOfHost(text, host)))
  OBVIOUS
<1>3. Servers(realm, "kdc") \in Seq(ServerRecords) /\ Servers(realm, "kpasswd") \in Seq(ServerRecords)
  BY <1>1, <1>2, LookedUp
<1>4. Servers(realm, service) \in Seq(ServerRecords)
  BY <1>3
<1>5. Listed(Servers(realm, service)) \in Seq(Hosts \cup {Malformed})
  BY <1>4, ListedTyped
<1>6. conf.dns_lookup_kdc \in BOOLEAN /\ conf.udp_preference_limit \in Int
  <2>1. conf \in Confs
    BY ConfCases DEF ConfInv
  <2> QED
    BY <2>1 DEF Confs
<1> QED
  BY <1>2, <1>5, <1>6 DEF Config

\* send_to_realm takes the one of the realm of the host.
LEMMA RequestForInv ==
    ASSUME IInv, ConfInv, NEW service \in {"kdc", "kpasswd"}, NEW host \in Domains, NEW size \in Sizes,
           RequestFor(service, host, size)
    PROVE  IInv' /\ ConfInv' /\ CallInv' /\ EndpointInv'
<1>1. PICK config : config = [listed |-> Listed(Servers(service_realm(host), service)),
                              dns |-> conf.dns_lookup_kdc, limit |-> conf.udp_preference_limit]
  OBVIOUS
<1>2. conf # Missing /\ conf.ok /\ UNCHANGED confVars /\ target' = host /\ send_to_realm(service, config, size)
  BY <1>1 DEF RequestFor, confVars
<1>3. PICK legs \in Plans : Start(service, config, size, legs)
  <2>1. AutoLegs(config.limit, size) \in Plans
    BY DEF AutoLegs, Plans
  <2> QED
    BY <1>2, <2>1, SingleLeg DEF send_to_realm
<1>4. service \in Services /\ config \in Config
  BY <1>1, <1>2, ConfigOfRealm DEF Services
<1>5. IInv' /\ ConfInv' /\ EndpointInv' /\ call'.service = service /\ call'.config = config
  BY <1>2, <1>3, <1>4, BeginInv
<1>6. conf' = conf
  BY <1>2 DEF confVars
<1>7. Servers(service_realm(host), service)' = Servers(service_realm(host), service)
  BY <1>6 DEF Servers, service_realm
<1>8. Listed(Servers(service_realm(target), call.service))' = config.listed
  BY <1>1, <1>2, <1>5, <1>7 DEF Listed
<1> QED
  BY <1>1, <1>2, <1>5, <1>6, <1>8 DEF CallInv

ConfIInv == IInv /\ ConfInv /\ CallInv /\ EndpointInv

\* The invariant holds before anything is loaded,
LEMMA InitConfIInv == Init2 => ConfIInv
<1> SUFFICES ASSUME Init2 PROVE ConfIInv
  OBVIOUS
<1>1. IInv
  BY InitIInv DEF Init2
<1>2. call = Idle /\ call.phase = "idle" /\ conf = Missing /\ source \in Sources
  BY DEF Init2, Init, Idle
<1> QED
  BY <1>1, <1>2 DEF ConfIInv, ConfInv, CallInv, EndpointInv

\* and every step of the process keeps it.
LEMMA StepConfIInv == ConfIInv /\ [Next2]_allVars => ConfIInv'
<1> SUFFICES ASSUME IInv, ConfInv, CallInv, EndpointInv, [Next2]_allVars PROVE ConfIInv'
  BY DEF ConfIInv
<1>1. CASE Load
  BY <1>1, LoadInv DEF ConfIInv
<1>2. ASSUME NEW s \in {"kdc", "kpasswd"}, NEW d \in Domains, NEW n \in Sizes, RequestFor(s, d, n)
      PROVE  ConfIInv'
  BY <1>2, RequestForInv DEF ConfIInv
<1>3. ASSUME NEW h \in Hosts, NEW n \in Sizes, RequestTo(h, n) PROVE ConfIInv'
  BY <1>3, RequestToInv DEF ConfIInv
<1>4. CASE (Progress \/ Serve \/ CancelCall \/ UNCHANGED vars) /\ UNCHANGED <<confVars, target>>
  <2>1. Goes /\ IInv'
    BY <1>4, TransportGoes
  <2>2. UNCHANGED <<conf, declared, target>> /\ source' = source
    BY <1>4 DEF confVars
  <2>3. ConfInv' /\ CallInv' /\ EndpointInv'
    BY <2>1, <2>2, KeptConf
  <2> QED
    BY <2>1, <2>3 DEF ConfIInv
<1>5. UNCHANGED allVars => UNCHANGED vars /\ UNCHANGED <<confVars, target>>
  BY DEF allVars
<1> QED
  BY <1>1, <1>2, <1>3, <1>4, <1>5 DEF Next2

\* Where no section of realms follows the one with the realm's first block, it
\* is the first block of the last section.
LEMMA FirstIsLast ==
    ASSUME NEW text \in Seq(Lines), NEW realm, NEW first, first = FirstBlock(text, realm),
           first = 0 \/ Header(text, first) = LastRealms(text)
    PROVE  BlockOf(text, realm) = first
<1>1. PICK all, some, last : /\ all = Openings(text, realm) /\ some = Opening(text, realm)
                             /\ last = LastRealms(text)
  OBVIOUS
<1>2. Len(text) \in Nat /\ DOMAIN text = 1 .. Len(text)
  OBVIOUS
<1>3. last \in 0 .. Len(text) /\ (last # 0 => text[last].name = "realms")
  <2>1. PICK P : P = {0} \cup {i \in DOMAIN text : text[i].kind = "section" /\ text[i].name = "realms"}
    OBVIOUS
  <2>2. P # {} /\ \A i \in P : i \in 0 .. Len(text)
    BY <1>2, <2>1
  <2>3. LastOf(P) \in P
    BY <1>2, <2>2, LastOfFacts
  <2>4. last = LastOf(P)
    BY <1>1, <2>1 DEF LastRealms
  <2> QED
    BY <1>2, <2>1, <2>3, <2>4
<1>4. all \in SUBSET Nat /\ some \in SUBSET Nat
  BY <1>1, <1>2 DEF Openings, Opening
<1>5. some \subseteq all
  BY <1>1, <1>3 DEF Opening, Openings, InSection
<1>6. ASSUME NEW i \in all, Header(text, i) = last PROVE i \in some
  <2>1. i \in 0 .. Len(text) /\ i \in 1 .. Len(text)
    BY <1>1, <1>2 DEF Openings
  <2>2. /\ Header(text, i) \in 0 .. i
        /\ Header(text, i) # 0 => text[Header(text, i)].kind = "section"
    BY <2>1, HeaderFacts
  <2>3. /\ i \in DOMAIN text /\ text[i].kind = "open" /\ text[i].key = realm /\ last > 0
        /\ Depth(text, last, i - 1) = 0
    BY <1>1, <1>6 DEF Openings, InSection
  <2>4. last # i
    BY <1>6, <2>2, <2>3
  <2>5. i > last
    BY <1>3, <1>6, <2>1, <2>2, <2>4
  <2> QED
    BY <1>1, <1>6, <2>3, <2>5 DEF Opening
<1>7. CASE all = {}
  BY <1>1, <1>5, <1>7 DEF BlockOf, FirstBlock
<1>8. CASE all # {}
  <2>1. first = FirstOf(all) /\ first \in all /\ \A j \in all : first <= j
    BY <1>1, <1>4, <1>8, FirstOfFacts DEF FirstBlock
  <2>2. first # 0
    BY <1>1, <1>2, <2>1 DEF Openings
  <2>3. first \in some /\ \A j \in some : first <= j
    BY <1>1, <1>5, <1>6, <2>1, <2>2
  <2>4. FirstOf(some) = first
    BY <1>4, <2>3, FirstOfIs
  <2> QED
    BY <1>1, <2>3, <2>4 DEF BlockOf
<1> QED
  BY <1>7, <1>8

\* The servers that are expected are those of the last section in any case.
LEMMA NamedLast ==
    ASSUME NEW text \in Seq(Lines), declared = [d \in Domains |-> Declared(text, d)], NEW d \in Domains
    PROVE  NamedFor(d) = DeclaredIn(text, BlockOf(text, RealmOfHost(text, d)))
<1>1. PICK realm, first : realm = RealmOfHost(text, d) /\ first = FirstBlock(text, realm)
  OBVIOUS
<1>2. /\ declared[d].together = DeclaredIn(text, first)
      /\ declared[d].last = DeclaredIn(text, BlockOf(text, realm))
      /\ declared[d].replaced = (first # 0 /\ Header(text, first) # LastRealms(text))
  <2>1. PICK x, y, z : /\ x = DeclaredIn(text, first) /\ y = DeclaredIn(text, BlockOf(text, realm))
                       /\ z = (first # 0 /\ Header(text, first) # LastRealms(text))
    OBVIOUS
  <2>2. declared[d] = [together |-> x, last |-> y, replaced |-> z]
    BY <1>1, <2>1 DEF Declared
  <2> QED
    BY ONLY <2>1, <2>2
<1>3. CASE first = 0 \/ Header(text, first) = LastRealms(text)
  <2>1. BlockOf(text, realm) = first
    BY <1>1, <1>3, FirstIsLast
  <2>2. NamedFor(d) = DeclaredIn(text, first)
    BY <1>2, <1>3 DEF NamedFor
  <2> QED
    BY ONLY <1>1, <2>1, <2>2
<1>4. CASE first # 0 /\ Header(text, first) # LastRealms(text)
  <2>1. NamedFor(d) = DeclaredIn(text, BlockOf(text, realm))
    BY <1>2, <1>4 DEF NamedFor
  <2> QED
    BY ONLY <1>1, <2>1
<1> QED
  BY <1>3, <1>4

\* The invariant implies what the project claims of the servers.
LEMMA InvDeclared == ConfIInv => ServersAreDeclared
<1> SUFFICES ASSUME IInv, ConfInv, CallInv, EndpointInv, conf # Missing, conf.ok PROVE ServersAreDeclared
  BY DEF ConfIInv, ServersAreDeclared
<1>1. PICK text \in Seq(Lines) : conf = conf_parse(text) /\ declared = [d \in Domains |-> Declared(text, d)]
  BY DEF ConfInv
<1>2. ASSUME NEW d \in Domains, NEW realm, realm = service_realm(d)
      PROVE  /\ Servers(realm, "kdc") \in Seq(ServerRecords) /\ Servers(realm, "kpasswd") \in Seq(ServerRecords)
             /\ Endpoints(Servers(realm, "kdc")) = NamedFor(d).kdc
             /\ \/ Endpoints(Servers(realm, "kpasswd")) = NamedFor(d).kpasswd
                \/ \E i \in DOMAIN Servers(realm, "kpasswd") : Listed(Servers(realm, "kpasswd"))[i] = Malformed
  <2>1. PICK said : said = DeclaredIn(text, BlockOf(text, RealmOfHost(text, d)))
    OBVIOUS
  <2>2. NamedFor(d) = said
    BY <1>1, <2>1, NamedLast
  <2> QED
    BY <1>1, <1>2, <2>1, <2>2, LookedUp
<1>3. ASSUME NEW d \in Domains, NEW realm, realm = service_realm(d)
      PROVE  /\ Endpoints(Servers(realm, "kdc")) = NamedFor(d).kdc
             /\ \/ Endpoints(Servers(realm, "kpasswd")) = NamedFor(d).kpasswd
                \/ Malformed \in {Listed(Servers(realm, "kpasswd"))[i] : i \in DOMAIN Servers(realm, "kpasswd")}
  BY <1>2, <1>3
<1>4. ASSUME call.phase \in {"next", "wait"}, call.service # "address",
             NEW named,
             named = IF call.service = "kdc" THEN NamedFor(target).kdc ELSE NamedFor(target).kpasswd
      PROVE  IF named = <<>> THEN conf.dns_lookup_kdc ELSE call.endpoints = [i \in DOMAIN named |-> named[i][1]]
  <2>1. PICK realm : realm = service_realm(target)
    OBVIOUS
  <2>2. PICK servers, listed : servers = Servers(realm, call.service) /\ listed = Listed(servers)
    OBVIOUS
  <2>3. /\ target \in Domains /\ call.service \in {"kdc", "kpasswd"}
        /\ call.config.listed = listed /\ call.config.dns = conf.dns_lookup_kdc
    BY <1>4, <2>1, <2>2 DEF CallInv
  <2>4. /\ servers \in Seq(ServerRecords)
        /\ Endpoints(servers) = named \/ \E i \in DOMAIN servers : listed[i] = Malformed
    <3>1. CASE call.service = "kdc"
      BY <1>2, <1>4, <2>1, <2>2, <2>3, <3>1
    <3>2. CASE call.service = "kpasswd"
      BY <1>2, <1>4, <2>1, <2>2, <2>3, <3>2
    <3> QED
      BY <2>3, <3>1, <3>2
  <2>5. listed \in Seq(Hosts \cup {Malformed}) /\ DOMAIN listed = DOMAIN servers
    BY <2>2, <2>4, ListedTyped
  <2>6. CASE listed = <<>>
    <3>1. servers = <<>>
      BY <2>4, <2>5, <2>6
    <3>2. named = <<>>
      BY <2>4, <3>1 DEF Endpoints
    <3>3. conf.dns_lookup_kdc
      BY <1>4, <2>3, <2>6 DEF EndpointInv
    <3> QED
      BY <3>2, <3>3
  <2>7. CASE listed # <<>>
    <3>1. call.endpoints = listed /\ \A i \in DOMAIN listed : listed[i] # Malformed
      BY <1>4, <2>3, <2>7 DEF EndpointInv
    <3>2. named = Endpoints(servers)
      BY <2>4, <2>5, <3>1
    <3>3. DOMAIN named = DOMAIN servers /\ \A i \in DOMAIN servers : named[i] = <<servers[i].host, servers[i].port>>
      BY <3>2 DEF Endpoints
    <3>4. named # <<>>
      BY <2>5, <2>7, <3>3
    <3>5. \A i \in DOMAIN servers : listed[i] = servers[i].host
      BY <2>2, <2>5, <3>1 DEF Listed
    <3>6. \A i \in DOMAIN servers : named[i][1] = listed[i]
      BY <3>3, <3>5
    <3>7. listed = [i \in DOMAIN servers |-> listed[i]]
      BY <2>5
    <3>8. listed = [i \in DOMAIN named |-> named[i][1]]
      BY <3>3, <3>6, <3>7
    <3> QED
      BY <3>1, <3>4, <3>8
  <2> QED
    BY <2>6, <2>7
<1> QED
  BY <1>3, <1>4 DEF ServersAreDeclared

\* With the configuration it loads, the transport keeps its invariant, and the
\* servers of a call are those of the configuration.
THEOREM ConfiguredInvariance == ConfSpec => []ConfIInv
  BY InitConfIInv, StepConfIInv, PTL DEF ConfSpec

\* Requests go to the servers that krb5.conf names for the realm of the host,
\* save that a later section of realms replaces the ones before it.
THEOREM ServersDeclared == ConfSpec => []ServersAreDeclared
  BY ConfiguredInvariance, InvDeclared, PTL

\* What holds of calls holds of those to configured realms.
THEOREM ConfiguredCalls ==
    ConfSpec => [](RepliesAreOurs /\ ResendsOnlyAfterFailure /\ ErrorMeansExhausted /\ TooBigIsLastResort)
<1>1. ConfIInv => RepliesAreOurs /\ ResendsOnlyAfterFailure /\ ErrorMeansExhausted /\ TooBigIsLastResort
  BY DEF ConfIInv, IInv
<1> QED
  BY <1>1, ConfiguredInvariance, PTL
=============================================================================
