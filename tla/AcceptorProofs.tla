--------------------------- MODULE AcceptorProofs ---------------------------
(***************************************************************************)
(* Proofs about the accepting side: the validators of ServiceValidator and  *)
(* their replay caches, for every number of validators, caches and requests *)
(* and every skew, delay and retention that satisfy the module's            *)
(* assumptions; and the receivers of GssToken, for any keys, payloads,      *)
(* counts and sequence of calls.                                            *)
(***************************************************************************)
EXTENDS ServiceValidator, GssToken, SequenceTheorems, TLAPS

-----------------------------------------------------------------------------
(* The validators.                                                          *)

\* The checks on a ticket end in an error of their own or in "Ok", and "Ok"
\* means that the ticket's times were checked.
LEMMA TicketVerdictRange ==
    ASSUME NEW v \in Validators, NEW r \in Requests, NEW t
    PROVE  /\ TicketVerdict(v, r, t) \in TicketErrors \cup {"Ok"}
           /\ TicketVerdict(v, r, t) = "Ok" => validate_ticket_times(r, t) = "Ok"
  BY DEF TicketVerdict, validate_ticket_times, validate_client_address,
         TicketErrors

\* Likewise for the authenticator; "Ok" means the skew was checked.
LEMMA AuthenticatorVerdictRange ==
    ASSUME NEW r \in Requests, NEW t
    PROVE  /\ AuthenticatorVerdict(r, t) \in AuthenticatorErrors \cup {"Ok"}
           /\ AuthenticatorVerdict(r, t) = "Ok" =>
                  ~ (abs_duration(t, AuthTime(r)) > MaxClockSkew)
  BY DEF AuthenticatorVerdict, AuthenticatorErrors

\* A replay key keeps the time of its request.
LEMMA ReplayKeyTime ==
    ASSUME NEW r \in Requests
    PROVE  /\ ReplayKey(r) \in ReplayKeys
           /\ AuthTime(ReplayKey(r)) = AuthTime(r)
           /\ AuthTime(r) \in Nat
<1>1. ReplayKey(r) \in ReplayKeys
  BY DEF ReplayKeys
<1>2. ReplayKey(r).ctime = r.ctime /\ ReplayKey(r).cusec = r.cusec
  BY DEF ReplayKey
<1>3. r.ctime \in Nat /\ r.cusec \in Nat
  BY TimeAssumption
<1> QED BY <1>1, <1>2, <1>3 DEF AuthTime

LEMMA ReplayKeyTimes ==
    ASSUME NEW k \in ReplayKeys
    PROVE  AuthTime(k) \in Nat
<1>1. PICK r \in Requests : k = ReplayKey(r)
  BY DEF ReplayKeys
<1> QED BY <1>1, ReplayKeyTime

\* abs_duration on natural numbers.
LEMMA AbsDuration ==
    ASSUME NEW a \in Nat, NEW b \in Nat
    PROVE  /\ abs_duration(a, b) \in Nat
           /\ ~ (abs_duration(a, b) > MaxClockSkew) <=>
                  abs_duration(a, b) <= MaxClockSkew
           /\ abs_duration(a, b) <= MaxClockSkew <=>
                  a <= b + MaxClockSkew /\ b <= a + MaxClockSkew
  BY TimeAssumption DEF abs_duration

\* ValidatorTypeOK is preserved by every step.
LEMMA TypeStep ==
    ASSUME ValidatorTypeOK, [ValidatorNext]_validatorVars
    PROVE  ValidatorTypeOK'
<1> USE CacheAssumption, TimeAssumption DEF ValidatorTypeOK
<1>1. ASSUME NEW v \in Validators, NEW r \in Requests, CheckTicket(v, r)
      PROVE  ValidatorTypeOK'
  <2>1. TicketVerdict(v, r, now) \in Verdicts
    BY TicketVerdictRange DEF Verdicts
  <2>2. CASE TicketVerdict(v, r, now) = "Ok"
    <3>1. /\ pc' = [pc EXCEPT ![v] = "authenticator"]
          /\ job' = [job EXCEPT ![v] = r]
          /\ began' = [began EXCEPT ![v] = now]
          /\ verdict' = [verdict EXCEPT ![v] = "None"]
          /\ UNCHANGED <<now, cache, stamp, presented>>
      BY <1>1, <2>2 DEF CheckTicket
    <3>2. verdict' \in [Validators -> Verdicts]
      BY <3>1 DEF Verdicts
    <3> QED BY <3>1, <3>2
  <2>3. CASE TicketVerdict(v, r, now) # "Ok"
    <3>1. /\ verdict' = [verdict EXCEPT ![v] = TicketVerdict(v, r, now)]
          /\ UNCHANGED <<now, cache, pc, job, began, stamp, presented>>
      BY <1>1, <2>3 DEF CheckTicket
    <3> QED BY <3>1, <2>1
  <2> QED BY <2>2, <2>3
<1>2. ASSUME NEW v \in Validators, CheckAuthenticator(v)
      PROVE  ValidatorTypeOK'
  <2>1. job[v] \in Requests
    BY <1>2 DEF CheckAuthenticator
  <2>2. AuthenticatorVerdict(job[v], now) \in Verdicts
    BY <2>1, AuthenticatorVerdictRange DEF Verdicts
  <2>3. CASE AuthenticatorVerdict(job[v], now) = "Ok"
    <3>1. /\ pc' = [pc EXCEPT ![v] = "record"]
          /\ stamp' = [stamp EXCEPT ![v] = now]
          /\ UNCHANGED <<now, cache, job, began, verdict, presented>>
      BY <1>2, <2>3 DEF CheckAuthenticator
    <3> QED BY <3>1, <2>1
  <2>4. CASE AuthenticatorVerdict(job[v], now) # "Ok"
    <3>1. Return(v, AuthenticatorVerdict(job[v], now))
          /\ UNCHANGED <<now, cache, presented>>
      BY <1>2, <2>4 DEF CheckAuthenticator
    <3> QED BY <3>1, <2>2 DEF Return
  <2> QED BY <2>3, <2>4
<1>3. ASSUME NEW v \in Validators, record_replay(v)
      PROVE  ValidatorTypeOK'
  <2>1. job[v] \in Requests /\ ReplayKey(job[v]) \in ReplayKeys
    BY <1>3, ReplayKeyTime DEF record_replay
  <2>2. CacheOf[v] \in Caches
    OBVIOUS
  <2>3. cache' \in [Caches -> [ReplayKeys -> Nat \cup {Absent}]]
    BY <1>3, <2>1, <2>2 DEF record_replay, insert
  <2> QED BY <1>3, <2>1, <2>2, <2>3 DEF record_replay, Return, Verdicts
<1>4. ASSUME NEW c \in Caches, clear_older_than(c)
      PROVE  ValidatorTypeOK'
  BY <1>4 DEF clear_older_than
<1>5. ASSUME NEW c \in Caches, clear(c)
      PROVE  ValidatorTypeOK'
  BY <1>5 DEF clear
<1>6. CASE Tick
  BY <1>6 DEF Tick
<1>7. CASE UNCHANGED validatorVars
  BY <1>7 DEF validatorVars
<1> QED BY <1>1, <1>2, <1>3, <1>4, <1>5, <1>6, <1>7 DEF ValidatorNext

\* The invariant holds initially.
LEMMA ValidatorInitInv == ValidatorInit => ValidatorInv
<1> SUFFICES ASSUME ValidatorInit PROVE ValidatorInv
  OBVIOUS
<1> USE DEF ValidatorInit
<1>1. ValidatorTypeOK
  BY TimeAssumption DEF ValidatorTypeOK, Verdicts
<1>2. StampsInWindow
  BY DEF StampsInWindow
<1>3. ValidationsInTime
  BY DEF ValidationsInTime
<1>4. RetentionCoversReplays
  BY DEF RetentionCoversReplays
<1>5. CachedWasPresented
  BY DEF CachedWasPresented
<1> QED BY <1>1, <1>2, <1>3, <1>4, <1>5 DEF ValidatorInv

\* A request that is about to be recorded carries a stamp in its window, and
\* the clock has not moved more than MaxDelay since.
LEMMA RecordWindow ==
    ASSUME ValidatorInv, NEW v \in Validators, pc[v] = "record"
    PROVE  /\ job[v] \in Requests
           /\ now \in Nat /\ stamp[v] \in Nat
           /\ AuthTime(job[v]) \in Nat
           /\ AuthTime(job[v]) <= stamp[v] + MaxClockSkew
           /\ stamp[v] <= AuthTime(job[v]) + MaxClockSkew
           /\ stamp[v] <= now /\ now <= stamp[v] + MaxDelay
<1>1. /\ job[v] \in Requests /\ now \in Nat
      /\ stamp[v] \in Nat /\ began[v] \in Nat
  BY DEF ValidatorInv, ValidatorTypeOK
<1>2. AuthTime(job[v]) \in Nat
  BY <1>1, ReplayKeyTime
<1>3. /\ began[v] <= stamp[v] /\ stamp[v] <= now /\ now <= began[v] + MaxDelay
      /\ abs_duration(stamp[v], AuthTime(job[v])) <= MaxClockSkew
  BY DEF ValidatorInv, ValidationsInTime
<1>4. now <= stamp[v] + MaxDelay
  BY <1>1, <1>3, TimeAssumption
<1> QED BY <1>1, <1>2, <1>3, <1>4, AbsDuration

\* The invariant is inductive.
LEMMA ValidatorInvStep == ValidatorInv /\ [ValidatorNext]_validatorVars => ValidatorInv'
<1> SUFFICES ASSUME ValidatorInv, [ValidatorNext]_validatorVars PROVE ValidatorInv'
  OBVIOUS
<1>t. ValidatorTypeOK /\ ValidatorTypeOK'
  BY TypeStep DEF ValidatorInv
<1>1. ASSUME NEW v \in Validators, NEW r \in Requests, CheckTicket(v, r)
      PROVE  ValidatorInv'
  <2>1. StampsInWindow' /\ RetentionCoversReplays' /\ CachedWasPresented'
    BY <1>1 DEF CheckTicket, ValidatorInv, StampsInWindow, RetentionCoversReplays,
                CachedWasPresented
  <2>2. ASSUME NEW w \in Validators
        PROVE  ValidationsInTime!(w)'
    <3>1. CASE w = v /\ TicketVerdict(v, r, now) = "Ok"
      <4>1. /\ pc'[w] = "authenticator" /\ job'[w] = r /\ began'[w] = now
            /\ now' = now
        BY <1>1, <3>1 DEF CheckTicket, ValidatorTypeOK, ValidatorInv
      <4>2. validate_ticket_times(r, now) = "Ok"
        BY <3>1, TicketVerdictRange
      <4>3. now \in Nat /\ now <= now + MaxDelay
        BY <1>t, TimeAssumption DEF ValidatorTypeOK
      <4> QED BY <4>1, <4>2, <4>3
    <3>2. CASE ~ (w = v /\ TicketVerdict(v, r, now) = "Ok")
      <4>1. /\ pc'[w] = pc[w] /\ job'[w] = job[w] /\ began'[w] = began[w]
            /\ stamp'[w] = stamp[w] /\ now' = now
        BY <1>1, <3>2 DEF CheckTicket, ValidatorTypeOK, ValidatorInv
      <4> QED BY <4>1 DEF ValidatorInv, ValidationsInTime
    <3> QED BY <3>1, <3>2
  <2>3. ValidationsInTime'
    BY <2>2 DEF ValidationsInTime
  <2> QED BY <1>t, <2>1, <2>3 DEF ValidatorInv
<1>2. ASSUME NEW v \in Validators, CheckAuthenticator(v)
      PROVE  ValidatorInv'
  <2>1. StampsInWindow' /\ RetentionCoversReplays' /\ CachedWasPresented'
    BY <1>2 DEF CheckAuthenticator, ValidatorInv, StampsInWindow, RetentionCoversReplays,
                CachedWasPresented
  <2>2. ASSUME NEW w \in Validators
        PROVE  ValidationsInTime!(w)'
    <3>1. CASE w = v /\ AuthenticatorVerdict(job[v], now) = "Ok"
      <4>1. /\ pc'[w] = "record" /\ stamp'[w] = now
            /\ job'[w] = job[w] /\ began'[w] = began[w] /\ now' = now
        BY <1>2, <3>1 DEF CheckAuthenticator, ValidatorTypeOK, ValidatorInv
      <4>2. job[v] \in Requests /\ now \in Nat /\ pc[v] = "authenticator"
        BY <1>2, <1>t DEF CheckAuthenticator, ValidatorTypeOK
      <4>3. ~ (abs_duration(now, AuthTime(job[v])) > MaxClockSkew)
        BY <3>1, <4>2, AuthenticatorVerdictRange
      <4>4. abs_duration(now, AuthTime(job[v])) <= MaxClockSkew
        BY <4>2, <4>3, AbsDuration, ReplayKeyTime
      <4>5. /\ began[v] <= now /\ now <= began[v] + MaxDelay
            /\ validate_ticket_times(job[v], began[v]) = "Ok"
        BY <4>2 DEF ValidatorInv, ValidationsInTime
      <4>6. now <= now
        BY <4>2
      <4> QED BY <3>1, <4>1, <4>4, <4>5, <4>6
    <3>2. CASE w = v /\ AuthenticatorVerdict(job[v], now) # "Ok"
      <4>1. pc'[w] = "idle"
        BY <1>2, <3>2 DEF CheckAuthenticator, Return, ValidatorTypeOK, ValidatorInv
      <4> QED BY <4>1
    <3>3. CASE w # v
      <4>1. /\ pc'[w] = pc[w] /\ job'[w] = job[w] /\ began'[w] = began[w]
            /\ stamp'[w] = stamp[w] /\ now' = now
        BY <1>2, <3>3 DEF CheckAuthenticator, Return, ValidatorTypeOK, ValidatorInv
      <4> QED BY <4>1 DEF ValidatorInv, ValidationsInTime
    <3> QED BY <3>1, <3>2, <3>3
  <2>3. ValidationsInTime'
    BY <2>2 DEF ValidationsInTime
  <2> QED BY <1>t, <2>1, <2>3 DEF ValidatorInv
<1>3. ASSUME NEW v \in Validators, record_replay(v)
      PROVE  ValidatorInv'
  <2> DEFINE c == CacheOf[v]
             k == ReplayKey(job[v])
  <2>1. /\ cache' = [cache EXCEPT ![c][k] = stamp[v]]
        /\ presented' = presented \cup {<<c, k>>}
        /\ now' = now /\ pc[v] = "record"
    BY <1>3 DEF record_replay, insert
  <2>2. /\ job[v] \in Requests /\ stamp[v] \in Nat
        /\ AuthTime(job[v]) \in Nat
        /\ AuthTime(job[v]) <= stamp[v] + MaxClockSkew
        /\ stamp[v] <= AuthTime(job[v]) + MaxClockSkew
    BY <2>1, RecordWindow
  <2>3. /\ c \in Caches /\ k \in ReplayKeys
        /\ AuthTime(k) = AuthTime(job[v])
        /\ abs_duration(stamp[v], AuthTime(k)) <= MaxClockSkew
    BY <2>2, ReplayKeyTime, AbsDuration, CacheAssumption
  <2>4. cache \in [Caches -> [ReplayKeys -> Nat \cup {Absent}]]
    BY <1>t DEF ValidatorTypeOK
  <2> HIDE DEF c, k
  <2>5. ASSUME NEW d \in Caches, NEW l \in ReplayKeys
        PROVE  cache'[d][l] = IF d = c /\ l = k THEN stamp[v] ELSE cache[d][l]
    BY <2>1, <2>3, <2>4
  <2>6. StampsInWindow'
    BY <2>3, <2>5 DEF ValidatorInv, StampsInWindow
  <2>7. RetentionCoversReplays'
    <3> SUFFICES ASSUME NEW p \in presented'
                 PROVE  \/ cache'[p[1]][p[2]] # Absent
                        \/ now' > AuthTime(p[2]) + MaxClockSkew + MaxDelay
      BY DEF RetentionCoversReplays
    <3>1. CASE p = <<c, k>>
      <4>1. cache'[c][k] = stamp[v] /\ stamp[v] # Absent
        BY <2>2, <2>3, <2>5 DEF Absent
      <4> QED BY <3>1, <4>1
    <3>2. CASE p # <<c, k>>
      <4>1. p \in presented /\ p[1] \in Caches /\ p[2] \in ReplayKeys
        BY <2>1, <3>2, <1>t DEF ValidatorTypeOK
      <4>2. p = <<p[1], p[2]>>
        BY <4>1, <1>t DEF ValidatorTypeOK
      <4>3. cache'[p[1]][p[2]] = cache[p[1]][p[2]]
        BY <2>5, <3>2, <4>1, <4>2
      <4> QED BY <2>1, <4>1, <4>3 DEF ValidatorInv, RetentionCoversReplays
    <3> QED BY <3>1, <3>2
  <2>8. ASSUME NEW w \in Validators
        PROVE  ValidationsInTime!(w)'
    <3>1. CASE w = v
      <4>1. pc'[w] = "idle"
        BY <1>3, <1>t, <3>1 DEF record_replay, Return, ValidatorTypeOK
      <4> QED BY <4>1
    <3>2. CASE w # v
      <4>1. /\ pc'[w] = pc[w] /\ job'[w] = job[w] /\ began'[w] = began[w]
            /\ stamp'[w] = stamp[w] /\ now' = now
        BY <1>3, <1>t, <3>2 DEF record_replay, Return, ValidatorTypeOK
      <4> QED BY <4>1 DEF ValidatorInv, ValidationsInTime
    <3> QED BY <3>1, <3>2
  <2>9. ValidationsInTime'
    BY <2>8 DEF ValidationsInTime
  <2>10. CachedWasPresented'
    BY <2>1, <2>5 DEF ValidatorInv, CachedWasPresented
  <2> QED BY <1>t, <2>6, <2>7, <2>9, <2>10 DEF ValidatorInv
<1>4. ASSUME NEW c \in Caches, clear_older_than(c)
      PROVE  ValidatorInv'
  <2>1. ASSUME NEW d \in Caches, NEW l \in ReplayKeys
        PROVE  \/ cache'[d][l] = cache[d][l]
               \/ cache'[d][l] = Absent /\ ~ Retained(cache[d][l])
    BY <1>4, <1>t DEF clear_older_than, ValidatorTypeOK
  <2>2. StampsInWindow'
    BY <2>1 DEF ValidatorInv, StampsInWindow
  <2>3. RetentionCoversReplays'
    <3> SUFFICES ASSUME NEW p \in presented'
                 PROVE  \/ cache'[p[1]][p[2]] # Absent
                        \/ now' > AuthTime(p[2]) + MaxClockSkew + MaxDelay
      BY DEF RetentionCoversReplays
    <3>1. /\ p \in presented /\ p[1] \in Caches /\ p[2] \in ReplayKeys
          /\ now' = now /\ now \in Nat
      BY <1>4, <1>t DEF clear_older_than, ValidatorTypeOK
    <3>2. \/ cache[p[1]][p[2]] # Absent
          \/ now > AuthTime(p[2]) + MaxClockSkew + MaxDelay
      BY <3>1 DEF ValidatorInv, RetentionCoversReplays
    <3>3. CASE cache'[p[1]][p[2]] = cache[p[1]][p[2]]
      BY <3>1, <3>2, <3>3
    <3>4. CASE cache[p[1]][p[2]] # Absent /\ ~ Retained(cache[p[1]][p[2]])
      <4> DEFINE s == cache[p[1]][p[2]]
      <4>1. s \in Nat /\ AuthTime(p[2]) \in Nat
        BY <3>1, <3>4, <1>t, ReplayKeyTimes DEF ValidatorTypeOK
      <4>2. abs_duration(s, AuthTime(p[2])) <= MaxClockSkew
        BY <3>1, <3>4 DEF ValidatorInv, StampsInWindow
      <4> HIDE DEF s
      <4>3. AuthTime(p[2]) <= s + MaxClockSkew
        BY <4>1, <4>2, AbsDuration
      <4>4. now - s > MaxAge
        BY <3>1, <3>4, <4>1, TimeAssumption DEF Retained, s
      <4> QED BY <3>1, <4>1, <4>3, <4>4, TimeAssumption, RetentionAssumption
    <3> QED BY <2>1, <3>1, <3>2, <3>3, <3>4
  <2>4. ValidationsInTime'
    BY <1>4 DEF clear_older_than, ValidatorInv, ValidationsInTime
  <2>5. CachedWasPresented'
    BY <1>4, <2>1 DEF clear_older_than, ValidatorInv, CachedWasPresented
  <2> QED BY <1>t, <2>2, <2>3, <2>4, <2>5 DEF ValidatorInv
<1>5. ASSUME NEW c \in Caches, clear(c)
      PROVE  ValidatorInv'
  <2>1. ASSUME NEW d \in Caches, NEW l \in ReplayKeys
        PROVE  cache'[d][l] = IF d = c THEN Absent ELSE cache[d][l]
    BY <1>5, <1>t DEF clear, ValidatorTypeOK
  <2>2. StampsInWindow'
    BY <2>1 DEF ValidatorInv, StampsInWindow
  <2>3. RetentionCoversReplays'
    <3> SUFFICES ASSUME NEW p \in presented'
                 PROVE  \/ cache'[p[1]][p[2]] # Absent
                        \/ now' > AuthTime(p[2]) + MaxClockSkew + MaxDelay
      BY DEF RetentionCoversReplays
    <3>1. /\ p \in presented /\ p[1] # c
          /\ p[1] \in Caches /\ p[2] \in ReplayKeys /\ now' = now
      BY <1>5, <1>t DEF clear, ValidatorTypeOK
    <3> QED BY <2>1, <3>1 DEF ValidatorInv, RetentionCoversReplays
  <2>4. ValidationsInTime'
    BY <1>5 DEF clear, ValidatorInv, ValidationsInTime
  <2>5. CachedWasPresented'
    BY <1>5, <2>1 DEF clear, ValidatorInv, CachedWasPresented
  <2> QED BY <1>t, <2>2, <2>3, <2>4, <2>5 DEF ValidatorInv
<1>6. CASE Tick
  <2>1. /\ now' = now + 1 /\ now \in Nat
        /\ UNCHANGED <<cache, pc, job, began, stamp, verdict, presented>>
    BY <1>6, <1>t DEF Tick, ValidatorTypeOK
  <2>2. StampsInWindow'
    BY <2>1 DEF ValidatorInv, StampsInWindow
  <2>3. RetentionCoversReplays'
    <3> SUFFICES ASSUME NEW p \in presented, cache[p[1]][p[2]] = Absent
                 PROVE  now' > AuthTime(p[2]) + MaxClockSkew + MaxDelay
      BY <2>1 DEF RetentionCoversReplays
    <3>1. now > AuthTime(p[2]) + MaxClockSkew + MaxDelay
      BY DEF ValidatorInv, RetentionCoversReplays
    <3>2. p[2] \in ReplayKeys
      BY <1>t DEF ValidatorTypeOK
    <3>3. AuthTime(p[2]) \in Nat
      BY <3>2, ReplayKeyTimes
    <3> QED BY <2>1, <3>1, <3>3, TimeAssumption
  <2>4. ASSUME NEW w \in Validators
        PROVE  ValidationsInTime!(w)'
    <3>1. began[w] \in Nat /\ stamp[w] \in Nat
      BY <1>t DEF ValidatorTypeOK
    <3>2. CASE pc[w] = "idle"
      BY <2>1, <3>2
    <3>3. CASE pc[w] # "idle"
      <4>1. now - began[w] < MaxDelay
        BY <1>6, <3>3 DEF Tick
      <4>2. began[w] <= now' /\ now' <= began[w] + MaxDelay
        BY <2>1, <3>1, <3>3, <4>1, TimeAssumption DEF ValidatorInv, ValidationsInTime
      <4>3. pc[w] = "record" => stamp[w] <= now'
        BY <2>1, <3>1 DEF ValidatorInv, ValidationsInTime
      <4> QED BY <2>1, <3>3, <4>2, <4>3 DEF ValidatorInv, ValidationsInTime
    <3> QED BY <3>2, <3>3
  <2>5. ValidationsInTime'
    BY <2>4 DEF ValidationsInTime
  <2>6. CachedWasPresented'
    BY <2>1 DEF ValidatorInv, CachedWasPresented
  <2> QED BY <1>t, <2>2, <2>3, <2>5, <2>6 DEF ValidatorInv
<1>7. CASE UNCHANGED validatorVars
  BY <1>7, <1>t DEF validatorVars, ValidatorInv, StampsInWindow, ValidationsInTime,
                    RetentionCoversReplays, CachedWasPresented
<1> QED BY <1>1, <1>2, <1>3, <1>4, <1>5, <1>6, <1>7 DEF ValidatorNext

\* Every reachable state satisfies the invariant.
THEOREM ValidatorInvariance == ValidatorSpec => []ValidatorInv
<1> QED BY ValidatorInitInv, ValidatorInvStep, PTL DEF ValidatorSpec

\* No entry is purged from a replay cache while the request it stands for
\* could still pass the skew check (ReplayCache::clear_older_than).
THEOREM RetentionIsEnough == ValidatorSpec => []RetentionCoversReplays
<1>1. ValidatorInv => RetentionCoversReplays
  BY DEF ValidatorInv
<1> QED BY <1>1, ValidatorInvariance, PTL

\* What was checked with two stale clock readings still holds, up to the skew
\* and the duration of the validation, when the request is accepted.
LEMMA AcceptStep ==
    ValidatorInv /\ [ValidatorNext]_validatorVars
        => [\A v \in Validators : AcceptsRequest(v) => AcceptedCurrent(job[v])]_validatorVars
<1> SUFFICES ASSUME ValidatorInv, [ValidatorNext]_validatorVars, NEW v \in Validators, AcceptsRequest(v)
             PROVE  AcceptedCurrent(job[v])
  OBVIOUS
<1>1. pc[v] = "record"
  BY DEF AcceptsRequest
<1>2. /\ job[v] \in Requests /\ now \in Nat /\ began[v] \in Nat
      /\ job[v].start \in Nat /\ job[v].end \in Nat
  BY <1>1, TimeAssumption DEF ValidatorInv, ValidatorTypeOK
<1>3. /\ began[v] <= now /\ now <= began[v] + MaxDelay
      /\ validate_ticket_times(job[v], began[v]) = "Ok"
  BY <1>1 DEF ValidatorInv, ValidationsInTime
<1>4. /\ ~ (job[v].start - began[v] > MaxClockSkew) /\ ~ job[v].invalid
      /\ ~ (began[v] - job[v].end > MaxClockSkew)
  BY <1>3 DEF validate_ticket_times, starts_after_skew, expired_after_skew
<1>5. /\ job[v].start <= now + MaxClockSkew
      /\ now <= job[v].end + MaxClockSkew + MaxDelay
  BY <1>2, <1>3, <1>4, TimeAssumption
<1>6. /\ AuthTime(job[v]) <= now + MaxClockSkew
      /\ now <= AuthTime(job[v]) + MaxClockSkew + MaxDelay
  BY <1>1, RecordWindow, TimeAssumption
<1> QED BY <1>4, <1>5, <1>6 DEF AcceptedCurrent

\* A request is only accepted while its ticket and its authenticator are
\* current (validate_ap_req).
THEOREM AcceptanceIsTimely == ValidatorSpec => AcceptedWhileCurrent
<1> QED BY ValidatorInvariance, AcceptStep, PTL DEF ValidatorSpec, AcceptedWhileCurrent

\* Under the invariant the cache and the memory that never forgets agree about
\* the key that is being recorded.
LEMMA CacheAgreesWithMemory ==
    ASSUME ValidatorInv, NEW v \in Validators, pc[v] = "record"
    PROVE  cache[CacheOf[v]][ReplayKey(job[v])] = Absent
              <=> <<CacheOf[v], ReplayKey(job[v])>> \notin presented
<1> DEFINE c == CacheOf[v]
           k == ReplayKey(job[v])
<1>1. /\ job[v] \in Requests /\ now \in Nat /\ stamp[v] \in Nat
      /\ AuthTime(job[v]) \in Nat
      /\ stamp[v] <= AuthTime(job[v]) + MaxClockSkew
      /\ now <= stamp[v] + MaxDelay
  BY RecordWindow
<1>2. c \in Caches /\ k \in ReplayKeys /\ AuthTime(k) = AuthTime(job[v])
  BY <1>1, ReplayKeyTime, CacheAssumption
<1>3. ~ (now > AuthTime(k) + MaxClockSkew + MaxDelay)
  BY <1>1, <1>2, TimeAssumption
<1> HIDE DEF c, k
<1>4. ASSUME <<c, k>> \in presented
      PROVE  cache[c][k] # Absent
  BY <1>3, <1>4 DEF ValidatorInv, RetentionCoversReplays
<1>5. cache[c][k] # Absent => <<c, k>> \in presented
  BY <1>2 DEF ValidatorInv, CachedWasPresented
<1> QED BY <1>4, <1>5 DEF c, k

\* Every step of the validators is a step of ReplayGuard or leaves it alone.
LEMMA GuardStep == ValidatorInv /\ [ValidatorNext]_validatorVars => [Guard!GuardNext]_(Guard!guardVars)
<1> SUFFICES ASSUME ValidatorInv, [ValidatorNext]_validatorVars
             PROVE  [Guard!GuardNext]_(Guard!guardVars)
  OBVIOUS
<1> USE DEF Guard!GuardNext, Guard!guardVars
<1>1. ASSUME NEW v \in Validators, NEW r \in Requests, CheckTicket(v, r)
      PROVE  Guard!Other(v)
  <2>1. UNCHANGED presented
    BY <1>1 DEF CheckTicket
  <2>2. \E e \in (TicketErrors \cup AuthenticatorErrors) \cup {"None"} :
            verdict' = [verdict EXCEPT ![v] = e]
    BY <1>1, TicketVerdictRange DEF CheckTicket
  <2> QED BY <2>1, <2>2 DEF Guard!Other
<1>2. ASSUME NEW v \in Validators, CheckAuthenticator(v)
      PROVE  Guard!Other(v) \/ UNCHANGED <<presented, verdict>>
  <2>1. job[v] \in Requests /\ UNCHANGED presented
    BY <1>2 DEF CheckAuthenticator, ValidatorInv, ValidatorTypeOK
  <2>2. CASE AuthenticatorVerdict(job[v], now) = "Ok"
    BY <1>2, <2>1, <2>2 DEF CheckAuthenticator
  <2>3. CASE AuthenticatorVerdict(job[v], now) # "Ok"
    <3>1. verdict' = [verdict EXCEPT ![v] = AuthenticatorVerdict(job[v], now)]
      BY <1>2, <2>3 DEF CheckAuthenticator, Return
    <3>2. AuthenticatorVerdict(job[v], now) \in AuthenticatorErrors
      BY <2>1, <2>3, AuthenticatorVerdictRange
    <3> QED BY <2>1, <3>1, <3>2 DEF Guard!Other
  <2> QED BY <2>2, <2>3
<1>3. ASSUME NEW v \in Validators, record_replay(v)
      PROVE  \E k \in ReplayKeys : Guard!Present(v, k)
  <2> DEFINE k == ReplayKey(job[v])
  <2>1. pc[v] = "record" /\ k \in ReplayKeys
    BY <1>3, ReplayKeyTime DEF record_replay, ValidatorInv, ValidatorTypeOK
  <2>2. /\ verdict' = [verdict EXCEPT ![v] =
                          IF cache[CacheOf[v]][k] = Absent THEN "Ok" ELSE "Replay"]
        /\ presented' = presented \cup {<<CacheOf[v], k>>}
    BY <1>3 DEF record_replay, Return
  <2>3. cache[CacheOf[v]][k] = Absent <=> <<CacheOf[v], k>> \notin presented
    BY <2>1, CacheAgreesWithMemory
  <2> HIDE DEF k
  <2>4. Guard!Present(v, k)
    BY <2>2, <2>3 DEF Guard!Present, Guard!Judge
  <2> QED BY <2>1, <2>4
<1>4. ASSUME NEW c \in Caches, clear_older_than(c)
      PROVE  UNCHANGED <<presented, verdict>>
  BY <1>4 DEF clear_older_than
<1>5. ASSUME NEW c \in Caches, clear(c)
      PROVE  Guard!Forget(c)
  BY <1>5 DEF clear, Guard!Forget
<1>6. CASE Tick
  BY <1>6 DEF Tick
<1>7. CASE UNCHANGED validatorVars
  BY <1>7 DEF validatorVars
<1> QED BY <1>1, <1>2, <1>3, <1>4, <1>5, <1>6, <1>7 DEF ValidatorNext

\* The concurrent, aged replay cache implements the memory that never forgets:
\* no authenticator is accepted twice by validators that share a cache.
THEOREM ReplayDetection == ValidatorSpec => PurgingIsInvisible
<1>1. ValidatorInit => Guard!GuardInit
  BY DEF ValidatorInit, Guard!GuardInit
<1> QED BY <1>1, ValidatorInvariance, GuardStep, PTL DEF ValidatorSpec, PurgingIsInvisible, Guard!GuardSpec

-----------------------------------------------------------------------------
(* Rotation.                                                                *)

\* Division with remainder is unique.
LEMMA ModUnique ==
    ASSUME NEW n \in Nat \ {0}, NEW q \in Int, NEW r \in 0 .. n - 1
    PROVE  (q * n + r) % n = r
<1>1. PICK a \in Int : a = q * n + r
  OBVIOUS
<1>2. a % n \in 0 .. n - 1 /\ a = n * (a \div n) + (a % n) /\ a \div n \in Int
  OBVIOUS
<1>3. PICK d \in Int : d = a \div n
  BY <1>2
<1>4. PICK m \in Int : m = a % n
  BY <1>2
<1>5. q * n + r = n * d + m /\ m \in 0 .. n - 1
  BY <1>1, <1>2, <1>3, <1>4
<1>6. d = q
  <2>1. n * (d - q) = r - m
    BY <1>5
  <2>2. CASE d - q >= 1
    <3>1. n * (d - q) >= n
      BY <2>2
    <3> QED
      BY <2>1, <3>1, <1>5
  <2>3. CASE d - q <= -1
    <3>1. n * (d - q) <= -n
      BY <2>3
    <3> QED
      BY <2>1, <3>1, <1>5
  <2> QED
    BY <2>2, <2>3
<1> QED
  BY <1>1, <1>4, <1>5, <1>6

LEMMA ModShift ==
    ASSUME NEW n \in Nat \ {0}, NEW u \in Int, NEW v \in Int
    PROVE  ((u % n) + v) % n = (u + v) % n
<1>1. PICK q \in Int, r \in 0 .. n - 1 : u = q * n + r /\ u % n = r
  <2>1. u % n \in 0 .. n - 1 /\ u = (u \div n) * n + (u % n) /\ u \div n \in Int
    OBVIOUS
  <2> QED
    BY <2>1
<1>2. PICK w \in Int : w = r + v
  OBVIOUS
<1>3. PICK p \in Int, m \in 0 .. n - 1 : w = p * n + m
  <2>1. w % n \in 0 .. n - 1 /\ w = (w \div n) * n + (w % n) /\ w \div n \in Int
    OBVIOUS
  <2> QED
    BY <2>1
<1>4. u + v = (p + q) * n + m
  BY <1>1, <1>2, <1>3
<1>5. w % n = m
  BY <1>3, ModUnique
<1>6. (u + v) % n = m
  <2>1. PICK s \in Int : s = p + q
    OBVIOUS
  <2>2. (s * n + m) % n = m
    BY ModUnique
  <2> QED
    BY <1>4, <2>1, <2>2
<1> QED
  BY <1>1, <1>2, <1>5, <1>6

\* A rotated sequence has the same units.
LEMMA RotateFacts ==
    ASSUME NEW S, NEW bytes \in Seq(S), NEW count \in Int
    PROVE  /\ rotate_right(bytes, count) \in Seq(S) /\ rotate_left(bytes, count) \in Seq(S)
           /\ Len(rotate_right(bytes, count)) = Len(bytes)
           /\ Len(rotate_left(bytes, count)) = Len(bytes)
           /\ \A i \in 1 .. Len(bytes) :
                 /\ rotate_right(bytes, count)[i] = bytes[((i - 1 - count) % Len(bytes)) + 1]
                 /\ rotate_left(bytes, count)[i] = bytes[((i - 1 + count) % Len(bytes)) + 1]
                 /\ ((i - 1 - count) % Len(bytes)) + 1 \in 1 .. Len(bytes)
                 /\ ((i - 1 + count) % Len(bytes)) + 1 \in 1 .. Len(bytes)
<1>1. PICK n \in Nat : n = Len(bytes)
  OBVIOUS
<1>2. \A i \in 1 .. n : /\ ((i - 1 - count) % n) + 1 \in 1 .. n
                        /\ ((i - 1 + count) % n) + 1 \in 1 .. n
  OBVIOUS
<1>3. \A j \in 1 .. n : bytes[j] \in S
  BY <1>1
<1>4. rotate_right(bytes, count) = [i \in 1 .. n |-> bytes[((i - 1 - count) % n) + 1]]
  BY <1>1 DEF rotate_right
<1>5. rotate_left(bytes, count) = [i \in 1 .. n |-> bytes[((i - 1 + count) % n) + 1]]
  BY <1>1 DEF rotate_left
<1>6. PICK right : right = [i \in 1 .. n |-> bytes[((i - 1 - count) % n) + 1]]
  OBVIOUS
<1>7. PICK left : left = [i \in 1 .. n |-> bytes[((i - 1 + count) % n) + 1]]
  OBVIOUS
<1>8. right \in [1 .. n -> S] /\ left \in [1 .. n -> S]
  BY <1>2, <1>3, <1>6, <1>7
<1>9. right \in Seq(S) /\ Len(right) = n /\ left \in Seq(S) /\ Len(left) = n
  BY <1>8
<1> QED
  BY <1>1, <1>2, <1>4, <1>5, <1>6, <1>7, <1>9

\* rotate_left takes rotate_right back.
LEMMA Unrotate ==
    ASSUME NEW S, NEW bytes \in Seq(S), NEW count \in Int
    PROVE  rotate_left(rotate_right(bytes, count), count) = bytes
<1>1. PICK n \in Nat : n = Len(bytes)
  OBVIOUS
<1>2. PICK right : right = rotate_right(bytes, count)
  OBVIOUS
<1>3. right \in Seq(S) /\ Len(right) = n
  BY <1>1, <1>2, RotateFacts
<1>4. PICK back : back = rotate_left(right, count)
  OBVIOUS
<1>5. back \in Seq(S) /\ Len(back) = n
  BY <1>3, <1>4, RotateFacts
<1>6. ASSUME NEW i \in 1 .. n PROVE back[i] = bytes[i]
  <2>1. PICK j : j = ((i - 1 + count) % n) + 1
    OBVIOUS
  <2>2. j \in 1 .. n /\ back[i] = right[j]
    BY <1>3, <1>4, <2>1, RotateFacts
  <2>3. right[j] = bytes[((j - 1 - count) % n) + 1]
    BY <1>1, <1>2, <2>2, RotateFacts
  <2>4. (j - 1 - count) % n = i - 1
    <3>1. n \in Nat \ {0} /\ i - 1 + count \in Int /\ -count \in Int
      OBVIOUS
    <3>2. (((i - 1 + count) % n) + (-count)) % n = ((i - 1 + count) + (-count)) % n
      BY <3>1, ModShift
    <3>3. (i - 1) % n = i - 1
      <4>1. i - 1 \in 0 .. n - 1 /\ 0 \in Int
        OBVIOUS
      <4>2. (0 * n + (i - 1)) % n = i - 1
        BY <3>1, <4>1, ModUnique
      <4> QED
        BY <4>2
    <3>4. j - 1 - count = ((i - 1 + count) % n) + (-count) /\ (i - 1 + count) + (-count) = i - 1
      BY <2>1, <2>2
    <3> QED
      BY <3>2, <3>3, <3>4
  <2> QED
    BY <2>2, <2>3, <2>4
<1> QED
  BY <1>1, <1>2, <1>4, <1>5, <1>6, SeqEqual

\* Rotations add up.
LEMMA RotateTwice ==
    ASSUME NEW S, NEW bytes \in Seq(S), NEW a \in Int, NEW b \in Int
    PROVE  rotate_right(rotate_right(bytes, a), b) = rotate_right(bytes, a + b)
<1>1. PICK n \in Nat : n = Len(bytes)
  OBVIOUS
<1>2. PICK once : once = rotate_right(bytes, a)
  OBVIOUS
<1>3. once \in Seq(S) /\ Len(once) = n
  BY <1>1, <1>2, RotateFacts
<1>4. PICK twice : twice = rotate_right(once, b)
  OBVIOUS
<1>5. PICK c \in Int : c = a + b
  OBVIOUS
<1>6. PICK full : full = rotate_right(bytes, c)
  OBVIOUS
<1>7. twice \in Seq(S) /\ Len(twice) = n /\ full \in Seq(S) /\ Len(full) = n
  BY <1>1, <1>3, <1>4, <1>6, RotateFacts
<1>8. ASSUME NEW i \in 1 .. n PROVE twice[i] = full[i]
  <2>1. PICK j : j = ((i - 1 - b) % n) + 1
    OBVIOUS
  <2>2. j \in 1 .. n /\ twice[i] = once[j]
    BY <1>3, <1>4, <2>1, RotateFacts
  <2>3. once[j] = bytes[((j - 1 - a) % n) + 1]
    BY <1>1, <1>2, <2>2, RotateFacts
  <2>4. full[i] = bytes[((i - 1 - c) % n) + 1]
    BY <1>1, <1>6, RotateFacts
  <2>5. (j - 1 - a) % n = (i - 1 - c) % n
    <3>1. n \in Nat \ {0} /\ i - 1 - b \in Int /\ -a \in Int
      OBVIOUS
    <3>2. (((i - 1 - b) % n) + (-a)) % n = ((i - 1 - b) + (-a)) % n
      BY <3>1, ModShift
    <3>3. j - 1 - a = ((i - 1 - b) % n) + (-a) /\ (i - 1 - b) + (-a) = i - 1 - c
      BY <1>5, <2>1, <2>2
    <3> QED
      BY <3>2, <3>3
  <2> QED
    BY <2>2, <2>3, <2>4, <2>5
<1>9. twice = full
  BY <1>7, <1>8, SeqEqual
<1> QED
  BY <1>2, <1>4, <1>5, <1>6, <1>9

-----------------------------------------------------------------------------
(* What is sent.                                                            *)

\* The contents of the checksum, or of the ciphertext, that a call made.
SumHeader(p) ==
    IF p.id = "mic" THEN mic_header(p.flags, p.seq) ELSE wrap_checksum_header(p.flags, p.seq)
Summed(p) == Append(p.payload, SumHeader(p))
Sum(p) == Checksum(p.key, p.usage, Summed(p))

Filler(ec) == [i \in 1 .. ec |-> [data |-> 0]]
Plaintext(p, ec) == p.payload \o Filler(ec) \o <<wrap_header(p.flags, ec, 0, p.seq)>>
Secret(p, ec) == encrypt_message(p.key, p.usage, Plaintext(p, ec))

LEMMA ProtectedFacts ==
    ASSUME NEW p \in Protected
    PROVE  /\ p.id \in {"mic", "wrap"} /\ p.flags \in FlagSets /\ p.seq \in Int
           /\ p.payload \in Payloads /\ p.payload \in Seq(Plain) /\ p.payload \in Seq(Unit)
           /\ p.key \in Keys /\ p.key \in Supported /\ p.usage \in Int /\ p.payload # Nil
<1>1. /\ p.id \in {"mic", "wrap"} /\ p.flags \in FlagSets /\ p.seq \in Int
      /\ p.payload \in Payloads /\ p.key \in Supported /\ p.usage \in Int
  BY DEF Protected
<1>2. p.payload \in Seq([data : Nat])
  BY <1>1, TokenAssumption
<1>3. p.payload \in Seq(Plain)
  <2>1. [data : Nat] \subseteq Plain
    BY DEF Plain
  <2> QED
    BY <1>2, <2>1, SeqMonotonic
<1>4. p.payload \in Seq(Unit)
  <2>1. Plain \subseteq Unit
    BY DEF Unit
  <2> QED
    BY <1>3, <2>1, SeqMonotonic
<1> QED
  BY <1>1, <1>3, <1>4, TokenAssumption, NilAssumption

LEMMA SumFacts ==
    ASSUME NEW p \in Protected
    PROVE  /\ SumHeader(p) \in Plain /\ Summed(p) \in Seq(Plain)
           /\ Sum(p) \in Seq(Unit) /\ Len(Sum(p)) = ChecksumLen /\ Sum(p) # Nil
           /\ \A i \in 1 .. ChecksumLen :
                 Sum(p)[i] = [mac |-> <<p.key, p.usage, Summed(p)>>, at |-> i]
<1>1. SumHeader(p) \in Plain
  <2>1. p.flags \in FlagSets /\ p.seq \in Int
    BY ProtectedFacts
  <2> QED
    BY <2>1 DEF SumHeader, mic_header, wrap_checksum_header, wrap_header, Plain
<1>2. Summed(p) \in Seq(Plain)
  BY <1>1, ProtectedFacts, AppendProperties DEF Summed
<1>3. PICK contents : contents = <<p.key, p.usage, Summed(p)>>
  OBVIOUS
<1>4. contents \in Contents
  BY <1>2, <1>3, ProtectedFacts DEF Contents
<1>5. Sum(p) = [i \in 1 .. ChecksumLen |-> [mac |-> contents, at |-> i]]
  BY <1>3 DEF Sum, Checksum
<1>6. ChecksumLen \in Nat
  BY TokenAssumption
<1>7. \A i \in 1 .. ChecksumLen : [mac |-> contents, at |-> i] \in Unit
  BY <1>4, <1>6 DEF Unit
<1>8. Sum(p) \in [1 .. ChecksumLen -> Unit]
  BY <1>5, <1>7
<1>9. Sum(p) \in Seq(Unit) /\ Len(Sum(p)) = ChecksumLen
  BY <1>6, <1>8
<1> QED
  BY <1>1, <1>2, <1>3, <1>5, <1>9, NilAssumption

LEMMA PlaintextFacts ==
    ASSUME NEW p \in Protected, NEW ec \in Nat
    PROVE  /\ Plaintext(p, ec) \in Seq(Plain)
           /\ Len(Plaintext(p, ec)) = Len(p.payload) + ec + 1
           /\ Plaintext(p, ec)[Len(Plaintext(p, ec))] = wrap_header(p.flags, ec, 0, p.seq)
           /\ SubSeq(Plaintext(p, ec), 1, Len(Plaintext(p, ec)) - 1 - ec) = p.payload
           /\ Plaintext(p, ec) # Nil
<1>1. PICK payload : payload = p.payload
  OBVIOUS
<1>2. PICK filler : filler = Filler(ec)
  OBVIOUS
<1>3. PICK header : header = wrap_header(p.flags, ec, 0, p.seq)
  OBVIOUS
<1>4. payload \in Seq(Plain)
  BY <1>1, ProtectedFacts
<1>5. filler \in Seq(Plain) /\ Len(filler) = ec
  <2>1. [data |-> 0] \in Plain
    BY DEF Plain
  <2>2. filler \in [1 .. ec -> Plain]
    BY <1>2, <2>1 DEF Filler
  <2> QED
    BY <2>2
<1>6. header \in Plain
  <2>1. p.flags \in FlagSets /\ p.seq \in Int
    BY ProtectedFacts
  <2> QED
    BY <1>3, <2>1 DEF wrap_header, Plain
<1>7. PICK text : text = payload \o filler \o <<header>>
  OBVIOUS
<1>8. payload \o filler \in Seq(Plain) /\ Len(payload \o filler) = Len(payload) + ec
      /\ \A i \in 1 .. Len(payload) : (payload \o filler)[i] = payload[i]
  BY <1>4, <1>5
<1>9. PICK front : front = payload \o filler
  OBVIOUS
<1>10. /\ text \in Seq(Plain) /\ Len(text) = Len(payload) + ec + 1
       /\ text[Len(text)] = header
       /\ \A i \in 1 .. Len(payload) : text[i] = payload[i]
  <2>1. /\ front \in Seq(Plain) /\ Len(front) = Len(payload) + ec /\ Len(payload) \in Nat
        /\ \A i \in 1 .. Len(payload) : front[i] = payload[i]
    BY <1>4, <1>8, <1>9
  <2>2. text = Append(front, header)
    BY <1>6, <1>7, <1>9, <2>1, AppendIsConcat
  <2>3. /\ text \in Seq(Plain) /\ Len(text) = Len(front) + 1
        /\ \A i \in 1 .. Len(front) : text[i] = front[i]
        /\ text[Len(front) + 1] = header
    BY <1>6, <2>1, <2>2, AppendProperties
  <2> QED
    BY <2>1, <2>3
<1>11. PICK n \in Nat : n = Len(payload)
  BY <1>4
<1>12. PICK part : part = SubSeq(text, 1, n)
  OBVIOUS
<1>13. part \in Seq(Plain) /\ Len(part) = n /\ \A i \in 1 .. n : part[i] = text[i]
  <2>1. \A i \in 1 .. n : text[i] \in Plain
    BY <1>10, <1>11
  <2>2. 1 \in Int /\ n \in Int
    OBVIOUS
  <2> QED
    BY <1>12, <2>1, <2>2, SubSeqProperties
<1>14. part = payload
  BY <1>4, <1>10, <1>11, <1>13, SeqEqual
<1>15. Len(text) - 1 - ec = n
  BY <1>10, <1>11
<1>16. text # Nil
  <2>1. Plain \subseteq Unit
    BY DEF Unit
  <2>2. text \in Seq(Unit)
    BY <1>10, <2>1, SeqMonotonic
  <2> QED
    BY <2>2, NilAssumption
<1>17. Plaintext(p, ec) = text
  BY <1>1, <1>2, <1>3, <1>7 DEF Plaintext
<1> QED
  BY <1>1, <1>3, <1>10, <1>12, <1>14, <1>15, <1>16, <1>17

LEMMA SecretFacts ==
    ASSUME NEW p \in Protected, NEW ec \in Nat
    PROVE  /\ Secret(p, ec) \in Seq(Unit) /\ Len(Secret(p, ec)) \in Nat \ {0}
           /\ Secret(p, ec) # Nil
           /\ \A i \in 1 .. Len(Secret(p, ec)) :
                 Secret(p, ec)[i] = [secret |-> <<p.key, p.usage, Plaintext(p, ec)>>, at |-> i]
<1>1. PICK text : text = Plaintext(p, ec)
  OBVIOUS
<1>2. text \in Seq(Plain) /\ Len(text) \in Nat \ {0}
  BY <1>1, PlaintextFacts, ProtectedFacts
<1>3. PICK contents : contents = <<p.key, p.usage, text>>
  OBVIOUS
<1>4. contents \in Contents
  BY <1>2, <1>3, ProtectedFacts DEF Contents
<1>5. PICK n : n = Len(text) + Overhead
  OBVIOUS
<1>6. n \in Nat \ {0}
  BY <1>2, <1>5, TokenAssumption
<1>7. Secret(p, ec) = [i \in 1 .. n |-> [secret |-> contents, at |-> i]]
  BY <1>1, <1>3, <1>5 DEF Secret, encrypt_message
<1>8. \A i \in 1 .. n : [secret |-> contents, at |-> i] \in Unit
  BY <1>4, <1>6 DEF Unit
<1>9. Secret(p, ec) \in [1 .. n -> Unit]
  BY <1>7, <1>8
<1>10. Secret(p, ec) \in Seq(Unit) /\ Len(Secret(p, ec)) = n
  BY <1>6, <1>9
<1> QED
  BY <1>1, <1>3, <1>6, <1>7, <1>10, NilAssumption

-----------------------------------------------------------------------------
(* The inductive invariant.                                                 *)

Protects(p, t) == p \in Protected /\ p.id = t.id /\ p.flags = t.flags /\ p.seq = t.seq

\* A token under construction: its checksum is what was last protected in it,
\* unless it has been marked as sealed since, and so is its body.
Building(t, p) ==
    /\ t \in Token /\ t.payload \in Payloads \cup {Nil}
    /\ t.checksum # Nil => p # Nil
    /\ t.checksum # Nil /\ ~ is_sealed(t) => Protects(p, t) /\ t.checksum = Sum(p)
    /\ t.body # Nil => /\ is_sealed(t) /\ Protects(p, t)
                       /\ t.body = rotate_right(Secret(p, t.ec), t.rrc)

\* The bytes of the three kinds of tokens, with a header of which only the
\* counts are not what was protected.
MicBytes(p) == <<mic_header(p.flags, p.seq)>> \o Sum(p)
WrapBytes(p, payload, ec, rrc) ==
    <<wrap_header(p.flags, ec, rrc, p.seq)>> \o payload \o Sum(p)
SealedBytes(p, ec, rrc) ==
    <<wrap_header(p.flags, ec, rrc, p.seq)>> \o rotate_right(Secret(p, ec), rrc)

IsMic(s) == s.made.id = "mic" /\ s.bytes = MicBytes(s.made)
IsWrap(s) ==
    /\ s.made.id = "wrap" /\ "sealed" \notin s.made.flags
    /\ \E payload \in Payloads : /\ s.bytes = WrapBytes(s.made, payload, ChecksumLen, s.bytes[1].rrc)
                                 /\ s.current => payload = s.made.payload
    /\ s.bytes[1].rrc \in Nat
IsSealed(s) ==
    /\ s.made.id = "wrap" /\ "sealed" \in s.made.flags
    /\ s.bytes = SealedBytes(s.made, s.bytes[1].ec, s.bytes[1].rrc)
    /\ s.bytes[1].ec \in Nat /\ s.bytes[1].rrc \in Nat

SentInv(s) ==
    /\ s.made \in Protected
    /\ IsMic(s) \/ IsWrap(s) \/ IsSealed(s)
    /\ s.sealing => IsSealed(s)

IInv ==
    /\ token # Nil => Building(token, made) /\ (sealing => is_sealed(token))
    /\ \A s \in sent : SentInv(s)
    /\ Authentic
    /\ Delivered

-----------------------------------------------------------------------------
(* Calls on a token.                                                        *)

LEMMA PayloadFacts ==
    ASSUME NEW payload \in Payloads
    PROVE  payload \in Seq(Plain) /\ payload \in Seq(Unit) /\ payload \in Option /\ payload # Nil
<1>1. payload \in Seq([data : Nat])
  BY TokenAssumption
<1>2. [data : Nat] \subseteq Plain /\ Plain \subseteq Unit
  BY DEF Plain, Unit
<1>3. payload \in Seq(Plain)
  BY <1>1, <1>2, SeqMonotonic
<1>4. payload \in Seq(Unit)
  BY <1>2, <1>3, SeqMonotonic
<1> QED
  BY <1>3, <1>4, NilAssumption DEF Option

LEMMA TokenFields ==
    ASSUME NEW t \in Token
    PROVE  /\ DOMAIN t = {"id", "flags", "ec", "rrc", "seq", "payload", "checksum", "body"}
           /\ t.id \in {"mic", "wrap"} /\ t.flags \in FlagSets /\ t.ec \in Nat /\ t.rrc \in Nat
           /\ t.seq \in Int /\ t.payload \in Option /\ t.checksum \in Option /\ t.body \in Option
  BY DEF Token

LEMMA BuildNew ==
    ASSUME NEW flags \in FlagSets, NEW seq \in Int, NEW p
    PROVE  /\ Building(NewMic(flags, seq), p) /\ Building(NewWrap(flags, seq), p)
           /\ NewMic(flags, seq).checksum = Nil /\ NewMic(flags, seq).body = Nil
           /\ NewMic(flags, seq).id = "mic" /\ NewMic(flags, seq).flags = flags
           /\ NewWrap(flags, seq).checksum = Nil /\ NewWrap(flags, seq).body = Nil
           /\ NewWrap(flags, seq).id = "wrap" /\ NewWrap(flags, seq).flags = flags
<1>1. /\ NewMic(flags, seq).checksum = Nil /\ NewMic(flags, seq).body = Nil
      /\ NewMic(flags, seq).payload = Nil
      /\ NewMic(flags, seq).id = "mic" /\ NewMic(flags, seq).flags = flags
      /\ NewWrap(flags, seq).checksum = Nil /\ NewWrap(flags, seq).body = Nil
      /\ NewWrap(flags, seq).payload = Nil
      /\ NewWrap(flags, seq).id = "wrap" /\ NewWrap(flags, seq).flags = flags
  BY DEF NewMic, NewWrap
<1>2. NewMic(flags, seq) \in Token /\ NewWrap(flags, seq) \in Token
  BY DEF NewMic, NewWrap, Token, Option
<1> QED
  BY <1>1, <1>2 DEF Building

LEMMA BuildPayload ==
    ASSUME NEW t, NEW p, Building(t, p), NEW payload \in Payloads,
           NEW u, u = with_payload(t, payload)
    PROVE  /\ Building(u, p) /\ u.payload = payload
           /\ u.id = t.id /\ u.flags = t.flags /\ u.seq = t.seq /\ u.ec = t.ec /\ u.rrc = t.rrc
           /\ u.checksum = t.checksum /\ u.body = t.body
<1>1. t \in Token
  BY DEF Building
<1>2. payload \in Option
  BY PayloadFacts
<1>3. /\ u.payload = payload
      /\ u.id = t.id /\ u.flags = t.flags /\ u.seq = t.seq /\ u.ec = t.ec /\ u.rrc = t.rrc
      /\ u.checksum = t.checksum /\ u.body = t.body
  BY <1>1, TokenFields DEF with_payload
<1>4. u \in Token
  BY <1>1, <1>2 DEF with_payload, Token
<1>5. (is_sealed(u) <=> is_sealed(t)) /\ (Protects(p, u) <=> Protects(p, t))
  BY <1>3 DEF is_sealed, Protects
<1> QED
  BY <1>3, <1>4, <1>5 DEF Building

WithCounts(t, ec, rrc) == [t EXCEPT !.ec = ec, !.rrc = rrc]

\* The counts of a token may change while nothing is protected in it.
LEMMA BuildCounts ==
    ASSUME NEW t, NEW p, Building(t, p), t.checksum = Nil, t.body = Nil,
           NEW ec, ec \in Nat, NEW rrc, rrc \in Nat,
           NEW u, u = WithCounts(t, ec, rrc)
    PROVE  /\ Building(u, p) /\ u.payload = t.payload
           /\ u.id = t.id /\ u.flags = t.flags /\ u.seq = t.seq
           /\ u.checksum = Nil /\ u.body = Nil
<1>1. t \in Token
  BY DEF Building
<1>2. /\ u.payload = t.payload /\ u.id = t.id /\ u.flags = t.flags /\ u.seq = t.seq
      /\ u.checksum = Nil /\ u.body = Nil
  BY <1>1, TokenFields DEF WithCounts
<1>3. u \in Token
  BY <1>1 DEF WithCounts, Token
<1> QED
  BY <1>2, <1>3 DEF Building

Made(r, key, usage, p) == IF r.ok THEN Protection(r.token, key, usage) ELSE p

LEMMA ProtectionFacts ==
    ASSUME NEW t \in Token, t.payload \in Payloads, NEW key \in Supported, NEW usage \in Int
    PROVE  LET p == Protection(t, key, usage)
           IN  /\ Protects(p, t) /\ p # Nil /\ p.payload = t.payload /\ p.key = key
               /\ p.usage = usage /\ p.flags = t.flags /\ p.seq = t.seq /\ p.id = t.id
<1>1. PICK p : p = Protection(t, key, usage)
  OBVIOUS
<1>2. /\ p.payload = t.payload /\ p.key = key
      /\ p.usage = usage /\ p.flags = t.flags /\ p.seq = t.seq /\ p.id = t.id
  BY <1>1 DEF Protection
<1>3. p \in Protected
  BY <1>1, TokenFields DEF Protection, Protected
<1> QED
  BY <1>1, <1>2, <1>3, NilAssumption DEF Protects

LEMMA MicSum ==
    ASSUME NEW t, NEW p, Building(t, p), t.id = "mic", NEW key, NEW usage \in Int,
           NEW r, r = mic_set_checksum(t, key, usage)
    PROVE  /\ Building(r.token, Made(r, key, usage, p))
           /\ is_sealed(r.token) <=> is_sealed(t)
<1>1. t \in Token /\ t.payload \in Payloads \cup {Nil} /\ t.body = Nil
  BY DEF Building, is_sealed
<1>2. CASE r = [ok |-> FALSE, token |-> t]
  <2>1. r.token = t /\ ~ r.ok
    BY <1>2
  <2> QED
    BY <2>1 DEF Made
<1>3. CASE r # [ok |-> FALSE, token |-> t]
  <2>1. PICK sum : sum = mic_compute_checksum(t, key, usage)
    OBVIOUS
  <2>2. sum # Nil /\ r = [ok |-> TRUE, token |-> [t EXCEPT !.checksum = sum]]
    BY <1>3, <2>1 DEF mic_set_checksum
  <2>3. PICK u : u = [t EXCEPT !.checksum = sum]
    OBVIOUS
  <2>4. r.ok /\ r.token = u
    BY <2>2, <2>3
  <2>5. /\ u.id = "mic" /\ u.flags = t.flags /\ u.seq = t.seq /\ u.payload = t.payload
        /\ u.checksum = sum /\ u.body = Nil
    BY <1>1, <2>3, TokenFields
  <2>6. /\ t.payload \in Payloads /\ key \in Supported
        /\ sum = Checksum(key, usage, Append(t.payload, mic_header(t.flags, t.seq)))
    BY <1>1, <2>1, <2>2 DEF mic_compute_checksum
  <2>7. PICK q : q = Protection(u, key, usage)
    OBVIOUS
  <2>8. PICK q0 : q0 = Protection(t, key, usage)
    OBVIOUS
  <2>9. q = q0
    BY <2>5, <2>7, <2>8 DEF Protection
  <2>10. /\ Protects(q, t) /\ q # Nil /\ q.payload = t.payload /\ q.key = key
         /\ q.usage = usage /\ q.flags = t.flags /\ q.seq = t.seq /\ q.id = t.id
    BY <1>1, <2>6, <2>8, <2>9, ProtectionFacts
  <2>11. sum = Sum(q)
    BY <2>6, <2>10 DEF Sum, Summed, SumHeader
  <2>12. Protects(q, u)
    BY <2>5, <2>10 DEF Protects
  <2>13. u \in Token
    <3>1. sum \in Option
      BY <2>10, <2>11, SumFacts DEF Protects, Option
    <3> QED
      BY <1>1, <2>3, <3>1 DEF Token
  <2>14. Building(u, q)
    BY <2>5, <2>6, <2>10, <2>11, <2>12, <2>13 DEF Building
  <2> QED
    BY <2>4, <2>5, <2>7, <2>14 DEF Made, is_sealed
<1> QED
  BY <1>2, <1>3

LEMMA WrapSum ==
    ASSUME NEW t, NEW p, Building(t, p), t.id = "wrap", NEW key, NEW usage \in Int,
           NEW r, r = wrap_set_checksum(t, key, usage)
    PROVE  /\ Building(r.token, Made(r, key, usage, p))
           /\ is_sealed(r.token) <=> is_sealed(t)
<1>1. t \in Token /\ t.payload \in Payloads \cup {Nil}
  BY DEF Building
<1>2. CASE r = [ok |-> FALSE, token |-> t]
  <2>1. r.token = t /\ ~ r.ok
    BY <1>2
  <2> QED
    BY <2>1 DEF Made
<1>3. CASE r # [ok |-> FALSE, token |-> t]
  <2>1. PICK sum : sum = wrap_compute_checksum(t, key, usage)
    OBVIOUS
  <2>2. PICK ec : ec = IF t.ec = 0 THEN Len(sum) ELSE t.ec
    OBVIOUS
  <2>3. PICK u : u = [t EXCEPT !.checksum = sum, !.ec = ec]
    OBVIOUS
  <2>4. ~ is_sealed(t) /\ sum # Nil
    BY <1>3, <2>1 DEF wrap_set_checksum
  <2>5. [t EXCEPT !.checksum = sum, !.ec = IF @ = 0 THEN Len(sum) ELSE @] = u
    BY <1>1, <2>2, <2>3, TokenFields
  <2>6. r = [ok |-> TRUE, token |-> u]
    BY <1>3, <2>1, <2>4, <2>5 DEF wrap_set_checksum
  <2>7. r.ok /\ r.token = u
    BY <2>6
  <2>8. /\ u.id = "wrap" /\ u.flags = t.flags /\ u.seq = t.seq /\ u.payload = t.payload
        /\ u.checksum = sum /\ u.body = t.body
    BY <1>1, <2>3, TokenFields
  <2>9. t.body = Nil /\ ~ is_sealed(u)
    BY <2>4, <2>8 DEF Building, is_sealed
  <2>10. /\ t.payload \in Payloads /\ key \in Supported
         /\ sum = Checksum(key, usage, Append(t.payload, wrap_checksum_header(t.flags, t.seq)))
    BY <1>1, <2>1, <2>4 DEF wrap_compute_checksum
  <2>11. PICK q : q = Protection(u, key, usage)
    OBVIOUS
  <2>12. PICK q0 : q0 = Protection(t, key, usage)
    OBVIOUS
  <2>13. q = q0
    BY <2>8, <2>11, <2>12 DEF Protection
  <2>14. /\ Protects(q, t) /\ q # Nil /\ q.payload = t.payload /\ q.key = key
         /\ q.usage = usage /\ q.flags = t.flags /\ q.seq = t.seq /\ q.id = t.id
    BY <1>1, <2>10, <2>12, <2>13, ProtectionFacts
  <2>15. sum = Sum(q)
    BY <2>10, <2>14 DEF Sum, Summed, SumHeader
  <2>16. Protects(q, u)
    BY <2>8, <2>14 DEF Protects
  <2>17. u \in Token
    <3>1. sum \in Option /\ Len(sum) \in Nat
      BY <2>14, <2>15, SumFacts, TokenAssumption DEF Protects, Option
    <3>2. ec \in Nat
      BY <1>1, <2>2, <3>1, TokenFields
    <3> QED
      BY <1>1, <2>3, <3>1, <3>2 DEF Token
  <2>18. Building(u, q)
    BY <2>8, <2>9, <2>10, <2>14, <2>15, <2>16, <2>17 DEF Building
  <2> QED
    BY <2>4, <2>7, <2>9, <2>11, <2>18 DEF Made
<1> QED
  BY <1>2, <1>3

\* Whether it succeeds or not, a call of encrypt_payload_with_confounder leaves
\* a token that counts as sealed.
LEMMA Encrypted ==
    ASSUME NEW t, NEW p, Building(t, p), t.id = "wrap", NEW key, NEW usage \in Int,
           NEW r, r = encrypt_payload_with_confounder(t, key, usage)
    PROVE  Building(r.token, Made(r, key, usage, p)) /\ is_sealed(r.token)
<1>1. t \in Token /\ t.payload \in Payloads \cup {Nil}
  BY DEF Building
<1>2. PICK flagged : flagged = [t EXCEPT !.flags = @ \cup {"sealed"}]
  OBVIOUS
<1>3. /\ flagged.id = "wrap" /\ flagged.flags = t.flags \cup {"sealed"}
      /\ flagged.ec = t.ec /\ flagged.rrc = t.rrc /\ flagged.seq = t.seq
      /\ flagged.payload = t.payload /\ flagged.checksum = t.checksum /\ flagged.body = t.body
  BY <1>1, <1>2, TokenFields
<1>4. is_sealed(flagged)
  BY <1>3 DEF is_sealed
<1>5. flagged \in Token
  <2>1. t.flags \cup {"sealed"} \in FlagSets
    BY <1>1, TokenFields DEF FlagSets
  <2> QED
    BY <1>1, <1>2, <2>1 DEF Token
<1>6. CASE t.body # Nil
  <2>1. r = [ok |-> FALSE, token |-> t]
    BY <1>6 DEF encrypt_payload_with_confounder
  <2>2. r.token = t /\ ~ r.ok
    BY <2>1
  <2>3. is_sealed(t)
    BY <1>6 DEF Building
  <2> QED
    BY <2>2, <2>3 DEF Made
<1>7. CASE t.body = Nil /\ (t.payload = Nil \/ key \notin Supported)
  <2>1. r = [ok |-> FALSE, token |-> flagged]
    BY <1>2, <1>7 DEF encrypt_payload_with_confounder
  <2>2. r.token = flagged /\ ~ r.ok
    BY <2>1
  <2>3. Building(flagged, p)
    BY <1>3, <1>4, <1>5, <1>7 DEF Building
  <2> QED
    BY <1>4, <2>2, <2>3 DEF Made
<1>8. CASE t.body = Nil /\ t.payload # Nil /\ key \in Supported
  <2>1. PICK text : text = t.payload \o [i \in 1 .. t.ec |-> [data |-> 0]]
                           \o <<wrap_header(flagged.flags, t.ec, 0, t.seq)>>
    OBVIOUS
  <2>2. PICK body : body = rotate_right(encrypt_message(key, usage, text), t.rrc)
    OBVIOUS
  <2>3. PICK u : u = [flagged EXCEPT !.body = body, !.checksum = Nil]
    OBVIOUS
  <2>4. r = [ok |-> TRUE, token |-> u]
    BY <1>2, <1>8, <2>1, <2>2, <2>3 DEF encrypt_payload_with_confounder
  <2>5. r.ok /\ r.token = u
    BY <2>4
  <2>6. /\ u.id = "wrap" /\ u.flags = flagged.flags /\ u.ec = t.ec /\ u.rrc = t.rrc
        /\ u.seq = t.seq /\ u.payload = t.payload /\ u.checksum = Nil /\ u.body = body
    BY <1>3, <1>5, <2>3, TokenFields
  <2>7. PICK q : q = Protection(u, key, usage)
    OBVIOUS
  <2>8. PICK q0 : q0 = Protection(flagged, key, usage)
    OBVIOUS
  <2>9. q = q0
    BY <1>3, <2>6, <2>7, <2>8 DEF Protection
  <2>10. /\ Protects(q, flagged) /\ q # Nil /\ q.payload = t.payload /\ q.key = key
         /\ q.usage = usage /\ q.flags = flagged.flags /\ q.seq = t.seq /\ q.id = "wrap"
    BY <1>1, <1>3, <1>5, <1>8, <2>8, <2>9, ProtectionFacts
  <2>11. Plaintext(q, t.ec) = text
    BY <2>1, <2>10 DEF Plaintext, Filler
  <2>12. body = rotate_right(Secret(q, t.ec), t.rrc)
    BY <2>2, <2>10, <2>11 DEF Secret
  <2>13. t.ec \in Nat /\ t.rrc \in Nat
    BY <1>1, TokenFields
  <2>14. body \in Seq(Unit)
    <3>1. PICK ec \in Nat, rrc \in Int : ec = t.ec /\ rrc = t.rrc
      BY <2>13
    <3>2. Secret(q, ec) \in Seq(Unit)
      BY <2>10, SecretFacts DEF Protects
    <3> QED
      BY <2>12, <3>1, <3>2, RotateFacts
  <2>15. u \in Token
    BY <1>5, <2>3, <2>14 DEF Token, Option
  <2>16. is_sealed(u) /\ Protects(q, u)
    BY <1>3, <1>4, <2>6, <2>10 DEF is_sealed, Protects
  <2>17. Building(u, q)
    BY <1>1, <1>8, <2>6, <2>12, <2>15, <2>16 DEF Building
  <2> QED
    BY <2>5, <2>7, <2>16, <2>17 DEF Made
<1> QED
  BY <1>6, <1>7, <1>8

-----------------------------------------------------------------------------
(* The sender's actions.                                                    *)

\* The token goes on; what was sent stays, and nobody has a new answer.
LEMMA SenderStep ==
    ASSUME IInv, NEW t, NEW p, token' = t, made' = p, UNCHANGED sent, outcome' = Nil,
           Building(t, p), sealing' => is_sealed(t)
    PROVE  IInv'
<1>1. \A s \in sent' : SentInv(s)
  BY DEF IInv
<1>2. Authentic' /\ Delivered'
  BY DEF Authentic, Delivered
<1> QED
  BY <1>1, <1>2 DEF IInv

LEMMA BecomesStep ==
    ASSUME IInv, NEW r, NEW key, NEW usage, NEW p, p = made,
           Becomes(r.token, r.ok, key, usage),
           Building(r.token, Made(r, key, usage, p)), sealing' => is_sealed(r.token)
    PROVE  IInv'
<1>1. PICK t, q : t = r.token /\ q = Made(r, key, usage, p)
  OBVIOUS
<1>2. token' = t /\ made' = q /\ UNCHANGED sent /\ outcome' = Nil
  BY <1>1 DEF Becomes, Made
<1> QED
  BY <1>1, <1>2, SenderStep

LEMMA UsageType ==
    ASSUME NEW usage \in Usages
    PROVE  usage \in Int
  BY UsagesAssumption DEF ACCEPTOR_SEAL, INITIATOR_SIGN

LEMMA NewStep ==
    ASSUME IInv, NEW id \in {"mic", "wrap"}, NEW flags \in FlagSets, NEW seq \in Seqs,
           New(id, flags, seq)
    PROVE  IInv'
<1>1. PICK t : t = IF id = "mic" THEN NewMic(flags, seq) ELSE NewWrap(flags, seq)
  OBVIOUS
<1>2. PICK p : p = made
  OBVIOUS
<1>3. seq \in Int
  BY TokenAssumption
<1>4. Building(t, p) /\ t.id = id /\ t.flags = flags
  BY <1>1, <1>3, BuildNew
<1>5. /\ token' = t /\ made' = p /\ UNCHANGED sent /\ outcome' = Nil
      /\ sealing' = (id = "wrap" /\ "sealed" \in flags)
  BY <1>1, <1>2 DEF New, Becomes
<1>6. sealing' => is_sealed(t)
  BY <1>4, <1>5 DEF is_sealed
<1> QED
  BY <1>4, <1>5, <1>6, SenderStep

LEMMA NewInitiatorStep ==
    ASSUME IInv, NEW call \in {"mic", "wrap", "sealed"}, NEW payload \in Payloads,
           NEW key \in Keys, NewInitiator(call, payload, key)
    PROVE  IInv'
<1>1. PICK p : p = made
  OBVIOUS
<1>2. INITIATOR_SIGN \in Int /\ INITIATOR_SEAL \in Int /\ 0 \in Int
      /\ {} \in FlagSets /\ {"sealed"} \in FlagSets
  BY DEF INITIATOR_SIGN, INITIATOR_SEAL, FlagSets
<1>3. CASE call = "mic"
  <2>1. PICK t : t = with_payload(NewMic({}, 0), payload)
    OBVIOUS
  <2>2. Building(t, p) /\ t.id = "mic"
    <3>1. PICK new : new = NewMic({}, 0)
      OBVIOUS
    <3>2. Building(new, p) /\ new.id = "mic"
      BY <1>2, <3>1, BuildNew
    <3> QED
      BY ONLY <1>2, <2>1, <3>1, <3>2, BuildPayload
  <2>3. PICK r : r = mic_set_checksum(t, key, INITIATOR_SIGN)
    OBVIOUS
  <2>4. Building(r.token, Made(r, key, INITIATOR_SIGN, p))
    BY <1>2, <2>2, <2>3, MicSum
  <2>5. r.ok /\ Becomes(r.token, TRUE, key, INITIATOR_SIGN) /\ sealing' = FALSE
    BY <1>3, <2>1, <2>3 DEF NewInitiator, mic_new_initiator
  <2>6. Becomes(r.token, r.ok, key, INITIATOR_SIGN)
    BY <2>5 DEF Becomes
  <2>7. PICK usage : usage = INITIATOR_SIGN
    OBVIOUS
  <2> QED
    BY <1>1, <2>4, <2>5, <2>6, <2>7, BecomesStep
<1>4. CASE call = "wrap"
  <2>1. PICK t0 : t0 = with_payload(NewWrap({}, 0), payload)
    OBVIOUS
  <2>2. /\ Building(t0, p) /\ t0.id = "wrap" /\ t0.checksum = Nil /\ t0.body = Nil
        /\ t0.rrc \in Nat /\ t0 \in Token
    <3>1. PICK new : new = NewWrap({}, 0)
      OBVIOUS
    <3>2. Building(new, p) /\ new.id = "wrap" /\ new.checksum = Nil /\ new.body = Nil
      BY <1>2, <3>1, BuildNew
    <3>3. Building(t0, p) /\ t0.id = "wrap" /\ t0.checksum = Nil /\ t0.body = Nil
      BY <2>1, <3>1, <3>2, BuildPayload
    <3> QED
      BY <3>3, TokenFields DEF Building
  <2>3. PICK t : t = [t0 EXCEPT !.ec = ChecksumLen]
    OBVIOUS
  <2>4. t = WithCounts(t0, ChecksumLen, t0.rrc)
    BY <2>2, <2>3, TokenFields DEF WithCounts
  <2>5. Building(t, p) /\ t.id = "wrap"
    <3>1. ChecksumLen \in Nat
      BY TokenAssumption
    <3>2. PICK rrc \in Nat : rrc = t0.rrc
      BY <2>2
    <3> QED
      BY <2>2, <2>4, <3>1, <3>2, BuildCounts
  <2>6. PICK r : r = wrap_set_checksum(t, key, INITIATOR_SEAL)
    OBVIOUS
  <2>7. Building(r.token, Made(r, key, INITIATOR_SEAL, p))
    BY <1>2, <2>5, <2>6, WrapSum
  <2>8. r.ok /\ Becomes(r.token, TRUE, key, INITIATOR_SEAL) /\ sealing' = FALSE
    BY <1>4, <2>1, <2>3, <2>6 DEF NewInitiator, wrap_new_initiator
  <2>9. Becomes(r.token, r.ok, key, INITIATOR_SEAL)
    BY <2>8 DEF Becomes
  <2>10. PICK usage : usage = INITIATOR_SEAL
    OBVIOUS
  <2> QED
    BY <1>1, <2>7, <2>8, <2>9, <2>10, BecomesStep
<1>5. CASE call = "sealed"
  <2>1. PICK t : t = with_payload(NewWrap({"sealed"}, 0), payload)
    OBVIOUS
  <2>2. Building(t, p) /\ t.id = "wrap"
    <3>1. PICK new : new = NewWrap({"sealed"}, 0)
      OBVIOUS
    <3>2. Building(new, p) /\ new.id = "wrap"
      BY <1>2, <3>1, BuildNew
    <3> QED
      BY ONLY <1>2, <2>1, <3>1, <3>2, BuildPayload
  <2>3. PICK r : r = encrypt_payload_with_confounder(t, key, INITIATOR_SEAL)
    OBVIOUS
  <2>4. Building(r.token, Made(r, key, INITIATOR_SEAL, p)) /\ is_sealed(r.token)
    BY <1>2, <2>2, <2>3, Encrypted
  <2>5. r.ok /\ Becomes(r.token, TRUE, key, INITIATOR_SEAL)
    BY <1>5, <2>1, <2>3 DEF NewInitiator, new_initiator_sealed
  <2>6. Becomes(r.token, r.ok, key, INITIATOR_SEAL)
    BY <2>5 DEF Becomes
  <2>7. PICK usage : usage = INITIATOR_SEAL
    OBVIOUS
  <2> QED
    BY <1>1, <2>4, <2>6, <2>7, BecomesStep
<1> QED
  BY <1>3, <1>4, <1>5

LEMMA SetCountsStep ==
    ASSUME IInv, NEW ec \in Ecs, NEW rrc \in Rrcs, SetCounts(ec, rrc)
    PROVE  IInv'
<1>1. PICK t, p : t = token /\ p = made
  OBVIOUS
<1>2. Building(t, p) /\ p = Nil /\ (sealing => is_sealed(t))
  BY <1>1 DEF SetCounts, Called, IInv
<1>3. t.checksum = Nil /\ t.body = Nil
  BY <1>2, NilAssumption DEF Building, Protects
<1>4. ec \in Nat /\ rrc \in Nat
  BY TokenAssumption
<1>5. PICK u : u = WithCounts(t, ec, rrc)
  OBVIOUS
<1>6. t \in Token /\ t.payload \in Payloads \cup {Nil}
  BY <1>2 DEF Building
<1>7. /\ u.payload = t.payload /\ u.id = t.id /\ u.flags = t.flags
      /\ u.checksum = Nil /\ u.body = Nil
  BY <1>3, <1>5, <1>6, TokenFields DEF WithCounts
<1>8. u \in Token
  BY <1>4, <1>5, <1>6 DEF WithCounts, Token
<1>9. Building(u, p) /\ u.id = t.id /\ u.flags = t.flags
  BY <1>6, <1>7, <1>8 DEF Building
<1>10. token' = u /\ made' = p /\ UNCHANGED <<sent, sealing>> /\ outcome' = Nil
  BY <1>1, <1>5 DEF SetCounts, Becomes, WithCounts
<1>11. sealing' => is_sealed(u)
  BY <1>2, <1>9, <1>10 DEF is_sealed
<1> QED
  BY <1>9, <1>10, <1>11, SenderStep

LEMMA WithPayloadStep ==
    ASSUME IInv, NEW payload \in Payloads, WithPayload(payload)
    PROVE  IInv'
<1>1. PICK t, p : t = token /\ p = made
  OBVIOUS
<1>2. Building(t, p) /\ (sealing => is_sealed(t))
  BY <1>1 DEF WithPayload, Called, IInv
<1>3. PICK u : u = with_payload(t, payload)
  OBVIOUS
<1>4. Building(u, p) /\ u.id = t.id /\ u.flags = t.flags
  BY <1>2, <1>3, BuildPayload
<1>5. token' = u /\ made' = p /\ UNCHANGED <<sent, sealing>> /\ outcome' = Nil
  BY <1>1, <1>3 DEF WithPayload, Becomes
<1>6. sealing' => is_sealed(u)
  BY <1>2, <1>4, <1>5 DEF is_sealed
<1> QED
  BY <1>4, <1>5, <1>6, SenderStep

LEMMA SetChecksumStep ==
    ASSUME IInv, NEW key \in Keys, NEW usage \in Usages, SetChecksum(key, usage)
    PROVE  IInv'
<1>1. PICK t, p : t = token /\ p = made
  OBVIOUS
<1>2. Building(t, p) /\ (sealing => is_sealed(t)) /\ t.id \in {"mic", "wrap"}
  BY <1>1, TokenFields DEF SetChecksum, Called, IInv, Building
<1>3. PICK r : r = IF t.id = "mic" THEN mic_set_checksum(t, key, usage)
                                    ELSE wrap_set_checksum(t, key, usage)
  OBVIOUS
<1>4. Building(r.token, Made(r, key, usage, p)) /\ (is_sealed(r.token) <=> is_sealed(t))
  BY <1>2, <1>3, UsageType, MicSum, WrapSum
<1>5. Becomes(r.token, r.ok, key, usage) /\ UNCHANGED sealing
  BY <1>1, <1>3 DEF SetChecksum
<1> QED
  BY <1>1, <1>2, <1>4, <1>5, BecomesStep

LEMMA EncryptStep ==
    ASSUME IInv, NEW key \in Keys, NEW usage \in Usages, EncryptPayload(key, usage)
    PROVE  IInv'
<1>1. PICK t, p : t = token /\ p = made
  OBVIOUS
<1>2. Building(t, p) /\ t.id = "wrap"
  BY <1>1 DEF EncryptPayload, Called, IInv
<1>3. PICK r : r = encrypt_payload_with_confounder(t, key, usage)
  OBVIOUS
<1>4. Building(r.token, Made(r, key, usage, p)) /\ is_sealed(r.token)
  BY <1>2, <1>3, UsageType, Encrypted
<1>5. Becomes(r.token, r.ok, key, usage)
  BY <1>1, <1>3 DEF EncryptPayload
<1> QED
  BY <1>1, <1>4, <1>5, BecomesStep

LEMMA GiveUpStep ==
    ASSUME IInv, GiveUp
    PROVE  IInv'
<1>1. token' = Nil /\ UNCHANGED sent /\ outcome' = Nil
  BY DEF GiveUp
<1>2. Authentic' /\ Delivered'
  BY <1>1 DEF Authentic, Delivered
<1> QED
  BY <1>1, <1>2 DEF IInv

-----------------------------------------------------------------------------
(* Sending.                                                                 *)

LEMMA HeadFacts ==
    ASSUME NEW h \in Unit, NEW a \in Seq(Unit)
    PROVE  /\ <<h>> \o a \in Seq(Unit) /\ <<h>> \o a # <<>> /\ (<<h>> \o a)[1] = h
           /\ Tail(<<h>> \o a) = a /\ Len(<<h>> \o a) = 1 + Len(a)
           /\ \A i \in 1 .. Len(a) : (<<h>> \o a)[i + 1] = a[i]
<1>1. PICK b : b = <<h>> \o a
  OBVIOUS
<1>2. /\ b \in Seq(Unit) /\ Len(b) = 1 + Len(a) /\ b[1] = h /\ b # <<>>
      /\ \A i \in 1 .. Len(a) : b[i + 1] = a[i]
  BY <1>1
<1>3. PICK rest : rest = Tail(b)
  OBVIOUS
<1>4. rest \in Seq(Unit) /\ Len(rest) = Len(a) /\ \A i \in 1 .. Len(a) : rest[i] = a[i]
  BY <1>2, <1>3
<1>5. rest = a
  BY <1>4, SeqEqual
<1> QED
  BY <1>1, <1>2, <1>3, <1>5

LEMMA HeaderFacts ==
    ASSUME NEW flags \in FlagSets, NEW ec \in Nat, NEW rrc \in Nat, NEW seq \in Int
    PROVE  /\ wrap_header(flags, ec, rrc, seq) \in Unit /\ mic_header(flags, seq) \in Unit
           /\ wrap_header(flags, ec, rrc, seq).id = "wrap" /\ mic_header(flags, seq).id = "mic"
           /\ wrap_header(flags, ec, rrc, seq).flags = flags /\ mic_header(flags, seq).flags = flags
           /\ wrap_header(flags, ec, rrc, seq).seq = seq /\ mic_header(flags, seq).seq = seq
           /\ wrap_header(flags, ec, rrc, seq).ec = ec /\ mic_header(flags, seq).ec = 0
           /\ wrap_header(flags, ec, rrc, seq).rrc = rrc /\ mic_header(flags, seq).rrc = 0
<1>1. PICK h : h = wrap_header(flags, ec, rrc, seq)
  OBVIOUS
<1>2. PICK m : m = mic_header(flags, seq)
  OBVIOUS
<1>3. h \in Plain /\ m \in Plain
  BY <1>1, <1>2 DEF Plain, wrap_header, mic_header
<1>4. h.id = "wrap" /\ h.flags = flags /\ h.ec = ec /\ h.rrc = rrc /\ h.seq = seq
  BY <1>1 DEF wrap_header
<1>5. m.id = "mic" /\ m.flags = flags /\ m.ec = 0 /\ m.rrc = 0 /\ m.seq = seq
  BY <1>2 DEF mic_header
<1> QED
  BY <1>1, <1>2, <1>3, <1>4, <1>5 DEF Unit

\* The three kinds of bytes: a header, and what follows it.
LEMMA MicShape ==
    ASSUME NEW p \in Protected
    PROVE  /\ MicBytes(p) \in Seq(Unit) /\ MicBytes(p) # <<>>
           /\ MicBytes(p)[1] = mic_header(p.flags, p.seq) /\ Tail(MicBytes(p)) = Sum(p)
<1>1. p.flags \in FlagSets /\ p.seq \in Int /\ 0 \in Nat
  BY ProtectedFacts
<1>2. mic_header(p.flags, p.seq) \in Unit
  BY <1>1, HeaderFacts
<1>3. Sum(p) \in Seq(Unit)
  BY SumFacts
<1> QED
  BY <1>2, <1>3, HeadFacts DEF MicBytes

LEMMA WrapShape ==
    ASSUME NEW p \in Protected, NEW payload \in Payloads, NEW ec \in Nat, NEW rrc \in Nat
    PROVE  LET b == WrapBytes(p, payload, ec, rrc)
           IN  /\ b \in Seq(Unit) /\ b # <<>>
               /\ b[1] = wrap_header(p.flags, ec, rrc, p.seq)
               /\ Tail(b) = payload \o Sum(p) /\ payload \o Sum(p) \in Seq(Unit)
<1>1. p.flags \in FlagSets /\ p.seq \in Int
  BY ProtectedFacts
<1>2. PICK h : h = wrap_header(p.flags, ec, rrc, p.seq)
  OBVIOUS
<1>3. h \in Unit
  BY <1>1, <1>2, HeaderFacts
<1>4. PICK sum : sum = Sum(p)
  OBVIOUS
<1>5. sum \in Seq(Unit) /\ payload \in Seq(Unit)
  BY <1>4, SumFacts, PayloadFacts
<1>6. PICK rest : rest = payload \o sum
  OBVIOUS
<1>7. rest \in Seq(Unit)
  BY <1>5, <1>6
<1>8. <<h>> \in Seq(Unit)
  BY <1>3
<1>9. (<<h>> \o payload) \o sum = <<h>> \o rest
  BY <1>5, <1>6, <1>8, ConcatAssociative
<1>10. WrapBytes(p, payload, ec, rrc) = <<h>> \o rest
  BY <1>2, <1>4, <1>9 DEF WrapBytes
<1> QED
  BY <1>2, <1>3, <1>4, <1>6, <1>7, <1>10, HeadFacts

LEMMA SealedShape ==
    ASSUME NEW p \in Protected, NEW ec \in Nat, NEW rrc \in Nat
    PROVE  LET b == SealedBytes(p, ec, rrc)
           IN  /\ b \in Seq(Unit) /\ b # <<>>
               /\ b[1] = wrap_header(p.flags, ec, rrc, p.seq)
               /\ Tail(b) = rotate_right(Secret(p, ec), rrc)
               /\ rotate_right(Secret(p, ec), rrc) \in Seq(Unit)
               /\ Len(rotate_right(Secret(p, ec), rrc)) = Len(Secret(p, ec))
<1>1. p.flags \in FlagSets /\ p.seq \in Int
  BY ProtectedFacts
<1>2. PICK h : h = wrap_header(p.flags, ec, rrc, p.seq)
  OBVIOUS
<1>3. h \in Unit
  BY <1>1, <1>2, HeaderFacts
<1>4. PICK secret : secret = Secret(p, ec)
  OBVIOUS
<1>5. secret \in Seq(Unit) /\ rrc \in Int
  BY <1>4, SecretFacts
<1>6. PICK body : body = rotate_right(secret, rrc)
  OBVIOUS
<1>7. body \in Seq(Unit) /\ Len(body) = Len(secret)
  BY <1>5, <1>6, RotateFacts
<1>8. SealedBytes(p, ec, rrc) = <<h>> \o body
  BY <1>2, <1>4, <1>6 DEF SealedBytes
<1> QED
  BY <1>2, <1>3, <1>4, <1>6, <1>7, <1>8, HeadFacts

\* Whatever is complete enough to be sent is one of them.
LEMMA EncodedFacts ==
    ASSUME NEW t, NEW p, Building(t, p), NEW s, s.made = p, s.sealing => is_sealed(t),
           s.bytes = IF t.id = "mic" THEN mic_encode(t) ELSE wrap_encode(t), s.bytes # Nil,
           s.current => \/ t.id = "mic" \/ is_sealed(t)
                        \/ t.payload = p.payload
    PROVE  SentInv(s)
<1>1. t \in Token /\ t.payload \in Payloads \cup {Nil}
  BY DEF Building
<1>2. t.id \in {"mic", "wrap"} /\ t.ec \in Nat /\ t.rrc \in Nat
  BY <1>1, TokenFields
<1>3. CASE t.id = "mic"
  <2>1. ~ is_sealed(t) /\ ~ s.sealing
    BY <1>3 DEF is_sealed
  <2>2. t.checksum # Nil /\ s.bytes = <<mic_header(t.flags, t.seq)>> \o t.checksum
    BY <1>3 DEF mic_encode
  <2>3. Protects(p, t) /\ t.checksum = Sum(p)
    BY <2>1, <2>2 DEF Building
  <2>4. s.bytes = MicBytes(p) /\ p.id = "mic" /\ p \in Protected
    BY <1>3, <2>2, <2>3 DEF MicBytes, Protects
  <2> QED
    BY <2>1, <2>4 DEF SentInv, IsMic
<1>4. CASE t.id = "wrap" /\ ~ is_sealed(t)
  <2>1. ~ s.sealing
    BY <1>4
  <2>2. /\ t.payload # Nil /\ t.checksum # Nil /\ Len(t.checksum) = t.ec
        /\ s.bytes = <<wrap_header(t.flags, t.ec, t.rrc, t.seq)>> \o t.payload \o t.checksum
    BY <1>4 DEF wrap_encode
  <2>3. Protects(p, t) /\ t.checksum = Sum(p)
    BY <1>4, <2>2 DEF Building
  <2>4. p \in Protected /\ p.id = "wrap" /\ p.flags = t.flags /\ p.seq = t.seq
    BY <1>4, <2>3 DEF Protects
  <2>5. t.ec = ChecksumLen
    BY <2>2, <2>3, <2>4, SumFacts
  <2>6. PICK payload \in Payloads : payload = t.payload
    BY <1>1, <2>2
  <2>7. PICK ec \in Nat, rrc \in Nat : ec = t.ec /\ rrc = t.rrc
    BY <1>2
  <2>8. s.bytes = WrapBytes(p, payload, ec, rrc)
    BY <2>2, <2>3, <2>4, <2>6, <2>7 DEF WrapBytes
  <2>9. s.bytes[1] = wrap_header(p.flags, ec, rrc, p.seq)
    BY <2>4, <2>8, WrapShape
  <2>10. s.bytes[1].rrc = rrc
    BY <2>9 DEF wrap_header
  <2>11. s.bytes = WrapBytes(s.made, payload, ChecksumLen, s.bytes[1].rrc)
    BY <2>5, <2>7, <2>8, <2>10
  <2>12. s.current => payload = s.made.payload
    BY <1>4, <2>6
  <2>13. "sealed" \notin s.made.flags /\ s.made.id = "wrap"
    BY <1>4, <2>4 DEF is_sealed
  <2>14. IsWrap(s)
    BY <2>10, <2>11, <2>12, <2>13 DEF IsWrap
  <2> QED
    BY <2>1, <2>4, <2>14 DEF SentInv
<1>5. CASE t.id = "wrap" /\ is_sealed(t)
  <2>1. /\ t.body # Nil
        /\ s.bytes = <<wrap_header(t.flags, t.ec, t.rrc, t.seq)>> \o t.body
    BY <1>5 DEF wrap_encode
  <2>2. Protects(p, t) /\ t.body = rotate_right(Secret(p, t.ec), t.rrc)
    BY <2>1 DEF Building
  <2>3. p \in Protected /\ p.id = "wrap" /\ p.flags = t.flags /\ p.seq = t.seq
    BY <1>5, <2>2 DEF Protects
  <2>4. PICK ec \in Nat, rrc \in Nat : ec = t.ec /\ rrc = t.rrc
    BY <1>2
  <2>5. s.bytes = SealedBytes(p, ec, rrc)
    BY <2>1, <2>2, <2>3, <2>4 DEF SealedBytes
  <2>6. s.bytes[1] = wrap_header(p.flags, ec, rrc, p.seq)
    BY <2>3, <2>5, SealedShape
  <2>7. s.bytes[1].ec = ec /\ s.bytes[1].rrc = rrc
    BY <2>6 DEF wrap_header
  <2>8. "sealed" \in s.made.flags
    BY <1>5, <2>3 DEF is_sealed
  <2>9. IsSealed(s)
    BY <2>3, <2>5, <2>7, <2>8 DEF IsSealed
  <2> QED
    BY <2>3, <2>9 DEF SentInv
<1> QED
  BY <1>2, <1>3, <1>4, <1>5

LEMMA SendStep ==
    ASSUME IInv, Send
    PROVE  IInv'
<1>1. PICK t, p : t = token /\ p = made
  OBVIOUS
<1>2. Building(t, p) /\ (sealing => is_sealed(t))
  BY <1>1 DEF Send, IInv
<1>3. PICK b : b = IF t.id = "mic" THEN mic_encode(t) ELSE wrap_encode(t)
  OBVIOUS
<1>4. b = Encoded /\ b # Nil
  BY <1>1, <1>3 DEF Send, Encoded
<1>5. PICK current : current = (\/ t.id = "mic" \/ is_sealed(t)
                                \/ t.payload = p.payload)
  OBVIOUS
<1>6. PICK s : s = [bytes |-> b, sealing |-> sealing, made |-> p, current |-> current]
  OBVIOUS
<1>7. /\ s.bytes = b /\ s.made = p /\ (s.sealing => is_sealed(t))
      /\ s.current => \/ t.id = "mic" \/ is_sealed(t)
                      \/ t.payload = p.payload
  BY <1>2, <1>5, <1>6
<1>8. SentInv(s)
  BY <1>2, <1>3, <1>4, <1>7, EncodedFacts
<1>9. sent' = sent \cup {s}
  BY <1>1, <1>4, <1>5, <1>6 DEF Send
<1>10. \A x \in sent' : SentInv(x)
  BY <1>8, <1>9 DEF IInv
<1>11. token' = Nil /\ outcome' = Nil
  BY DEF Send
<1>12. Authentic' /\ Delivered'
  BY <1>11 DEF Authentic, Delivered
<1> QED
  BY <1>10, <1>11, <1>12 DEF IInv

-----------------------------------------------------------------------------
(* What arrives.                                                            *)

Header == [id : {"mic", "wrap"}, flags : FlagSets, ec : Nat, rrc : Nat, seq : Int]

Summing(p) == <<p.key, p.usage, Summed(p)>>
Sealing(p, ec) == <<p.key, p.usage, Plaintext(p, ec)>>
SealedProtection(p) == p.id = "wrap" /\ "sealed" \in p.flags

\* A unit of a checksum or a ciphertext is one of a token that was sent.
KnownMac(c) ==
    \E s \in sent : s.made \in Protected /\ ~ SealedProtection(s.made) /\ c = Summing(s.made)
KnownSecret(c) ==
    \E s \in sent : /\ s.made \in Protected /\ SealedProtection(s.made)
                    /\ \E ec \in Nat : c = Sealing(s.made, ec)
Known(u) ==
    /\ "mac" \in DOMAIN u => KnownMac(u.mac)
    /\ "secret" \in DOMAIN u => KnownSecret(u.secret)

KnownBytes(b) ==
    /\ b \in Seq(Unit) /\ b # <<>> /\ b[1] \in Header
    /\ \A i \in 1 .. Len(b) : Known(b[i])

LEMMA PlainIsKnown ==
    ASSUME NEW u \in Plain
    PROVE  Known(u) /\ u \in Unit
<1>1. CASE u \in [data : Nat]
  <2>1. DOMAIN u = {"data"}
    BY <1>1
  <2> QED
    BY <2>1 DEF Known, Unit
<1>2. CASE u \in Header
  <2>1. DOMAIN u = {"id", "flags", "ec", "rrc", "seq"}
    BY <1>2 DEF Header
  <2> QED
    BY <2>1 DEF Known, Unit
<1> QED
  BY <1>1, <1>2 DEF Plain, Header

LEMMA HeaderIsPlain ==
    ASSUME NEW h \in Header
    PROVE  h \in Plain
  BY DEF Header, Plain

\* A header and known units make known bytes.
LEMMA KnownConcat ==
    ASSUME NEW h \in Header, NEW a \in Seq(Unit), \A i \in 1 .. Len(a) : Known(a[i]),
           NEW b, b = <<h>> \o a
    PROVE  KnownBytes(b)
<1>1. h \in Unit /\ Known(h)
  BY HeaderIsPlain, PlainIsKnown
<1>2. /\ b \in Seq(Unit) /\ b # <<>> /\ b[1] = h /\ Len(b) = 1 + Len(a)
      /\ \A i \in 1 .. Len(a) : b[i + 1] = a[i]
  BY <1>1, HeadFacts
<1>3. ASSUME NEW i \in 1 .. Len(b) PROVE Known(b[i])
  <2>1. CASE i = 1
    BY <1>1, <1>2, <2>1
  <2>2. CASE i # 1
    <3>1. PICK j : j = i - 1
      OBVIOUS
    <3>2. j \in 1 .. Len(a) /\ i = j + 1
      BY <1>2, <2>2, <3>1
    <3> QED
      BY <1>2, <3>2
  <2> QED
    BY <2>1, <2>2
<1> QED
  BY <1>2, <1>3 DEF KnownBytes

LEMMA KnownTail ==
    ASSUME NEW b, KnownBytes(b)
    PROVE  /\ Tail(b) \in Seq(Unit) /\ Len(Tail(b)) = Len(b) - 1
           /\ \A i \in 1 .. Len(Tail(b)) : Known(Tail(b)[i])
<1>1. b \in Seq(Unit) /\ b # <<>> /\ \A i \in 1 .. Len(b) : Known(b[i])
  BY DEF KnownBytes
<1>2. PICK a : a = Tail(b)
  OBVIOUS
<1>3. a \in Seq(Unit) /\ Len(a) = Len(b) - 1 /\ \A i \in 1 .. Len(a) : a[i] = b[i + 1]
  BY <1>1, <1>2
<1>4. ASSUME NEW i \in 1 .. Len(a) PROVE Known(a[i])
  <2>1. PICK j : j = i + 1
    OBVIOUS
  <2>2. j \in 1 .. Len(b) /\ a[i] = b[j]
    BY <1>1, <1>3, <2>1
  <2> QED
    BY <1>1, <2>2
<1> QED
  BY <1>2, <1>3, <1>4

LEMMA SumIsKnown ==
    ASSUME NEW s \in sent, NEW p, p = s.made, p \in Protected, ~ SealedProtection(p)
    PROVE  \A i \in 1 .. Len(Sum(p)) : Known(Sum(p)[i])
<1>1. KnownMac(Summing(p))
  BY DEF KnownMac
<1>2. ASSUME NEW i \in 1 .. Len(Sum(p)) PROVE Known(Sum(p)[i])
  <2>1. PICK u : u = Sum(p)[i]
    OBVIOUS
  <2>2. u = [mac |-> Summing(p), at |-> i]
    BY <2>1, SumFacts DEF Summing
  <2>3. DOMAIN u = {"mac", "at"} /\ u.mac = Summing(p)
    BY <2>2
  <2>4. Known(u)
    BY <1>1, <2>3 DEF Known
  <2> QED
    BY <2>1, <2>4
<1> QED
  BY <1>2

LEMMA SecretIsKnown ==
    ASSUME NEW s \in sent, NEW p, p = s.made, p \in Protected, SealedProtection(p),
           NEW ec \in Nat
    PROVE  \A i \in 1 .. Len(Secret(p, ec)) :
              Known(Secret(p, ec)[i]) /\ "secret" \in DOMAIN Secret(p, ec)[i]
<1>1. KnownSecret(Sealing(p, ec))
  BY DEF KnownSecret
<1>2. ASSUME NEW i \in 1 .. Len(Secret(p, ec))
      PROVE  Known(Secret(p, ec)[i]) /\ "secret" \in DOMAIN Secret(p, ec)[i]
  <2>1. PICK u : u = Secret(p, ec)[i]
    OBVIOUS
  <2>2. u = [secret |-> Sealing(p, ec), at |-> i]
    BY <2>1, SecretFacts DEF Sealing
  <2>3. DOMAIN u = {"secret", "at"} /\ u.secret = Sealing(p, ec)
    BY <2>2
  <2>4. Known(u) /\ "secret" \in DOMAIN u
    BY <1>1, <2>3 DEF Known
  <2> QED
    BY <2>1, <2>4
<1> QED
  BY <1>2

\* Known units are known in any order.
LEMMA RotatedIsKnown ==
    ASSUME NEW a \in Seq(Unit), \A i \in 1 .. Len(a) : Known(a[i]), NEW n \in Int
    PROVE  \A i \in 1 .. Len(rotate_right(a, n)) : Known(rotate_right(a, n)[i])
<1>1. PICK r : r = rotate_right(a, n)
  OBVIOUS
<1>2. Len(r) = Len(a)
  BY <1>1, RotateFacts
<1>3. ASSUME NEW i \in 1 .. Len(a) PROVE Known(r[i])
  <2>1. PICK j : j = ((i - 1 - n) % Len(a)) + 1
    OBVIOUS
  <2>2. j \in 1 .. Len(a) /\ r[i] = a[j]
    BY <1>1, <2>1, RotateFacts
  <2> QED
    BY <2>2
<1> QED
  BY <1>1, <1>2, <1>3

LEMMA MicHeaderType ==
    ASSUME NEW p \in Protected
    PROVE  mic_header(p.flags, p.seq) \in Header
<1>1. p.flags \in FlagSets /\ p.seq \in Int
  BY ProtectedFacts
<1> QED
  BY <1>1 DEF mic_header, Header

LEMMA WrapHeaderType ==
    ASSUME NEW p \in Protected, NEW ec \in Nat, NEW rrc \in Nat
    PROVE  wrap_header(p.flags, ec, rrc, p.seq) \in Header
<1>1. p.flags \in FlagSets /\ p.seq \in Int
  BY ProtectedFacts
<1> QED
  BY <1>1 DEF wrap_header, Header

LEMMA ConcatUnits ==
    ASSUME NEW a, a \in Seq(Unit), NEW b, b \in Seq(Unit), NEW c, c = a \o b
    PROVE  /\ c \in Seq(Unit) /\ Len(c) = Len(a) + Len(b)
           /\ \A i \in 1 .. Len(a) : c[i] = a[i]
           /\ \A i \in 1 .. Len(b) : c[Len(a) + i] = b[i]
<1>1. PICK m \in Nat, n \in Nat : m = Len(a) /\ n = Len(b)
  OBVIOUS
<1>2. /\ c \in Seq(Unit) /\ Len(c) = m + n
      /\ \A i \in 1 .. m + n : c[i] = IF i <= m THEN a[i] ELSE b[i - m]
  BY <1>1, ConcatProperties
<1>3. \A i \in 1 .. m : c[i] = a[i]
  BY <1>2
<1>4. ASSUME NEW i \in 1 .. n PROVE c[m + i] = b[i]
  <2>1. PICK j : j = m + i
    OBVIOUS
  <2>2. j \in 1 .. m + n /\ ~ (j <= m) /\ j - m = i
    BY <2>1
  <2> QED
    BY <1>2, <2>1, <2>2
<1> QED
  BY <1>1, <1>2, <1>3, <1>4

LEMMA SentIsKnown ==
    ASSUME NEW s \in sent, SentInv(s)
    PROVE  KnownBytes(s.bytes) /\ Len(s.bytes) >= 2
<1>1. PICK p : p = s.made
  OBVIOUS
<1>2. p \in Protected
  BY <1>1 DEF SentInv
<1>3. PICK b : b = s.bytes
  OBVIOUS
<1>4. ChecksumLen \in Nat \ {0}
  BY TokenAssumption
<1>5. CASE IsMic(s)
  <2>1. b = <<mic_header(p.flags, p.seq)>> \o Sum(p) /\ ~ SealedProtection(p)
    BY <1>1, <1>3, <1>5 DEF IsMic, MicBytes, SealedProtection
  <2>2. PICK h : h = mic_header(p.flags, p.seq)
    OBVIOUS
  <2>3. PICK sum : sum = Sum(p)
    OBVIOUS
  <2>4. h \in Header
    BY <1>2, <2>2, MicHeaderType
  <2>5. sum \in Seq(Unit) /\ Len(sum) = ChecksumLen
    BY <1>2, <2>3, SumFacts
  <2>6. \A i \in 1 .. Len(sum) : Known(sum[i])
    BY <1>1, <1>2, <2>1, <2>3, SumIsKnown
  <2>7. b = <<h>> \o sum
    BY <2>1, <2>2, <2>3
  <2>8. KnownBytes(b)
    BY <2>4, <2>5, <2>6, <2>7, KnownConcat
  <2>9. Len(b) = 1 + Len(sum)
    BY <2>4, <2>5, <2>7
  <2> QED
    BY <1>3, <1>4, <2>5, <2>8, <2>9
<1>6. CASE IsWrap(s)
  <2>1. PICK payload \in Payloads, rrc \in Nat : b = WrapBytes(p, payload, ChecksumLen, rrc)
    BY <1>1, <1>3, <1>6 DEF IsWrap
  <2>2. ~ SealedProtection(p)
    BY <1>1, <1>6 DEF IsWrap, SealedProtection
  <2>3. PICK h : h = wrap_header(p.flags, ChecksumLen, rrc, p.seq)
    OBVIOUS
  <2>4. PICK sum : sum = Sum(p)
    OBVIOUS
  <2>5. h \in Header /\ h \in Unit
    BY <1>2, <1>4, <2>3, WrapHeaderType, HeaderIsPlain, PlainIsKnown
  <2>6. sum \in Seq(Unit) /\ Len(sum) = ChecksumLen /\ \A i \in 1 .. Len(sum) : Known(sum[i])
    BY <1>1, <1>2, <2>2, <2>4, SumFacts, SumIsKnown
  <2>7. payload \in Seq(Unit) /\ \A i \in 1 .. Len(payload) : Known(payload[i])
    <3>1. payload \in Seq(Plain)
      BY PayloadFacts
    <3>2. \A i \in 1 .. Len(payload) : payload[i] \in Plain
      BY <3>1
    <3> QED
      BY <3>2, PayloadFacts, PlainIsKnown
  <2>8. PICK rest : rest = payload \o sum
    OBVIOUS
  <2>9. /\ rest \in Seq(Unit) /\ Len(rest) = Len(payload) + Len(sum)
        /\ \A i \in 1 .. Len(payload) : rest[i] = payload[i]
        /\ \A i \in 1 .. Len(sum) : rest[Len(payload) + i] = sum[i]
    <3>1. sum \in Seq(Unit)
      BY <2>6
    <3>2. payload \in Seq(Unit)
      BY <2>7
    <3> QED
      BY <2>8, <3>1, <3>2, ConcatUnits
  <2>10. ASSUME NEW i \in 1 .. Len(rest) PROVE Known(rest[i])
    <3>1. CASE i <= Len(payload)
      BY <2>7, <2>9, <3>1
    <3>2. CASE i > Len(payload)
      <4>1. PICK j : j = i - Len(payload)
        OBVIOUS
      <4>2. j \in 1 .. Len(sum) /\ i = Len(payload) + j
        BY <2>6, <2>7, <2>9, <3>2, <4>1
      <4> QED
        BY <2>6, <2>9, <4>2
    <3> QED
      BY <2>7, <3>1, <3>2
  <2>11. b = <<h>> \o rest
    <3>1. <<h>> \in Seq(Unit)
      BY <2>5
    <3>2. (<<h>> \o payload) \o sum = <<h>> \o rest
      BY <2>6, <2>7, <2>8, <3>1, ConcatAssociative
    <3> QED
      BY <2>1, <2>3, <2>4, <3>2 DEF WrapBytes
  <2>12. KnownBytes(b)
    BY <2>5, <2>9, <2>10, <2>11, KnownConcat
  <2>13. Len(b) = 1 + Len(rest) /\ Len(payload) \in Nat
    BY <2>5, <2>7, <2>9, <2>11
  <2> QED
    BY <1>3, <1>4, <2>6, <2>9, <2>12, <2>13
<1>7. CASE IsSealed(s)
  <2>1. PICK ec \in Nat, rrc \in Nat : b = SealedBytes(p, ec, rrc)
    BY <1>1, <1>3, <1>7 DEF IsSealed
  <2>2. SealedProtection(p)
    BY <1>1, <1>7 DEF IsSealed, SealedProtection
  <2>3. PICK h : h = wrap_header(p.flags, ec, rrc, p.seq)
    OBVIOUS
  <2>4. PICK secret : secret = Secret(p, ec)
    OBVIOUS
  <2>5. PICK body : body = rotate_right(secret, rrc)
    OBVIOUS
  <2>6. h \in Header /\ h \in Unit
    BY <1>2, <2>3, WrapHeaderType, HeaderIsPlain, PlainIsKnown
  <2>7. /\ secret \in Seq(Unit) /\ Len(secret) \in Nat \ {0} /\ rrc \in Int
        /\ \A i \in 1 .. Len(secret) : Known(secret[i])
    BY <1>1, <1>2, <2>2, <2>4, SecretFacts, SecretIsKnown
  <2>8. body \in Seq(Unit) /\ Len(body) = Len(secret)
    BY <2>5, <2>7, RotateFacts
  <2>9. \A i \in 1 .. Len(body) : Known(body[i])
    BY <2>5, <2>7, RotatedIsKnown
  <2>10. b = <<h>> \o body
    BY <2>1, <2>3, <2>4, <2>5 DEF SealedBytes
  <2>11. KnownBytes(b)
    BY <2>6, <2>8, <2>9, <2>10, KnownConcat
  <2>12. Len(b) = 1 + Len(body)
    BY <2>6, <2>8, <2>10
  <2> QED
    BY <1>3, <2>7, <2>8, <2>11, <2>12
<1> QED
  BY <1>5, <1>6, <1>7 DEF SentInv

\* However the network changes bytes, it has only units that were sent.
LEMMA AlteredIsKnown ==
    ASSUME \A x \in sent : KnownBytes(x.bytes), NEW b, KnownBytes(b), Len(b) >= 2,
           NEW c \in Altered(b)
    PROVE  KnownBytes(c)
<1>1. /\ b \in Seq(Unit) /\ b # <<>> /\ b[1] \in Header /\ Len(b) \in Nat
      /\ \A i \in 1 .. Len(b) : Known(b[i])
  BY DEF KnownBytes
<1>2. \/ c \in {<<[b[1] EXCEPT !.flags = f]>> \o Tail(b) : f \in FlagSets}
      \/ c \in {<<[b[1] EXCEPT !.ec = n]>> \o Tail(b) : n \in Ecs}
      \/ c \in {<<[b[1] EXCEPT !.rrc = n]>> \o Tail(b) : n \in Rrcs}
      \/ c \in {<<[b[1] EXCEPT !.seq = n]>> \o Tail(b) : n \in Seqs}
      \/ c \in {<<s.bytes[1]>> \o Tail(b) : s \in sent}
      \/ c = SubSeq(b, 1, Len(b) - 1)
      \/ c = Append(b, [data |-> 0])
  BY DEF Altered
<1>3. PICK a : a = Tail(b)
  OBVIOUS
<1>4. a \in Seq(Unit) /\ \A i \in 1 .. Len(a) : Known(a[i])
  BY <1>3, KnownTail
<1>5. CASE \E h \in Header : c = <<h>> \o a
  BY <1>4, <1>5, KnownConcat
<1>6. CASE c = SubSeq(b, 1, Len(b) - 1)
  <2>0. PICK n : n = Len(b) - 1
    OBVIOUS
  <2>1. n \in Nat \ {0} /\ n = Len(b) - 1
    BY <1>1, <2>0
  <2>2. \A i \in 1 .. n : b[i] \in Unit
    BY <1>1, <2>1
  <2>3. c \in Seq(Unit) /\ Len(c) = n /\ \A i \in 1 .. n : c[i] = b[i]
    BY <1>1, <1>6, <2>1, <2>2, SubSeqProperties
  <2>4. c # <<>> /\ c[1] = b[1]
    BY <2>1, <2>3
  <2>5. \A i \in 1 .. n : i \in 1 .. Len(b)
    BY <1>1, <2>1
  <2> QED
    BY <1>1, <2>3, <2>4, <2>5 DEF KnownBytes
<1>7. CASE c = Append(b, [data |-> 0])
  <2>1. PICK u : u = [data |-> 0]
    OBVIOUS
  <2>2. u \in Plain
    BY <2>1 DEF Plain
  <2>3. u \in Unit /\ Known(u)
    BY <2>2, PlainIsKnown
  <2>4. /\ c \in Seq(Unit) /\ Len(c) = Len(b) + 1
        /\ \A i \in 1 .. Len(b) : c[i] = b[i]
        /\ c[Len(b) + 1] = u
    BY <1>1, <1>7, <2>1, <2>3, AppendProperties
  <2>5. c # <<>> /\ c[1] = b[1]
    BY <1>1, <2>4
  <2>6. \A i \in 1 .. Len(b) + 1 : i \in 1 .. Len(b) \/ i = Len(b) + 1
    BY <1>1
  <2> QED
    BY <1>1, <2>3, <2>4, <2>5, <2>6 DEF KnownBytes
<1>8. CASE c \in {<<[b[1] EXCEPT !.flags = f]>> \o Tail(b) : f \in FlagSets}
  <2>1. PICK f \in FlagSets : c = <<[b[1] EXCEPT !.flags = f]>> \o a
    BY <1>3, <1>8
  <2>2. [b[1] EXCEPT !.flags = f] \in Header
    BY <1>1 DEF Header
  <2> QED
    BY <1>5, <2>1, <2>2
<1>9. CASE c \in {<<[b[1] EXCEPT !.ec = n]>> \o Tail(b) : n \in Ecs}
  <2>1. PICK n \in Ecs : c = <<[b[1] EXCEPT !.ec = n]>> \o a
    BY <1>3, <1>9
  <2>2. [b[1] EXCEPT !.ec = n] \in Header
    BY <1>1, TokenAssumption DEF Header
  <2> QED
    BY <1>5, <2>1, <2>2
<1>10. CASE c \in {<<[b[1] EXCEPT !.rrc = n]>> \o Tail(b) : n \in Rrcs}
  <2>1. PICK n \in Rrcs : c = <<[b[1] EXCEPT !.rrc = n]>> \o a
    BY <1>3, <1>10
  <2>2. [b[1] EXCEPT !.rrc = n] \in Header
    BY <1>1, TokenAssumption DEF Header
  <2> QED
    BY <1>5, <2>1, <2>2
<1>11. CASE c \in {<<[b[1] EXCEPT !.seq = n]>> \o Tail(b) : n \in Seqs}
  <2>1. PICK n \in Seqs : c = <<[b[1] EXCEPT !.seq = n]>> \o a
    BY <1>3, <1>11
  <2>2. [b[1] EXCEPT !.seq = n] \in Header
    BY <1>1, TokenAssumption DEF Header
  <2> QED
    BY <1>5, <2>1, <2>2
<1>12. CASE c \in {<<s.bytes[1]>> \o Tail(b) : s \in sent}
  <2>1. PICK s \in sent : c = <<s.bytes[1]>> \o a
    BY <1>3, <1>12
  <2>2. s.bytes[1] \in Header
    BY DEF KnownBytes
  <2> QED
    BY <1>5, <2>1, <2>2
<1> QED
  BY <1>2, <1>6, <1>7, <1>8, <1>9, <1>10, <1>11, <1>12

\* Turning known bytes leaves them known.
LEMMA TurnedIsKnown ==
    ASSUME NEW b, KnownBytes(b), NEW n \in Rrcs
    PROVE  KnownBytes(Turned(b, n))
<1>1. PICK h : h = [b[1] EXCEPT !.rrc = @ + n]
  OBVIOUS
<1>2. h \in Header
  <2>1. b[1] \in Header /\ n \in Nat
    BY TokenAssumption DEF KnownBytes
  <2> QED
    BY <1>1, <2>1 DEF Header
<1>3. PICK a : a = Tail(b)
  OBVIOUS
<1>4. a \in Seq(Unit) /\ (\A i \in 1 .. Len(a) : Known(a[i])) /\ n \in Int
  BY <1>3, KnownTail, TokenAssumption
<1>5. PICK r : r = rotate_right(a, n)
  OBVIOUS
<1>6. r \in Seq(Unit)
  BY <1>4, <1>5, RotateFacts
<1>7. \A i \in 1 .. Len(r) : Known(r[i])
  BY <1>4, <1>5, RotatedIsKnown
<1>8. PICK c : c = <<h>> \o r
  OBVIOUS
<1>9. KnownBytes(c)
  BY <1>2, <1>6, <1>7, <1>8, KnownConcat
<1> QED
  BY <1>1, <1>3, <1>5, <1>8, <1>9 DEF Turned

LEMMA ArrivingIsKnown ==
    ASSUME \A s \in sent : SentInv(s), NEW m \in Arriving
    PROVE  KnownBytes(m.bytes)
<1>1. \A s \in sent : KnownBytes(s.bytes) /\ Len(s.bytes) >= 2
  BY SentIsKnown
<1>2. CASE \E s \in sent : m = [of |-> s, bytes |-> s.bytes]
  <2>1. PICK s \in sent : m.bytes = s.bytes
    BY <1>2
  <2> QED
    BY <1>1, <2>1
<1>3. CASE \E s \in sent, n \in Rrcs : m = [of |-> s, bytes |-> Turned(s.bytes, n)]
  <2>1. PICK s \in sent, n \in Rrcs : m.bytes = Turned(s.bytes, n)
    BY <1>3
  <2>2. KnownBytes(s.bytes)
    BY <1>1
  <2> QED
    BY <2>1, <2>2, TurnedIsKnown
<1>4. CASE \E s \in sent : \E c \in Altered(s.bytes) : m = [of |-> Nil, bytes |-> c]
  <2>1. PICK s \in sent : \E c \in Altered(s.bytes) : m = [of |-> Nil, bytes |-> c]
    BY <1>4
  <2>2. PICK c \in Altered(s.bytes) : m.bytes = c
    BY <2>1
  <2>3. PICK b : b = s.bytes
    OBVIOUS
  <2>4. KnownBytes(b) /\ Len(b) >= 2 /\ c \in Altered(b)
    BY <1>1, <2>3
  <2> QED
    BY <1>1, <2>2, <2>4, AlteredIsKnown
<1> QED
  BY <1>2, <1>3, <1>4 DEF Arriving

-----------------------------------------------------------------------------
(* Receiving.                                                               *)

Decoded(b, expect) ==
    IF b[1].id = "mic" THEN mic_decode(b, expect) ELSE wrap_decode(b, expect)
Given(d, payload) == IF d.id = "mic" THEN with_payload(d, payload) ELSE d

\* A MIC as decoded and given its payload.
LEMMA DecodedMic ==
    ASSUME NEW b, KnownBytes(b), b[1].id = "mic", NEW expect, NEW d, d = Decoded(b, expect),
           d # Nil, NEW payload, NEW t, t = Given(d, payload)
    PROVE  /\ t.id = "mic" /\ t.flags = b[1].flags /\ t.seq = b[1].seq
           /\ t.payload = payload /\ t.checksum = Tail(b)
<1>1. PICK h : h = b[1]
  OBVIOUS
<1>2. PICK rest : rest = Tail(b)
  OBVIOUS
<1>3. d = [NewMic(h.flags, h.seq) EXCEPT !.checksum = rest]
  BY <1>1, <1>2 DEF Decoded, mic_decode
<1>4. PICK n : n = NewMic(h.flags, h.seq)
  OBVIOUS
<1>5. n = [id |-> "mic", flags |-> h.flags, ec |-> 0, rrc |-> 0, seq |-> h.seq,
           payload |-> Nil, checksum |-> Nil, body |-> Nil]
  BY <1>4 DEF NewMic
<1>6. d = [n EXCEPT !.checksum = rest]
  BY <1>3, <1>4
<1>7. d = [id |-> "mic", flags |-> h.flags, ec |-> 0, rrc |-> 0, seq |-> h.seq,
           payload |-> Nil, checksum |-> rest, body |-> Nil]
  BY <1>5, <1>6
<1>8. t = [d EXCEPT !.payload = payload]
  BY <1>7 DEF Given, with_payload
<1>9. t = [id |-> "mic", flags |-> h.flags, ec |-> 0, rrc |-> 0, seq |-> h.seq,
           payload |-> payload, checksum |-> rest, body |-> Nil]
  BY <1>7, <1>8
<1>10. t.id = "mic" /\ t.flags = h.flags /\ t.seq = h.seq /\ t.payload = payload
       /\ t.checksum = rest
  BY <1>9
<1> QED
  BY <1>1, <1>2, <1>10

\* What follows the header of a token that is not sealed: the payload, and a
\* checksum of t.ec units.
Split(t, a) ==
    /\ t.ec <= Len(a)
    /\ t.payload = SubSeq(a, 1, Len(a) - t.ec)
    /\ t.checksum = SubSeq(a, Len(a) - t.ec + 1, Len(a))

\* A Wrap token as decoded.
LEMMA DecodedWrap ==
    ASSUME NEW b, KnownBytes(b), b[1].id = "wrap", NEW expect, NEW d, d = Decoded(b, expect),
           d # Nil, NEW payload, NEW t, t = Given(d, payload)
    PROVE  /\ t.id = "wrap" /\ t.flags = b[1].flags /\ t.seq = b[1].seq
           /\ t.ec = b[1].ec /\ t.rrc = b[1].rrc
           /\ is_sealed(t) => t.body = Tail(b) /\ t.payload = Nil /\ Tail(b) # <<>>
           /\ ~ is_sealed(t) => Split(t, Tail(b))
           /\ DOMAIN t = {"id", "flags", "ec", "rrc", "seq", "payload", "checksum", "body"}
<1>1. PICK h : h = b[1]
  OBVIOUS
<1>2. PICK rest : rest = Tail(b)
  OBVIOUS
<1>3. PICK n : n = [NewWrap(h.flags, h.seq) EXCEPT !.ec = h.ec, !.rrc = h.rrc]
  OBVIOUS
<1>4. n = [id |-> "wrap", flags |-> h.flags, ec |-> h.ec, rrc |-> h.rrc, seq |-> h.seq,
           payload |-> Nil, checksum |-> Nil, body |-> Nil]
  BY <1>3 DEF NewWrap, NewMic
<1>5. d = wrap_decode(b, expect) /\ IsHeader(b, "wrap", expect)
  BY DEF Decoded, wrap_decode
<1>6. CASE is_sealed(n)
  <2>1. rest # <<>> /\ d = [n EXCEPT !.body = rest]
    BY <1>1, <1>2, <1>3, <1>5, <1>6 DEF wrap_decode
  <2>2. d = [id |-> "wrap", flags |-> h.flags, ec |-> h.ec, rrc |-> h.rrc, seq |-> h.seq,
             payload |-> Nil, checksum |-> Nil, body |-> rest]
    BY <1>4, <2>1
  <2>3. t = d
    BY <2>2 DEF Given
  <2>4. h.flags = t.flags /\ is_sealed(t)
    BY <1>4, <1>6, <2>2, <2>3 DEF is_sealed
  <2>5. DOMAIN t = {"id", "flags", "ec", "rrc", "seq", "payload", "checksum", "body"}
    BY <2>2, <2>3
  <2>6. /\ t.id = "wrap" /\ t.flags = h.flags /\ t.seq = h.seq /\ t.ec = h.ec /\ t.rrc = h.rrc
        /\ t.body = rest /\ t.payload = Nil
    BY <2>2, <2>3
  <2> QED
    BY ONLY <1>1, <1>2, <2>1, <2>4, <2>5, <2>6
<1>7. CASE ~ is_sealed(n)
  <2>1. PICK front, back : /\ front = SubSeq(rest, 1, Len(rest) - n.ec)
                           /\ back = SubSeq(rest, Len(rest) - n.ec + 1, Len(rest))
    OBVIOUS
  <2>2. ~ (n.ec > Len(rest)) /\ d = [n EXCEPT !.payload = front, !.checksum = back]
    BY <1>1, <1>2, <1>3, <1>5, <1>7, <2>1 DEF wrap_decode
  <2>3. d = [id |-> "wrap", flags |-> h.flags, ec |-> h.ec, rrc |-> h.rrc, seq |-> h.seq,
             payload |-> front, checksum |-> back, body |-> Nil]
    BY <1>4, <2>2
  <2>4. t = d
    BY <2>3 DEF Given
  <2>5. n.ec = h.ec /\ h.ec \in Nat /\ Len(rest) \in Nat
    BY <1>1, <1>2, <1>4, KnownTail DEF KnownBytes, Header
  <2>6. n.ec <= Len(rest)
    BY <2>2, <2>5
  <2>7. /\ t.id = "wrap" /\ t.flags = h.flags /\ t.seq = h.seq /\ t.ec = h.ec /\ t.rrc = h.rrc
        /\ t.payload = front /\ t.checksum = back
        /\ DOMAIN t = {"id", "flags", "ec", "rrc", "seq", "payload", "checksum", "body"}
    BY <2>3, <2>4
  <2>8. ~ is_sealed(t)
    BY <1>4, <1>7, <2>7 DEF is_sealed
  <2>9. Split(t, rest)
    BY <2>1, <2>5, <2>6, <2>7 DEF Split
  <2> QED
    BY <1>1, <1>2, <2>7, <2>8, <2>9
<1> QED
  BY <1>6, <1>7

\* What a receiver has in token u, with this call, key and usage, is what was
\* protected in s.
Genuine(s, u, call, key, usage) ==
    /\ s.made.id = u.id /\ s.made.flags = u.flags /\ s.made.seq = u.seq
    /\ s.made.key = key /\ s.made.usage = usage
    /\ u.payload \in {s.made.payload, Nil}
    /\ u.payload = Nil => is_sealed(u) /\ call = "verify"

\* A checksum that a receiver computed and found among known units was made by
\* the sender, for the same contents.
LEMMA SumSource ==
    ASSUME NEW key, NEW usage, NEW payload \in Seq(Unit), NEW h \in Header, NEW u,
           Known(u), u = Checksum(key, usage, Append(payload, h))[1]
    PROVE  \E s \in sent : /\ s.made \in Protected
                           /\ s.made.key = key /\ s.made.usage = usage
                           /\ s.made.payload = payload /\ SumHeader(s.made) = h
<1>1. PICK text : text = Append(payload, h)
  OBVIOUS
<1>2. 1 \in 1 .. ChecksumLen
  BY TokenAssumption
<1>3. u = [mac |-> <<key, usage, text>>, at |-> 1]
  BY <1>1, <1>2 DEF Checksum
<1>4. "mac" \in DOMAIN u /\ u.mac = <<key, usage, text>>
  BY <1>3
<1>5. KnownMac(<<key, usage, text>>)
  BY <1>4 DEF Known
<1>6. PICK s \in sent : s.made \in Protected /\ <<key, usage, text>> = Summing(s.made)
  BY <1>5 DEF KnownMac
<1>7. PICK p : p = s.made
  OBVIOUS
<1>8. p \in Protected /\ p.key = key /\ p.usage = usage /\ text = Summed(p)
  BY <1>6, <1>7 DEF Summing
<1>9. PICK g : g = SumHeader(p)
  OBVIOUS
<1>10. g \in Unit /\ h \in Unit /\ p.payload \in Seq(Unit)
  <2>1. g \in Plain /\ h \in Plain
    BY <1>8, <1>9, SumFacts, HeaderIsPlain
  <2> QED
    BY <1>8, <2>1, PlainIsKnown, ProtectedFacts
<1>11. Append(payload, h) = Append(p.payload, g)
  BY <1>1, <1>8, <1>9 DEF Summed
<1>12. payload = p.payload /\ h = g
  <2>1. PICK old : old = p.payload
    OBVIOUS
  <2>2. old \in Seq(Unit) /\ Append(payload, h) = Append(old, g)
    BY <1>10, <1>11, <2>1
  <2>3. payload = old /\ h = g
    BY <1>10, <2>2, AppendInjective
  <2> QED
    BY <2>1, <2>3
<1> QED
  BY <1>7, <1>8, <1>9, <1>12

LEMMA MicIsGenuine ==
    ASSUME NEW b, KnownBytes(b), NEW t, NEW payload \in Payloads, NEW key, NEW usage,
           NEW call, call = "verify",
           t.id = "mic", t.flags = b[1].flags, t.seq = b[1].seq, t.payload = payload,
           t.checksum = Tail(b), mic_verify(t, key, usage)
    PROVE  \E s \in sent : Genuine(s, t, call, key, usage)
<1>1. PICK h : h = mic_header(t.flags, t.seq)
  OBVIOUS
<1>2. b[1].flags \in FlagSets /\ b[1].seq \in Int
  BY DEF KnownBytes, Header
<1>3. h \in Header
  BY <1>1, <1>2 DEF mic_header, Header
<1>4. PICK c : c = Checksum(key, usage, Append(payload, h))
  OBVIOUS
<1>5. mic_compute_checksum(t, key, usage) = c
  BY <1>1, <1>4 DEF mic_verify, mic_compute_checksum
<1>6. c = Tail(b)
  BY <1>5 DEF mic_verify
<1>7. ChecksumLen \in Nat \ {0} /\ c = [i \in 1 .. ChecksumLen |->
            [mac |-> <<key, usage, Append(payload, h)>>, at |-> i]]
  BY <1>4, TokenAssumption DEF Checksum
<1>8. Len(Tail(b)) = ChecksumLen
  <2>1. DOMAIN c = 1 .. ChecksumLen
    BY <1>7
  <2> QED
    BY <1>6, <1>7, <2>1, KnownTail
<1>9. PICK u : u = c[1]
  OBVIOUS
<1>10. Known(u)
  <2>1. PICK a : a = Tail(b)
    OBVIOUS
  <2>2. \A i \in 1 .. Len(a) : Known(a[i])
    BY <2>1, KnownTail
  <2>3. 1 \in 1 .. Len(a) /\ u = a[1]
    <3>1. Len(a) = ChecksumLen /\ a = c
      BY <1>6, <1>8, <2>1
    <3>2. 1 \in 1 .. ChecksumLen
      BY TokenAssumption
    <3> QED
      BY <1>9, <3>1, <3>2
  <2> QED
    BY <2>2, <2>3
<1>11. payload \in Seq(Unit) /\ payload # Nil
  BY PayloadFacts
<1>12. PICK s \in sent : /\ s.made \in Protected
                         /\ s.made.key = key /\ s.made.usage = usage
                         /\ s.made.payload = payload /\ SumHeader(s.made) = h
  BY <1>3, <1>4, <1>9, <1>10, <1>11, SumSource
<1>13. s.made.id = "mic" /\ s.made.flags = t.flags /\ s.made.seq = t.seq
  BY <1>1, <1>12, ProtectedFacts DEF SumHeader, mic_header, wrap_checksum_header, wrap_header
<1> QED
  BY <1>11, <1>12, <1>13 DEF Genuine

LEMMA WrapIsGenuine ==
    ASSUME NEW b, KnownBytes(b), NEW t, NEW key, NEW usage, NEW call,
           t.id = "wrap", t.flags = b[1].flags, t.seq = b[1].seq, t.ec = b[1].ec,
           ~ is_sealed(t), Split(t, Tail(b)), wrap_verify(t, key, usage)
    PROVE  \E s \in sent : Genuine(s, t, call, key, usage)
<1>1. PICK h : h = wrap_checksum_header(t.flags, t.seq)
  OBVIOUS
<1>2. b[1].flags \in FlagSets /\ b[1].seq \in Int /\ b[1].ec \in Nat
  BY DEF KnownBytes, Header
<1>3. h \in Header
  BY <1>1, <1>2 DEF wrap_checksum_header, wrap_header, Header
<1>4. PICK a : a = Tail(b)
  OBVIOUS
<1>5. a \in Seq(Unit) /\ Len(a) \in Nat /\ \A i \in 1 .. Len(a) : Known(a[i])
  BY <1>4, KnownTail
<1>6. PICK ec \in Nat : ec = t.ec
  BY <1>2
<1>7. PICK payload : payload = t.payload
  OBVIOUS
<1>8. payload \in Seq(Unit)
  <2>1. PICK n : n = Len(a) - ec
    OBVIOUS
  <2>2. n \in Int /\ 1 \in Int /\ \A i \in 1 .. n : a[i] \in Unit
    BY <1>5, <2>1
  <2>3. payload = SubSeq(a, 1, n)
    BY <1>4, <1>6, <1>7, <2>1 DEF Split
  <2> QED
    BY <2>2, <2>3, SubSeqProperties
<1>9. payload # Nil
  BY <1>8, NilAssumption
<1>10. PICK c : c = Checksum(key, usage, Append(payload, h))
  OBVIOUS
<1>11. wrap_compute_checksum(t, key, usage) = c
  BY <1>1, <1>7, <1>10 DEF wrap_verify, wrap_compute_checksum
<1>12. c = t.checksum
  BY <1>11 DEF wrap_verify
<1>13. ChecksumLen \in Nat \ {0} /\ c = [i \in 1 .. ChecksumLen |->
            [mac |-> <<key, usage, Append(payload, h)>>, at |-> i]]
  BY <1>10, TokenAssumption DEF Checksum
<1>14. DOMAIN c = 1 .. ChecksumLen
  BY <1>13
<1>15. PICK l, n : l = Len(a) - ec + 1 /\ n = Len(a) /\ l \in Int /\ n \in Int
  <2>1. Len(a) - ec + 1 \in Int /\ Len(a) \in Int
    BY <1>5
  <2> QED
    BY <2>1
<1>16. \A i \in l .. n : a[i] \in Unit
  BY <1>4, <1>5, <1>6, <1>15 DEF Split
<1>17. c = SubSeq(a, l, n)
  BY <1>4, <1>6, <1>12, <1>15 DEF Split
<1>18. /\ c \in Seq(Unit) /\ Len(c) = IF l <= n THEN n - l + 1 ELSE 0
       /\ \A i \in 1 .. n - l + 1 : c[i] = a[l + i - 1]
  <2>1. l \in Int /\ n \in Int
    BY <1>15
  <2> QED
    BY <1>16, <1>17, <2>1, SubSeqProperties
<1>19. Len(c) = ChecksumLen
  BY <1>13, <1>14, <1>18
<1>20. l <= n /\ l >= 1
  <2>1. l \in Int /\ n \in Int /\ l = Len(a) - ec + 1 /\ ChecksumLen \in Nat \ {0}
    BY <1>13, <1>15
  <2>2. l <= n
    BY <1>18, <1>19, <2>1
  <2>3. ec <= Len(a)
    BY <1>4, <1>6 DEF Split
  <2> QED
    BY <1>5, <2>1, <2>2, <2>3
<1>21. c[1] = a[l]
  <2>1. 1 \in 1 .. n - l + 1 /\ l + 1 - 1 = l
    BY <1>15, <1>20
  <2> QED
    BY <1>18, <2>1
<1>22. PICK u : u = c[1]
  OBVIOUS
<1>23. Known(u)
  BY <1>5, <1>15, <1>20, <1>21, <1>22
<1>24. PICK s \in sent : /\ s.made \in Protected
                         /\ s.made.key = key /\ s.made.usage = usage
                         /\ s.made.payload = payload /\ SumHeader(s.made) = h
  BY <1>3, <1>8, <1>10, <1>22, <1>23, SumSource
<1>25. s.made.id = "wrap" /\ s.made.flags = t.flags /\ s.made.seq = t.seq
  BY <1>1, <1>24, ProtectedFacts DEF SumHeader, mic_header, wrap_checksum_header, wrap_header
<1> QED
  BY <1>7, <1>9, <1>24, <1>25 DEF Genuine

\* Plaintexts are equal only when the header inside them is.
LEMMA SameHeader ==
    ASSUME NEW p \in Protected, NEW ec \in Nat, NEW n \in Nat, NEW flags, NEW seq,
           Plaintext(p, ec)[Len(Plaintext(p, ec))] = wrap_header(flags, n, 0, seq)
    PROVE  p.flags = flags /\ p.seq = seq /\ n = ec
<1>1. wrap_header(p.flags, ec, 0, p.seq) = wrap_header(flags, n, 0, seq)
  BY PlaintextFacts
<1> QED
  BY <1>1 DEF wrap_header

LEMMA SealedSource ==
    ASSUME NEW b, KnownBytes(b), NEW t, NEW key, NEW usage, NEW payload,
           t.id = "wrap", t.ec = b[1].ec, t.rrc = b[1].rrc,
           t.body = Tail(b), Tail(b) # <<>>,
           payload = decrypt_payload(t, key, usage), payload # Nil
    PROVE  \E s \in sent : /\ s.made \in Protected /\ s.made.id = "wrap"
                           /\ s.made.flags = t.flags /\ s.made.seq = t.seq
                           /\ s.made.key = key /\ s.made.usage = usage
                           /\ s.made.payload = payload
<1>1. b[1].ec \in Nat /\ b[1].rrc \in Nat
  BY DEF KnownBytes, Header
<1>2. PICK a : a = Tail(b)
  OBVIOUS
<1>3. /\ a \in Seq(Unit) /\ Len(a) \in Nat /\ Len(a) # 0 /\ a # <<>>
      /\ \A i \in 1 .. Len(a) : Known(a[i])
  BY <1>2, KnownTail
<1>4. PICK rrc \in Int : rrc = t.rrc
  BY <1>1
<1>5. PICK ec \in Nat : ec = t.ec
  BY <1>1
<1>6. PICK left : left = rotate_left(a, rrc)
  OBVIOUS
<1>7. Len(left) = Len(a) /\ left \in Seq(Unit)
  BY <1>3, <1>6, RotateFacts
<1>8. Known(left[1])
  <2>1. PICK i : i = 1
    OBVIOUS
  <2>2. i \in 1 .. Len(a)
    BY <1>3, <2>1
  <2>3. PICK j : j = ((i - 1 + rrc) % Len(a)) + 1
    OBVIOUS
  <2>4. j \in 1 .. Len(a) /\ left[i] = a[j]
    BY <1>3, <1>6, <2>2, <2>3, RotateFacts
  <2> QED
    BY <1>3, <2>1, <2>4
<1>9. PICK text : text = decrypt_message(key, usage, left)
  OBVIOUS
<1>10. /\ text # Nil /\ ~ (Len(text) < 1 + ec)
       /\ text[Len(text)] = wrap_header(t.flags, ec, 0, t.seq)
       /\ payload = SubSeq(text, 1, Len(text) - 1 - ec)
  BY <1>2, <1>4, <1>5, <1>6, <1>9 DEF decrypt_payload
<1>11. PICK secret : secret = left[1].secret
  OBVIOUS
<1>12. "secret" \in DOMAIN left[1] /\ secret[1] = key /\ secret[2] = usage /\ text = secret[3]
  BY <1>9, <1>10, <1>11 DEF decrypt_message
<1>13. KnownSecret(secret)
  BY <1>8, <1>11, <1>12 DEF Known
<1>14. PICK s \in sent : /\ s.made \in Protected /\ SealedProtection(s.made)
                         /\ \E n \in Nat : secret = Sealing(s.made, n)
  BY <1>13 DEF KnownSecret
<1>15. PICK n \in Nat : secret = Sealing(s.made, n)
  BY <1>14
<1>16. PICK p : p = s.made
  OBVIOUS
<1>17. p \in Protected /\ p.id = "wrap" /\ p.key = key /\ p.usage = usage
       /\ text = Plaintext(p, n)
  BY <1>12, <1>14, <1>15, <1>16 DEF Sealing, SealedProtection
<1>18. p.flags = t.flags /\ p.seq = t.seq /\ ec = n
  BY <1>10, <1>17, SameHeader
<1>19. payload = p.payload
  BY <1>10, <1>17, <1>18, PlaintextFacts
<1> QED
  BY <1>14, <1>16, <1>17, <1>18, <1>19

\* Whatever a receiver accepts is genuine.
LEMMA AcceptedIsGenuine ==
    ASSUME NEW b, KnownBytes(b), NEW expect, NEW d, d = Decoded(b, expect), d # Nil,
           NEW payload \in Payloads, NEW t, t = Given(d, payload),
           NEW call \in {"verify", "decrypt"}, NEW key, NEW usage,
           Accepts(t, call, key, usage),
           NEW u, u = decrypt_and_set_payload(t, call, key, usage)
    PROVE  \E s \in sent : Genuine(s, u, call, key, usage)
<1>1. b[1].id \in {"mic", "wrap"}
  BY DEF KnownBytes, Header
<1>2. CASE b[1].id = "mic"
  <2>1. /\ t.id = "mic" /\ t.flags = b[1].flags /\ t.seq = b[1].seq
        /\ t.payload = payload /\ t.checksum = Tail(b)
    BY <1>2, DecodedMic
  <2>2. call # "decrypt"
    <3>1. ~ is_sealed(t)
      BY <2>1 DEF is_sealed
    <3>2. decrypt_payload(t, key, usage) = Nil
      BY <3>1 DEF decrypt_payload
    <3> QED
      BY <3>2 DEF Accepts
  <2>3. u = t /\ call = "verify" /\ mic_verify(t, key, usage)
    BY <2>1, <2>2 DEF Accepts, decrypt_and_set_payload
  <2>4. \E s \in sent : Genuine(s, t, call, key, usage)
    BY <2>1, <2>3, MicIsGenuine
  <2> QED
    BY <2>3, <2>4
<1>3. CASE b[1].id = "wrap" /\ ~ is_sealed(t)
  <2>1. /\ t.id = "wrap" /\ t.flags = b[1].flags /\ t.seq = b[1].seq /\ t.ec = b[1].ec
        /\ Split(t, Tail(b))
    BY <1>3, DecodedWrap
  <2>2. call # "decrypt"
    <3>1. decrypt_payload(t, key, usage) = Nil
      BY <1>3 DEF decrypt_payload
    <3> QED
      BY <3>1 DEF Accepts
  <2>3. u = t /\ wrap_verify(t, key, usage)
    BY <2>1, <2>2 DEF Accepts, decrypt_and_set_payload
  <2>4. \E s \in sent : Genuine(s, t, call, key, usage)
    BY <1>3, <2>1, <2>3, WrapIsGenuine
  <2> QED
    BY <2>3, <2>4
<1>4. CASE b[1].id = "wrap" /\ is_sealed(t)
  <2>1. /\ t.id = "wrap" /\ t.flags = b[1].flags /\ t.seq = b[1].seq /\ t.ec = b[1].ec
        /\ t.rrc = b[1].rrc /\ t.body = Tail(b) /\ t.payload = Nil /\ Tail(b) # <<>>
        /\ DOMAIN t = {"id", "flags", "ec", "rrc", "seq", "payload", "checksum", "body"}
    BY <1>4, DecodedWrap
  <2>2. PICK plain : plain = decrypt_payload(t, key, usage)
    OBVIOUS
  <2>3. plain # Nil
    BY <1>4, <2>1, <2>2 DEF Accepts, wrap_verify
  <2>4. PICK s \in sent : /\ s.made \in Protected /\ s.made.id = "wrap"
                          /\ s.made.flags = t.flags /\ s.made.seq = t.seq
                          /\ s.made.key = key /\ s.made.usage = usage
                          /\ s.made.payload = plain
    BY <2>1, <2>2, <2>3, SealedSource
  <2>5. CASE call = "decrypt"
    <3>1. u = [t EXCEPT !.payload = plain]
      BY <2>2, <2>5 DEF decrypt_and_set_payload
    <3>2. u.id = t.id /\ u.flags = t.flags /\ u.seq = t.seq /\ u.payload = plain
      BY <2>1, <3>1
    <3>3. Genuine(s, u, call, key, usage)
      BY <2>1, <2>3, <2>4, <3>2 DEF Genuine
    <3> QED
      BY <3>3
  <2>6. CASE call = "verify"
    <3>1. u = t
      BY <2>6 DEF decrypt_and_set_payload
    <3>2. Genuine(s, u, call, key, usage)
      BY <1>4, <2>1, <2>4, <2>6, <3>1 DEF Genuine
    <3> QED
      BY <3>2
  <2> QED
    BY <2>5, <2>6
<1> QED
  BY <1>1, <1>2, <1>3, <1>4

-----------------------------------------------------------------------------
(* Delivery.                                                                *)

\* Bytes with a header of the expected direction are decoded.
LEMMA HeaderAccepted ==
    ASSUME NEW b, KnownBytes(b), NEW expect, expect = ("acceptor" \in b[1].flags)
    PROVE  IsHeader(b, b[1].id, expect)
<1>1. b # <<>> /\ DOMAIN b[1] = {"id", "flags", "ec", "rrc", "seq"}
  BY DEF KnownBytes, Header
<1> QED
  BY <1>1 DEF IsHeader, validate_gss_sender

LEMMA MicDecodes ==
    ASSUME NEW b, KnownBytes(b), b[1].id = "mic", NEW expect,
           expect = ("acceptor" \in b[1].flags)
    PROVE  Decoded(b, expect) # Nil
<1>1. PICK h : h = b[1]
  OBVIOUS
<1>2. h.flags \in FlagSets /\ h.seq \in Int
  BY <1>1 DEF KnownBytes, Header
<1>3. PICK rest : rest = Tail(b)
  OBVIOUS
<1>4. rest \in Option
  BY <1>3, KnownTail DEF Option
<1>5. PICK n : n = NewMic(h.flags, h.seq)
  OBVIOUS
<1>6. n \in Token
  BY <1>2, <1>5 DEF NewMic, Token, Option
<1>7. [n EXCEPT !.checksum = rest] \in Token
  BY <1>4, <1>6 DEF Token
<1>8. IsHeader(b, "mic", expect)
  BY HeaderAccepted
<1>9. Decoded(b, expect) = [n EXCEPT !.checksum = rest]
  BY <1>1, <1>3, <1>5, <1>8 DEF Decoded, mic_decode
<1> QED
  BY <1>7, <1>9, NilAssumption

LEMMA WrapDecodes ==
    ASSUME NEW b, KnownBytes(b), b[1].id = "wrap", NEW expect,
           expect = ("acceptor" \in b[1].flags),
           is_sealed(b[1]) => Tail(b) # <<>>,
           ~ is_sealed(b[1]) => b[1].ec <= Len(Tail(b))
    PROVE  Decoded(b, expect) # Nil
<1>1. PICK h : h = b[1]
  OBVIOUS
<1>2. /\ h.flags \in FlagSets /\ h.seq \in Int /\ h.ec \in Nat /\ h.rrc \in Nat
      /\ h.id = "wrap"
  BY <1>1 DEF KnownBytes, Header
<1>3. PICK rest : rest = Tail(b)
  OBVIOUS
<1>4. rest \in Seq(Unit) /\ Len(rest) \in Nat
  BY <1>3, KnownTail
<1>5. PICK n : n = [NewWrap(h.flags, h.seq) EXCEPT !.ec = h.ec, !.rrc = h.rrc]
  OBVIOUS
<1>6. n = [id |-> "wrap", flags |-> h.flags, ec |-> h.ec, rrc |-> h.rrc, seq |-> h.seq,
           payload |-> Nil, checksum |-> Nil, body |-> Nil]
  BY <1>5 DEF NewWrap, NewMic
<1>7. n \in Token /\ n.ec = h.ec /\ (is_sealed(n) <=> is_sealed(h))
  BY <1>2, <1>6 DEF Token, Option, is_sealed
<1>8. IsHeader(b, "wrap", expect)
  BY HeaderAccepted
<1>9. CASE is_sealed(n)
  <2>1. Decoded(b, expect) = [n EXCEPT !.body = rest]
    BY <1>1, <1>3, <1>5, <1>7, <1>8, <1>9 DEF Decoded, wrap_decode
  <2>2. [n EXCEPT !.body = rest] \in Token
    BY <1>4, <1>7 DEF Token, Option
  <2> QED
    BY <2>1, <2>2, NilAssumption
<1>10. CASE ~ is_sealed(n)
  <2>1. PICK front, back : /\ front = SubSeq(rest, 1, Len(rest) - n.ec)
                           /\ back = SubSeq(rest, Len(rest) - n.ec + 1, Len(rest))
    OBVIOUS
  <2>2. n.ec <= Len(rest) /\ n.ec \in Nat
    BY <1>1, <1>2, <1>3, <1>7, <1>10
  <2>3. Decoded(b, expect) = [n EXCEPT !.payload = front, !.checksum = back]
    <3>1. ~ (n.ec > Len(rest))
      BY <1>4, <2>2
    <3> QED
      BY <1>1, <1>3, <1>5, <1>8, <1>10, <2>1, <3>1 DEF Decoded, wrap_decode
  <2>4. [n EXCEPT !.payload = front, !.checksum = back] # Nil
    <3>1. PICK l, k, e : /\ l = Len(rest) - n.ec /\ k = Len(rest) - n.ec + 1 /\ e = Len(rest)
                         /\ l \in Int /\ k \in Int /\ e \in Int
      <4>1. Len(rest) - n.ec \in Int /\ Len(rest) - n.ec + 1 \in Int /\ Len(rest) \in Int
        BY <1>4, <2>2
      <4> QED
        BY <4>1
    <3>2. (\A i \in 1 .. l : rest[i] \in Unit) /\ (\A i \in k .. e : rest[i] \in Unit)
      BY <1>4, <2>2, <3>1
    <3>3. front = SubSeq(rest, 1, l) /\ back = SubSeq(rest, k, e)
      BY <2>1, <3>1
    <3>4. l \in Int /\ k \in Int /\ e \in Int /\ 1 \in Int
      BY <3>1
    <3>5. front \in Seq(Unit)
      BY <3>2, <3>3, <3>4, SubSeqProperties
    <3>6. back \in Seq(Unit)
      BY <3>2, <3>3, <3>4, SubSeqProperties
    <3>7. [n EXCEPT !.payload = front, !.checksum = back] \in Token
      BY <1>7, <3>5, <3>6 DEF Token, Option
    <3> QED
      BY <3>7, NilAssumption
  <2> QED
    BY <2>3, <2>4
<1> QED
  BY <1>9, <1>10

\* A receiver that has decoded d from the bytes of p accepts it and has the
\* payload, unless it only verifies a sealed token.
Delivers(p, d, payload, call) ==
    LET t == Given(d, payload)
        u == decrypt_and_set_payload(t, call, p.key, p.usage)
    IN  /\ d # Nil /\ Accepts(t, call, p.key, p.usage)
        /\ \/ u.payload = p.payload
           \/ u.payload = Nil /\ is_sealed(u) /\ call = "verify"

LEMMA MicDelivers ==
    ASSUME NEW p \in Protected, p.id = "mic", NEW b, b = MicBytes(p), KnownBytes(b),
           NEW expect, expect = ("acceptor" \in p.flags), NEW d, d = Decoded(b, expect),
           NEW payload, payload = p.payload, NEW call, call = "verify"
    PROVE  Delivers(p, d, payload, call)
<1>1. b[1] = mic_header(p.flags, p.seq) /\ Tail(b) = Sum(p)
  BY MicShape
<1>2. b[1].id = "mic" /\ b[1].flags = p.flags /\ b[1].seq = p.seq
  BY <1>1 DEF mic_header
<1>3. d # Nil
  BY <1>2, MicDecodes
<1>4. PICK t : t = Given(d, payload)
  OBVIOUS
<1>5. /\ t.id = "mic" /\ t.flags = p.flags /\ t.seq = p.seq
      /\ t.payload = p.payload /\ t.checksum = Sum(p)
  <2>1. PICK c : c = b
    OBVIOUS
  <2>2. KnownBytes(c) /\ d = Decoded(c, expect)
    BY <2>1
  <2>3. c[1].id = "mic"
    BY <1>2, <2>1
  <2>4. /\ t.id = "mic" /\ t.flags = c[1].flags /\ t.seq = c[1].seq
        /\ t.payload = payload /\ t.checksum = Tail(c)
    BY ONLY <1>3, <1>4, <2>2, <2>3, DecodedMic
  <2> QED
    BY <1>1, <1>2, <2>1, <2>4
<1>6. p.payload # Nil /\ p.key \in Supported /\ Sum(p) # Nil
  BY ProtectedFacts, SumFacts
<1>7. mic_compute_checksum(t, p.key, p.usage) = Sum(p)
  BY <1>5, <1>6 DEF mic_compute_checksum, Sum, Summed, SumHeader
<1>8. Accepts(t, call, p.key, p.usage)
  BY <1>5, <1>6, <1>7 DEF Accepts, mic_verify
<1>9. decrypt_and_set_payload(t, call, p.key, p.usage) = t
  BY DEF decrypt_and_set_payload
<1> QED
  BY <1>3, <1>4, <1>5, <1>8, <1>9 DEF Delivers

LEMMA PartFacts ==
    ASSUME NEW c, c \in Seq(Unit), NEW l, l \in Nat \ {0}, NEW e, e \in Nat,
           e <= Len(c), l <= e + 1
    PROVE  /\ SubSeq(c, l, e) \in Seq(Unit) /\ Len(SubSeq(c, l, e)) = e - l + 1
           /\ \A i \in 1 .. e - l + 1 : SubSeq(c, l, e)[i] = c[l + i - 1]
<1>1. \A i \in l .. e : c[i] \in Unit
  OBVIOUS
<1>2. l \in Int /\ e \in Int
  OBVIOUS
<1>3. PICK part : part = SubSeq(c, l, e)
  OBVIOUS
<1>4. part \in Seq(Unit)
  BY <1>1, <1>2, <1>3, SubSeqProperties
<1>5. Len(part) = IF l <= e THEN e - l + 1 ELSE 0
  BY <1>1, <1>2, <1>3, SubSeqProperties
<1>6. \A i \in 1 .. e - l + 1 : part[i] = c[l + i - 1]
  BY <1>1, <1>2, <1>3, SubSeqProperties
<1>7. Len(part) = e - l + 1
  BY <1>5
<1> QED
  BY <1>3, <1>4, <1>6, <1>7

LEMMA SplitConcat ==
    ASSUME NEW a, a \in Seq(Unit), NEW b, b \in Seq(Unit), NEW c, c = a \o b
    PROVE  /\ SubSeq(c, 1, Len(c) - Len(b)) = a
           /\ SubSeq(c, Len(c) - Len(b) + 1, Len(c)) = b
           /\ Len(b) <= Len(c)
<1>1. PICK m \in Nat, n \in Nat : m = Len(a) /\ n = Len(b)
  OBVIOUS
<1>2. /\ c \in Seq(Unit) /\ Len(c) = m + n
      /\ \A i \in 1 .. m : c[i] = a[i]
      /\ \A i \in 1 .. n : c[m + i] = b[i]
  BY <1>1, ConcatUnits
<1>3. PICK front : front = SubSeq(c, 1, m)
  OBVIOUS
<1>4. front \in Seq(Unit) /\ Len(front) = m /\ \A i \in 1 .. m : front[i] = c[i]
  <2>1. PICK w, o : w = c /\ o = 1
    OBVIOUS
  <2>2. w \in Seq(Unit) /\ o \in Nat \ {0} /\ m <= Len(w) /\ o <= m + 1 /\ m - o + 1 = m
    BY <1>2, <2>1
  <2>3. front = SubSeq(w, o, m)
    BY <1>3, <2>1
  <2>4. /\ front \in Seq(Unit) /\ Len(front) = m - o + 1
        /\ \A i \in 1 .. m - o + 1 : front[i] = w[o + i - 1]
    BY ONLY <2>2, <2>3, m \in Nat, PartFacts
  <2> QED
    BY <2>1, <2>2, <2>4
<1>5. front = a
  BY <1>1, <1>2, <1>4, SeqEqual
<1>6. PICK l, e : l = m + 1 /\ e = m + n
  OBVIOUS
<1>7. PICK back : back = SubSeq(c, l, e)
  OBVIOUS
<1>8. l \in Nat \ {0} /\ e \in Nat /\ e - l + 1 = n /\ l <= e + 1
  BY <1>6
<1>9. back \in Seq(Unit) /\ Len(back) = n /\ \A i \in 1 .. n : back[i] = c[l + i - 1]
  <2>1. PICK w : w = c
    OBVIOUS
  <2>2. w \in Seq(Unit) /\ e <= Len(w)
    BY <1>2, <1>6, <2>1
  <2>3. back = SubSeq(w, l, e)
    BY <1>7, <2>1
  <2>4. /\ back \in Seq(Unit) /\ Len(back) = e - l + 1
        /\ \A i \in 1 .. e - l + 1 : back[i] = w[l + i - 1]
    BY ONLY <1>8, <2>2, <2>3, PartFacts
  <2> QED
    BY <1>8, <2>1, <2>4
<1>10. \A i \in 1 .. n : back[i] = b[i]
  <2>1. \A i \in 1 .. n : l + i - 1 = m + i
    BY <1>6
  <2> QED
    BY <1>2, <1>9, <2>1
<1>11. back = b
  BY <1>1, <1>9, <1>10, SeqEqual
<1>12. Len(c) - Len(b) = m /\ Len(c) - Len(b) + 1 = l /\ Len(c) = e /\ Len(b) <= Len(c)
  BY <1>1, <1>2, <1>6
<1> QED
  BY <1>3, <1>5, <1>7, <1>11, <1>12

LEMMA WrapDelivers ==
    ASSUME NEW p \in Protected, p.id = "wrap", "sealed" \notin p.flags, NEW rrc \in Nat,
           NEW b, b = WrapBytes(p, p.payload, ChecksumLen, rrc), KnownBytes(b),
           NEW expect, expect = ("acceptor" \in p.flags), NEW d, d = Decoded(b, expect),
           NEW payload, NEW call, call = "verify"
    PROVE  Delivers(p, d, payload, call)
<1>1. PICK data \in Payloads : data = p.payload
  BY ProtectedFacts
<1>2. ChecksumLen \in Nat
  BY TokenAssumption
<1>3. PICK rest : rest = data \o Sum(p)
  OBVIOUS
<1>4. b[1] = wrap_header(p.flags, ChecksumLen, rrc, p.seq) /\ Tail(b) = rest
  BY <1>1, <1>2, <1>3, WrapShape
<1>5. /\ b[1].id = "wrap" /\ b[1].flags = p.flags /\ b[1].seq = p.seq
      /\ b[1].ec = ChecksumLen
  BY <1>4 DEF wrap_header
<1>6. data \in Seq(Unit) /\ Sum(p) \in Seq(Unit) /\ Len(Sum(p)) = ChecksumLen
  BY <1>1, PayloadFacts, SumFacts
<1>7. /\ SubSeq(rest, 1, Len(rest) - ChecksumLen) = data
      /\ SubSeq(rest, Len(rest) - ChecksumLen + 1, Len(rest)) = Sum(p)
      /\ ChecksumLen <= Len(rest)
  <2>1. PICK sum : sum = Sum(p)
    OBVIOUS
  <2>2. /\ SubSeq(rest, 1, Len(rest) - Len(sum)) = data
        /\ SubSeq(rest, Len(rest) - Len(sum) + 1, Len(rest)) = sum
        /\ Len(sum) <= Len(rest)
    <3>1. data \in Seq(Unit)
      BY <1>6
    <3>2. sum \in Seq(Unit)
      BY <1>6, <2>1
    <3>3. rest = data \o sum
      BY <1>3, <2>1
    <3> QED
      BY ONLY <3>1, <3>2, <3>3, SplitConcat
  <2> QED
    BY <1>6, <2>1, <2>2
<1>8. ~ is_sealed(b[1])
  BY <1>5 DEF is_sealed
<1>9. PICK c : c = b
  OBVIOUS
<1>10. KnownBytes(c) /\ d = Decoded(c, expect)
  BY <1>9
<1>11. c[1].id = "wrap" /\ expect = ("acceptor" \in c[1].flags)
  BY <1>5, <1>9
<1>12. d # Nil
  <2>1. is_sealed(c[1]) => Tail(c) # <<>>
    BY <1>8, <1>9
  <2>2. ~ is_sealed(c[1]) => c[1].ec <= Len(Tail(c))
    BY <1>4, <1>5, <1>7, <1>9
  <2> QED
    BY ONLY <1>10, <1>11, <2>1, <2>2, WrapDecodes
<1>13. PICK t : t = Given(d, payload)
  OBVIOUS
<1>14. /\ t.id = "wrap" /\ t.flags = c[1].flags /\ t.seq = c[1].seq /\ t.ec = c[1].ec
       /\ ~ is_sealed(t) => Split(t, Tail(c))
  BY ONLY <1>10, <1>11, <1>12, <1>13, DecodedWrap
<1>15. t.id = "wrap" /\ t.flags = p.flags /\ t.seq = p.seq /\ t.ec = ChecksumLen
  BY <1>5, <1>9, <1>14
<1>16. ~ is_sealed(t)
  BY <1>15 DEF is_sealed
<1>17. Split(t, rest)
  BY <1>4, <1>9, <1>14, <1>16
<1>18. t.payload = p.payload /\ t.checksum = Sum(p)
  BY <1>1, <1>7, <1>15, <1>17 DEF Split
<1>19. p.payload # Nil /\ p.key \in Supported /\ Sum(p) # Nil
  BY ProtectedFacts, SumFacts
<1>20. wrap_compute_checksum(t, p.key, p.usage) = Sum(p)
  BY <1>15, <1>18, <1>19 DEF wrap_compute_checksum, Sum, Summed, SumHeader
<1>21. Accepts(t, call, p.key, p.usage)
  BY <1>15, <1>16, <1>18, <1>19, <1>20 DEF Accepts, wrap_verify
<1>22. decrypt_and_set_payload(t, call, p.key, p.usage) = t
  BY DEF decrypt_and_set_payload
<1> QED
  BY <1>12, <1>13, <1>18, <1>21, <1>22 DEF Delivers

LEMMA SealedDelivers ==
    ASSUME NEW p \in Protected, p.id = "wrap", "sealed" \in p.flags,
           NEW ec \in Nat, NEW rrc \in Nat,
           NEW b, b = SealedBytes(p, ec, rrc), KnownBytes(b),
           NEW expect, expect = ("acceptor" \in p.flags), NEW d, d = Decoded(b, expect),
           NEW payload, NEW call, call \in {"verify", "decrypt"}
    PROVE  Delivers(p, d, payload, call)
<1>1. PICK secret : secret = Secret(p, ec)
  OBVIOUS
<1>2. secret \in Seq(Unit) /\ Len(secret) \in Nat \ {0} /\ rrc \in Int
  BY <1>1, SecretFacts
<1>3. PICK body : body = rotate_right(secret, rrc)
  OBVIOUS
<1>4. body \in Seq(Unit) /\ Len(body) = Len(secret) /\ body # <<>> /\ body # Nil
  <2>1. body \in Seq(Unit) /\ Len(body) = Len(secret)
    BY <1>2, <1>3, RotateFacts
  <2> QED
    BY <1>2, <2>1, NilAssumption
<1>5. b[1] = wrap_header(p.flags, ec, rrc, p.seq) /\ Tail(b) = body
  BY <1>1, <1>3, SealedShape
<1>6. /\ b[1].id = "wrap" /\ b[1].flags = p.flags /\ b[1].seq = p.seq
      /\ b[1].ec = ec /\ b[1].rrc = rrc
  BY <1>5 DEF wrap_header
<1>7. PICK c : c = b
  OBVIOUS
<1>8. KnownBytes(c) /\ d = Decoded(c, expect)
  BY <1>7
<1>9. c[1].id = "wrap" /\ expect = ("acceptor" \in c[1].flags)
  BY <1>6, <1>7
<1>10. d # Nil
  <2>1. is_sealed(c[1]) => Tail(c) # <<>>
    BY <1>4, <1>5, <1>7
  <2>2. ~ is_sealed(c[1]) => c[1].ec <= Len(Tail(c))
    BY <1>6, <1>7 DEF is_sealed
  <2> QED
    BY ONLY <1>8, <1>9, <2>1, <2>2, WrapDecodes
<1>11. PICK t : t = Given(d, payload)
  OBVIOUS
<1>12. /\ t.id = "wrap" /\ t.flags = c[1].flags /\ t.seq = c[1].seq
       /\ t.ec = c[1].ec /\ t.rrc = c[1].rrc
       /\ is_sealed(t) => t.body = Tail(c) /\ t.payload = Nil /\ Tail(c) # <<>>
       /\ DOMAIN t = {"id", "flags", "ec", "rrc", "seq", "payload", "checksum", "body"}
  BY ONLY <1>8, <1>9, <1>10, <1>11, DecodedWrap
<1>13. t.id = "wrap" /\ t.flags = p.flags /\ t.seq = p.seq /\ t.ec = ec /\ t.rrc = rrc
  BY <1>6, <1>7, <1>12
<1>14. is_sealed(t)
  BY <1>13 DEF is_sealed
<1>15. t.body = body /\ t.payload = Nil
  BY <1>5, <1>7, <1>12, <1>14
<1>16. rotate_left(body, rrc) = secret
  BY <1>2, <1>3, Unrotate
<1>17. PICK text : text = Plaintext(p, ec)
  OBVIOUS
<1>18. decrypt_message(p.key, p.usage, secret) = text
  <2>1. PICK first : first = secret[1]
    OBVIOUS
  <2>2. 1 \in 1 .. Len(secret) /\ secret # <<>>
    BY <1>2
  <2>3. first = [secret |-> <<p.key, p.usage, text>>, at |-> 1]
    BY <1>1, <1>17, <2>1, <2>2, SecretFacts
  <2>4. "secret" \in DOMAIN first /\ first.secret = <<p.key, p.usage, text>>
    BY <2>3
  <2>5. secret = encrypt_message(p.key, p.usage, text)
    BY <1>1, <1>17 DEF Secret
  <2> QED
    BY <2>1, <2>2, <2>4, <2>5 DEF decrypt_message
<1>19. /\ text # Nil /\ Len(text) = Len(p.payload) + ec + 1 /\ Len(p.payload) \in Nat
       /\ text[Len(text)] = wrap_header(p.flags, ec, 0, p.seq)
       /\ SubSeq(text, 1, Len(text) - 1 - ec) = p.payload
  <2>1. p.payload \in Seq(Plain)
    BY ProtectedFacts
  <2>2. Len(p.payload) \in Nat
    BY <2>1
  <2> QED
    BY <1>17, <2>2, PlaintextFacts
<1>20. ~ (Len(text) < 1 + ec)
  BY <1>19
<1>21. p.key \in Supported /\ p.payload # Nil
  BY ProtectedFacts
<1>22. decrypt_payload(t, p.key, p.usage) = p.payload
  BY <1>4, <1>13, <1>14, <1>15, <1>16, <1>18, <1>19, <1>20, <1>21 DEF decrypt_payload
<1>23. Accepts(t, call, p.key, p.usage)
  BY <1>13, <1>14, <1>21, <1>22 DEF Accepts, wrap_verify
<1>24. PICK u : u = decrypt_and_set_payload(t, call, p.key, p.usage)
  OBVIOUS
<1>25. \/ u.payload = p.payload
       \/ u.payload = Nil /\ is_sealed(u) /\ call = "verify"
  BY <1>12, <1>14, <1>15, <1>22, <1>24 DEF decrypt_and_set_payload
<1> QED
  BY <1>10, <1>11, <1>23, <1>24, <1>25 DEF Delivers

\* A sealed token that was turned on the way is the one with the larger count.
LEMMA TurnedIsSealed ==
    ASSUME NEW p \in Protected, NEW ec \in Nat, NEW rrc \in Nat, NEW n \in Nat,
           NEW b, b = SealedBytes(p, ec, rrc)
    PROVE  Turned(b, n) = SealedBytes(p, ec, rrc + n)
<1>1. PICK secret : secret = Secret(p, ec)
  OBVIOUS
<1>2. secret \in Seq(Unit) /\ rrc \in Int /\ n \in Int
  BY <1>1, SecretFacts
<1>3. b[1] = wrap_header(p.flags, ec, rrc, p.seq) /\ Tail(b) = rotate_right(secret, rrc)
  BY <1>1, SealedShape
<1>4. [b[1] EXCEPT !.rrc = @ + n] = wrap_header(p.flags, ec, rrc + n, p.seq)
  BY <1>3 DEF wrap_header
<1>5. rotate_right(Tail(b), n) = rotate_right(secret, rrc + n)
  BY <1>2, <1>3, RotateTwice
<1> QED
  BY <1>1, <1>4, <1>5 DEF Turned, SealedBytes

\* The receiver's arguments fit the token s.
Matches(s, expect, payload, call) ==
    /\ s.current
    /\ expect = ("acceptor" \in s.made.flags)
    /\ call = "decrypt" => "sealed" \in s.made.flags /\ s.made.id = "wrap"
    /\ s.made.id = "mic" => payload = s.made.payload

LEMMA SentIsDelivered ==
    ASSUME \A x \in sent : SentInv(x), NEW m \in Arriving, m.of # Nil,
           NEW expect, NEW payload, NEW call \in {"verify", "decrypt"},
           Matches(m.of, expect, payload, call), NEW d, d = Decoded(m.bytes, expect)
    PROVE  Delivers(m.of.made, d, payload, call)
<1>1. PICK s, p, b : s = m.of /\ p = s.made /\ b = m.bytes
  OBVIOUS
<1>2. s \in sent /\ (\/ b = s.bytes
                     \/ is_sealed(s.bytes[1]) /\ \E n \in Rrcs : b = Turned(s.bytes, n))
  BY <1>1 DEF Arriving
<1>3. SentInv(s) /\ p \in Protected
  BY <1>1, <1>2 DEF SentInv
<1>4. KnownBytes(b) /\ d = Decoded(b, expect)
  BY <1>1, ArrivingIsKnown
<1>5. /\ s.current /\ expect = ("acceptor" \in p.flags)
      /\ call = "decrypt" => "sealed" \in p.flags /\ p.id = "wrap"
      /\ p.id = "mic" => payload = p.payload
  BY <1>1 DEF Matches
<1>6. CASE IsMic(s)
  <2>1. p.id = "mic" /\ s.bytes = MicBytes(p)
    BY <1>1, <1>6 DEF IsMic
  <2>2. s.bytes[1] = mic_header(p.flags, p.seq)
    BY <1>3, <2>1, MicShape
  <2>3. ~ is_sealed(s.bytes[1])
    BY <2>2 DEF is_sealed, mic_header
  <2>4. b = MicBytes(p) /\ call = "verify" /\ payload = p.payload
    BY <1>2, <1>5, <2>1, <2>3
  <2>5. Delivers(p, d, payload, call)
    BY <1>3, <1>4, <1>5, <2>1, <2>4, MicDelivers
  <2> QED
    BY <1>1, <2>5
<1>7. CASE IsWrap(s)
  <2>1. PICK rrc \in Nat : s.bytes = WrapBytes(p, p.payload, ChecksumLen, rrc)
    BY <1>1, <1>5, <1>7 DEF IsWrap
  <2>2. p.id = "wrap" /\ "sealed" \notin p.flags
    BY <1>1, <1>7 DEF IsWrap
  <2>3. s.bytes[1] = wrap_header(p.flags, ChecksumLen, rrc, p.seq)
    <3>1. PICK data \in Payloads : data = p.payload
      BY <1>3, ProtectedFacts
    <3>2. ChecksumLen \in Nat
      BY TokenAssumption
    <3> QED
      BY <1>3, <2>1, <3>1, <3>2, WrapShape
  <2>4. ~ is_sealed(s.bytes[1])
    BY <2>2, <2>3 DEF is_sealed, wrap_header
  <2>5. b = WrapBytes(p, p.payload, ChecksumLen, rrc) /\ call = "verify"
    BY <1>2, <1>5, <2>1, <2>2, <2>4
  <2>6. Delivers(p, d, payload, call)
    BY <1>3, <1>4, <1>5, <2>2, <2>5, WrapDelivers
  <2> QED
    BY <1>1, <2>6
<1>8. CASE IsSealed(s)
  <2>1. PICK ec \in Nat, rrc \in Nat : s.bytes = SealedBytes(p, ec, rrc)
    BY <1>1, <1>8 DEF IsSealed
  <2>2. p.id = "wrap" /\ "sealed" \in p.flags
    BY <1>1, <1>8 DEF IsSealed
  <2>3. PICK r \in Nat : b = SealedBytes(p, ec, r)
    <3>1. CASE b = s.bytes
      BY <2>1, <3>1
    <3>2. CASE \E n \in Rrcs : b = Turned(s.bytes, n)
      <4>1. PICK n \in Rrcs : b = Turned(s.bytes, n)
        BY <3>2
      <4>2. n \in Nat
        BY TokenAssumption
      <4>3. b = SealedBytes(p, ec, rrc + n) /\ rrc + n \in Nat
        BY <1>3, <2>1, <4>1, <4>2, TurnedIsSealed
      <4> QED
        BY <4>3
    <3> QED
      BY <1>2, <3>1, <3>2
  <2>4. Delivers(p, d, payload, call)
    BY <1>3, <1>4, <1>5, <2>2, <2>3, SealedDelivers
  <2> QED
    BY <1>1, <2>4
<1> QED
  BY <1>3, <1>6, <1>7, <1>8 DEF SentInv

LEMMA ReceiveStep ==
    ASSUME IInv, NEW m \in Arriving, NEW expect \in BOOLEAN, NEW payload \in Payloads,
           NEW call \in {"verify", "decrypt"}, NEW key \in Keys, NEW usage \in Usages,
           Receive(m, expect, payload, call, key, usage)
    PROVE  IInv'
<1>1. PICK d : d = Decoded(m.bytes, expect)
  OBVIOUS
<1>2. PICK t : t = Given(d, payload)
  OBVIOUS
<1>3. PICK ok : ok = (d # Nil /\ Accepts(t, call, key, usage))
  OBVIOUS
<1>4. PICK u : u = decrypt_and_set_payload(t, call, key, usage)
  OBVIOUS
<1>5. outcome' = [of |-> m.of, ok |-> ok, expected |-> expect, had |-> payload,
                  call |-> call, key |-> key, usage |-> usage,
                  token |-> IF ok THEN u ELSE Nil]
  BY <1>1, <1>2, <1>3, <1>4 DEF Receive, Decoded, Given
<1>6. /\ outcome'.of = m.of /\ outcome'.ok = ok /\ outcome'.expected = expect
      /\ outcome'.had = payload /\ outcome'.call = call /\ outcome'.key = key
      /\ outcome'.usage = usage /\ (ok => outcome'.token = u)
  BY <1>5
<1>7. UNCHANGED <<token, sealing, made, sent>>
  BY DEF Receive
<1>8. \A s \in sent : SentInv(s)
  BY DEF IInv
<1>9. Authentic'
  <2>1. SUFFICES ASSUME ok
                 PROVE  \E s \in sent : Genuine(s, u, call, key, usage)
    BY <1>6, <1>7 DEF Authentic, Genuine
  <2>2. KnownBytes(m.bytes)
    BY <1>8, ArrivingIsKnown
  <2>3. PICK b : b = m.bytes
    OBVIOUS
  <2>4. KnownBytes(b) /\ d = Decoded(b, expect) /\ d # Nil /\ Accepts(t, call, key, usage)
    BY <1>1, <1>3, <2>1, <2>2, <2>3
  <2> QED
    BY <1>2, <1>4, <2>4, AcceptedIsGenuine
<1>10. Delivered'
  <2>1. SUFFICES ASSUME m.of # Nil, Matches(m.of, expect, payload, call),
                        key = m.of.made.key, usage = m.of.made.usage
                 PROVE  ok /\ \/ u.payload = m.of.made.payload
                              \/ u.payload = Nil /\ is_sealed(u) /\ call = "verify"
    BY <1>6 DEF Delivered, Matches
  <2>2. Delivers(m.of.made, d, payload, call)
    BY <1>1, <1>8, <2>1, SentIsDelivered
  <2> QED
    BY <1>2, <1>3, <1>4, <2>1, <2>2 DEF Delivers
<1>11. token # Nil => Building(token, made) /\ (sealing => is_sealed(token))
  BY DEF IInv
<1> QED
  BY <1>7, <1>8, <1>9, <1>10, <1>11 DEF IInv

-----------------------------------------------------------------------------
(* The theorems.                                                            *)

\* What was sent in a token for which sealing was requested is ciphertext.
LEMMA SealedUnits ==
    ASSUME NEW s \in sent, SentInv(s), s.sealing
    PROVE  \A i \in 2 .. Len(s.bytes) : "secret" \in DOMAIN s.bytes[i]
<1>1. PICK p, b : p = s.made /\ b = s.bytes
  OBVIOUS
<1>2. p \in Protected /\ SealedProtection(p)
  BY <1>1 DEF SentInv, IsSealed, SealedProtection
<1>3. PICK ec \in Nat, rrc \in Nat : b = SealedBytes(p, ec, rrc)
  BY <1>1 DEF SentInv, IsSealed
<1>4. PICK secret : secret = Secret(p, ec)
  OBVIOUS
<1>5. /\ secret \in Seq(Unit) /\ rrc \in Int
      /\ \A i \in 1 .. Len(secret) : "secret" \in DOMAIN secret[i]
  <2>1. \A i \in 1 .. Len(Secret(p, ec)) : "secret" \in DOMAIN Secret(p, ec)[i]
    BY <1>1, <1>2, SecretIsKnown
  <2>2. Secret(p, ec) \in Seq(Unit)
    BY <1>2, SecretFacts
  <2> QED
    BY <1>4, <2>1, <2>2
<1>6. PICK body : body = rotate_right(secret, rrc)
  OBVIOUS
<1>7. body \in Seq(Unit) /\ Len(body) = Len(secret)
  BY <1>5, <1>6, RotateFacts
<1>8. ASSUME NEW i \in 1 .. Len(body) PROVE "secret" \in DOMAIN body[i]
  <2>1. i \in 1 .. Len(secret)
    BY <1>7
  <2>2. PICK j : j = ((i - 1 - rrc) % Len(secret)) + 1
    OBVIOUS
  <2>3. j \in 1 .. Len(secret) /\ body[i] = secret[j]
    BY <1>5, <1>6, <2>1, <2>2, RotateFacts
  <2> QED
    BY <1>5, <2>3
<1>9. PICK h : h = wrap_header(p.flags, ec, rrc, p.seq)
  OBVIOUS
<1>10. h \in Unit
  BY <1>2, <1>9, WrapHeaderType, HeaderIsPlain, PlainIsKnown
<1>11. b = <<h>> \o body
  BY <1>3, <1>4, <1>6, <1>9 DEF SealedBytes
<1>12. Len(b) = 1 + Len(body) /\ \A i \in 1 .. Len(body) : b[i + 1] = body[i]
  BY <1>7, <1>10, <1>11, HeadFacts
<1>13. ASSUME NEW i \in 2 .. Len(b) PROVE "secret" \in DOMAIN b[i]
  <2>1. PICK j : j = i - 1
    OBVIOUS
  <2>2. j \in 1 .. Len(body) /\ i = j + 1
    BY <1>7, <1>12, <2>1
  <2> QED
    BY <1>8, <1>12, <2>2
<1> QED
  BY <1>1, <1>13

\* Every checksum and body of the sender's token, and everything sent, is what
\* the last successful call made of what it protected; acceptance and delivery
\* follow from that for every token that arrives.
THEOREM Invariance == Spec => []IInv
<1>1. Init => IInv
  BY DEF Init, IInv, Authentic, Delivered
<1>2. IInv /\ [Next]_vars => IInv'
  <2>1. SUFFICES ASSUME IInv, [Next]_vars PROVE IInv'
    OBVIOUS
  <2>2. CASE UNCHANGED vars
    BY <2>1, <2>2 DEF vars, IInv, Authentic, Delivered
  <2>3. CASE Next
    <3>1. CASE \E id \in {"mic", "wrap"}, flags \in FlagSets, seq \in Seqs :
                    New(id, flags, seq)
      BY <2>1, <3>1, NewStep
    <3>2. CASE \E call \in {"mic", "wrap", "sealed"}, payload \in Payloads, key \in Keys :
                    NewInitiator(call, payload, key)
      BY <2>1, <3>2, NewInitiatorStep
    <3>3. CASE \E ec \in Ecs, rrc \in Rrcs : SetCounts(ec, rrc)
      BY <2>1, <3>3, SetCountsStep
    <3>4. CASE \E payload \in Payloads : WithPayload(payload)
      BY <2>1, <3>4, WithPayloadStep
    <3>5. CASE \E key \in Keys, usage \in Usages :
                    SetChecksum(key, usage) \/ EncryptPayload(key, usage)
      BY <2>1, <3>5, SetChecksumStep, EncryptStep
    <3>6. CASE Send
      BY <2>1, <3>6, SendStep
    <3>7. CASE GiveUp
      BY <2>1, <3>7, GiveUpStep
    <3>8. CASE \E m \in Arriving, expect \in BOOLEAN, payload \in Payloads,
                  call \in {"verify", "decrypt"}, key \in Keys, usage \in Usages :
                    Receive(m, expect, payload, call, key, usage)
      BY <2>1, <3>8, ReceiveStep
    <3> QED
      BY <2>3, <3>1, <3>2, <3>3, <3>4, <3>5, <3>6, <3>7, <3>8 DEF Next
  <2> QED
    BY <2>1, <2>2, <2>3
<1> QED
  BY <1>1, <1>2, PTL DEF Spec

\* For any keys, payloads, counts, lengths and calls: what a receiver accepts,
\* verified or decrypted, is what the sender protected in a token of that kind
\* with that header, key and usage.
THEOREM AcceptedIsAuthentic == Spec => []Authentic
<1>1. IInv => Authentic
  BY DEF IInv
<1> QED
  BY <1>1, Invariance, PTL

\* Any token that could be sent, by whatever calls it was built, is accepted
\* by the receiver that knows key, usage and direction, turned or not, with the
\* payload that was protected.
THEOREM ProtectedIsDelivered == Spec => []Delivered
<1>1. IInv => Delivered
  BY DEF IInv
<1> QED
  BY <1>1, Invariance, PTL

\* Once sealing was requested, nothing but ciphertext is ever sent of a token.
THEOREM SealedStaysSecret == Spec => []SealedIsSecret
<1>1. IInv => SealedIsSecret
  BY SealedUnits DEF IInv, SealedIsSecret
<1> QED
  BY <1>1, Invariance, PTL

=============================================================================
