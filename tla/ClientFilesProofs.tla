------------------------- MODULE ClientFilesProofs --------------------------
(***************************************************************************)
(* Clients and their files: proofs about ClientSession, for any realms,    *)
(* services and lifetimes, and about CredentialFiles, for any processes that*)
(* share a cache or a keytab.                                              *)
(***************************************************************************)
EXTENDS ClientSession, CacheFormatProofs

\* The sessions the KDC hands out are sessions.
LEMMA KdcSessions ==
    ASSUME NEW t \in Nat
    PROVE  /\ AsTicket(t) \in Session
           /\ \A s \in Session : TgsTicket(s, t) \in Session
           /\ \A s \in Session : s.renew # NoRenew => RenewedTicket(s, t) \in Session
<1> USE LifeAssumption DEF Session
<1>1. AsTicket(t) \in Session
  BY DEF AsTicket
<1>2. ASSUME NEW s \in Session PROVE TgsTicket(s, t) \in Session
  <2>1. KdcMin(t + Life, s.end) \in Nat
    BY DEF KdcMin
  <2> QED BY <2>1 DEF TgsTicket
<1>3. ASSUME NEW s \in Session, s.renew # NoRenew
      PROVE  RenewedTicket(s, t) \in Session
  <2>1. KdcMin(t + Life, s.renew) \in Nat
    BY <1>3 DEF KdcMin
  <2> QED BY <2>1 DEF RenewedTicket
<1> QED BY <1>1, <1>2, <1>3

LEMMA KdcClock ==
    ASSUME now \in Nat, NEW t \in KdcTimes
    PROVE  t \in Nat
  BY LifeAssumption DEF KdcTimes

\* preferred_session_at returns one of its arguments, and a session if it is
\* offered one.
LEMMA Preferred ==
    ASSUME NEW c, NEW s \in Session, NEW t
    PROVE  /\ preferred_session_at(c, s, t) \in {c, s}
           /\ c \in MaybeSession => preferred_session_at(c, s, t) \in Session
  BY DEF preferred_session_at, MaybeSession

LEMMA SessionIsSomething ==
    ASSUME NEW s \in Session
    PROVE  s # NoSession /\ Have(s)
  BY SessionAssumption DEF Have

\* cache_tgt_session_at keeps the types and, when the primary TGT mirrors the
\* home entry or the map is empty, leaves them equal.
LEMMA CacheTgt ==
    ASSUME NEW T \in [Realms -> MaybeSession], NEW P \in MaybeSession,
           NEW realm \in Realms, NEW s \in Session
    PROVE  LET cached == cache_tgt_session_at(T, P, realm, s) IN
           /\ cached.tgt \in MaybeSession
           /\ cached.sessions \in [Realms -> MaybeSession]
           /\ realm = Home => cached.tgt \in Session
           /\ cached.sessions[realm] \in Session
           /\ realm = Home \/ P = T[Home] => cached.tgt = cached.sessions[Home]
<1> DEFINE selected == preferred_session_at(T[realm], s, now)
           mirrored == preferred_session_at(P, selected, now)
<1>1. selected \in Session
  BY Preferred
<1>2. mirrored \in Session
  BY <1>1, Preferred
<1>3. Session \subseteq MaybeSession /\ Home \in Realms
  BY RealmAssumption DEF MaybeSession
<1> HIDE DEF selected, mirrored
<1>4. CASE realm = Home
  <2>1. cache_tgt_session_at(T, P, realm, s)
          = [tgt |-> mirrored, sessions |-> [T EXCEPT ![Home] = mirrored]]
    BY <1>4 DEF cache_tgt_session_at, selected, mirrored
  <2> QED BY <1>2, <1>3, <1>4, <2>1
<1>5. CASE realm # Home
  <2>1. cache_tgt_session_at(T, P, realm, s)
          = [tgt |-> P, sessions |-> [T EXCEPT ![realm] = selected]]
    BY <1>5 DEF cache_tgt_session_at, selected
  <2> QED BY <1>1, <1>3, <1>5, <2>1
<1> QED BY <1>4, <1>5

\* The parts of the invariant that depend on the call and the task only.
CallInv ==
    /\ call \in Calls
    /\ task \in [phase : Phases, wake : Int]
    /\ CallWellFormed
    /\ TaskOwnsItsCall

\* Reaching an await keeps them.  `by` is the caller of a call in progress, or
\* whoever starts one on a free client.
LEMMA AwaitStep ==
    ASSUME CallInv, NEW by \in {"app", "task"}, NEW method \in Methods,
           NEW kind \in Kinds \ {"idle"}, NEW realm \in Realms, NEW goal \in Goals,
           NEW session \in MaybeSession,
           kind # "login" => session \in Session,
           kind \in {"renewCached", "renewTicket", "tgs"} => goal \in Services,
           kind = "renewCached" => realm # Home,
           by = "app" => task.phase # "refreshing",
           Await(by, method, kind, realm, goal, session)
    PROVE  CallInv'
<1>1. call' = [by |-> by, method |-> method, kind |-> kind, realm |-> realm,
               goal |-> goal, session |-> session, waited |-> 0]
  BY DEF Await
<1>2. call' \in Calls
  BY <1>1, LifeAssumption DEF Calls
<1>3. call'.by = by /\ call'.kind = kind /\ call'.session = session
      /\ call'.goal = goal /\ call'.realm = realm
  BY <1>1
<1>4. call' # Idle /\ Idle' = Idle
  BY <1>3 DEF Idle
<1>5. CallWellFormed'
  BY <1>3, <1>4 DEF CallWellFormed
<1>6. task' \in [phase : Phases, wake : Int] /\ TaskOwnsItsCall'
  BY <1>3 DEF Await, TaskOwnsItsCall, CallInv, Phases
<1> QED BY <1>2, <1>5, <1>6 DEF CallInv

\* So does returning.
LEMMA ReturnStep ==
    ASSUME CallInv, now \in Nat, NEW by \in {"app", "task"}, NEW outcome,
           by = "app" => task.phase # "refreshing",
           Return(by, outcome)
    PROVE  CallInv' /\ call' = Idle
<1>1. call' = Idle /\ Idle' = Idle
  BY DEF Return, Idle
<1>2. Idle \in Calls /\ Idle.by = "none" /\ Idle.kind = "idle"
  BY LifeAssumption, RealmAssumption
     DEF Idle, Calls, Methods, Kinds, Goals, MaybeSession
<1>3. CallWellFormed'
  BY <1>1, <1>2 DEF CallWellFormed
<1>4. task' \in [phase : Phases, wake : Int] /\ task'.phase # "refreshing"
  BY LifeAssumption DEF Return, CallInv, Phases
<1> QED BY <1>1, <1>2, <1>3, <1>4 DEF CallInv, TaskOwnsItsCall

\* And what is done with a TGT once there is one, provided the state it was
\* taken from is not empty.
LEMMA WithTgtStep ==
    ASSUME CallInv, now \in Nat, NEW by \in {"app", "task"},
           NEW method \in Methods, NEW goal \in Goals, NEW session \in Session,
           by = "app" => task.phase # "refreshing",
           WithTgt(by, method, goal, session)
    PROVE  CallInv'
<1>1. session \in MaybeSession /\ Home \in Realms
  BY RealmAssumption DEF MaybeSession
<1>2. CASE goal = NoGoal /\ Return(by, "ok")
  BY <1>2, ReturnStep
<1>3. CASE goal = S4U /\ Await(by, method, "s4u", Home, goal, session)
  BY <1>1, <1>3, AwaitStep DEF Kinds
<1>4. CASE goal \in Services /\ Await(by, method, "tgs", Home, goal, session)
  BY <1>1, <1>4, AwaitStep DEF Kinds
<1> QED BY <1>2, <1>3, <1>4 DEF WithTgt

\* A decision that the client's state can carry out.
Feasible(next) ==
    /\ next \in {"have", "renew", "login", "error"}
    /\ next \in {"have", "renew"} => Have(tgt)
    /\ next = "login" => creds

\* login, affirm_login and ensure_tgt only decide what they can carry out.
LEMMA Decisions ==
    Feasible(login_next) /\ Feasible(affirm_login_next) /\ Feasible(ensure_tgt_next)
  BY DEF Feasible, login_next, affirm_login_next, ensure_tgt_next, Valid, Renewable

LEMMA ProceedStep ==
    ASSUME TypeOK, CallInv, NEW by \in {"app", "task"}, NEW method \in Methods,
           NEW goal \in Goals, NEW next, Feasible(next),
           by = "app" => task.phase # "refreshing",
           Proceed(by, method, goal, next)
    PROVE  CallInv' /\ (Destroyed => call' = Idle)
<1>1. Home \in Realms /\ now \in Nat /\ tgt \in MaybeSession
  BY RealmAssumption DEF TypeOK
<1>2. CASE next = "have" /\ WithTgt(by, method, goal, tgt)
  <2>1. tgt \in Session /\ ~ Destroyed
    BY <1>1, <1>2 DEF Feasible, MaybeSession, Have, Destroyed
  <2> QED BY <1>1, <1>2, <2>1, WithTgtStep
<1>3. CASE next = "renew" /\ Await(by, method, "renew", Home, goal, tgt)
  <2>1. tgt \in Session /\ ~ Destroyed
    BY <1>1, <1>3 DEF Feasible, MaybeSession, Have, Destroyed
  <2> QED BY <1>1, <1>3, <2>1, AwaitStep DEF Kinds
<1>4. CASE next = "login" /\ Await(by, method, "login", Home, goal, NoSession)
  <2>1. NoSession \in MaybeSession /\ ~ Destroyed
    BY <1>4 DEF MaybeSession, Feasible, Destroyed
  <2> QED BY <1>1, <1>4, <2>1, AwaitStep DEF Kinds
<1>5. CASE next = "error" /\ Return(by, "error")
  BY <1>1, <1>5, ReturnStep
<1> QED BY <1>2, <1>3, <1>4, <1>5 DEF Proceed

LEMMA TgtForStep ==
    ASSUME TypeOK, CallInv, NEW by \in {"app", "task"}, NEW method \in Methods,
           NEW s \in Services,
           by = "app" => task.phase # "refreshing",
           TgtFor(by, method, s)
    PROVE  CallInv' /\ (Destroyed => call' = Idle)
<1> DEFINE cached == tgt_sessions[RealmOf[s]]
<1>1. RealmOf[s] \in Realms /\ s \in Goals /\ cached \in MaybeSession
  BY RealmAssumption DEF TypeOK, Goals
<1>2. Have(cached) => cached \in Session /\ ~ Destroyed
  BY <1>1 DEF Have, MaybeSession, Destroyed
<1>3. Valid(cached) \/ Renewable(cached) => Have(cached)
  BY DEF Valid, Renewable
<1> HIDE DEF cached
<1>4. CASE Valid(cached) /\ Await(by, method, "tgs", RealmOf[s], s, cached)
  BY <1>1, <1>2, <1>3, <1>4, AwaitStep DEF Kinds
<1>5. CASE /\ RealmOf[s] # Home /\ Renewable(cached)
           /\ Await(by, method, "renewCached", RealmOf[s], s, cached)
  BY <1>1, <1>2, <1>3, <1>5, AwaitStep DEF Kinds
<1>6. CASE Proceed(by, method, s, ensure_tgt_next)
  BY <1>1, <1>6, Decisions, ProceedStep
<1> QED BY <1>4, <1>5, <1>6 DEF TgtFor, cached

\* A free client is not held by the task.
LEMMA FreeClient ==
    ASSUME CallInv, Free
    PROVE  task.phase # "refreshing"
  BY DEF CallInv, CallWellFormed, TaskOwnsItsCall, Free

\* A call in progress has a caller, who holds the client.
LEMMA BusyClient ==
    ASSUME CallInv, call.kind # "idle"
    PROVE  /\ call.by \in {"app", "task"} /\ call.method \in Methods
           /\ call.goal \in Goals /\ call.realm \in Realms
           /\ call.by = "app" => task.phase # "refreshing"
  BY DEF CallInv, CallWellFormed, TaskOwnsItsCall, Calls

LEMMA InvParts == IInv <=> /\ TypeOK /\ CallInv /\ PrimaryMirrored
                           /\ (Destroyed => call = Idle)
  BY DEF IInv, CallInv, TypeOK

\* Assembling the invariant after a step.
LEMMA Assemble ==
    ASSUME now' \in Nat, creds' \in BOOLEAN, tgt' \in MaybeSession,
           tgt_sessions' \in [Realms -> MaybeSession],
           service_tickets' \in [Services -> MaybeSession],
           CallInv', PrimaryMirrored', (Destroyed => call = Idle)'
    PROVE  IInv'
  BY DEF IInv, CallInv, TypeOK

\* Steps that leave the caches and credentials alone.
LEMMA CallOnly ==
    ASSUME IInv, CallInv', Destroyed => call' = Idle, UNCHANGED <<now, creds, caches>>
    PROVE  IInv'
<1>1. /\ UNCHANGED <<now, creds, tgt, tgt_sessions, service_tickets>>
      /\ TypeOK /\ PrimaryMirrored
  BY DEF caches, IInv
<1>2. /\ now' \in Nat /\ creds' \in BOOLEAN /\ tgt' \in MaybeSession
      /\ tgt_sessions' \in [Realms -> MaybeSession]
      /\ service_tickets' \in [Services -> MaybeSession]
  BY <1>1 DEF TypeOK
<1>3. PrimaryMirrored'
  BY <1>1 DEF PrimaryMirrored
<1>4. Destroyed' => Destroyed
  BY <1>1 DEF Destroyed, Have
<1>5. (Destroyed => call = Idle)'
  BY <1>4 DEF Idle
<1> QED BY <1>2, <1>3, <1>5, Assemble

\* Each call of the application preserves the invariant.
LEMMA AppCallStep ==
    ASSUME IInv, AppCall
    PROVE  IInv'
<1>1. TypeOK /\ CallInv /\ NoGoal \in Goals /\ S4U \in Goals
  BY InvParts DEF Goals
<1>2. ASSUME NEW method \in Methods, NEW goal \in Goals, NEW next, Feasible(next),
             Free, Proceed("app", method, goal, next), UNCHANGED <<now, creds, caches>>
      PROVE  IInv'
  BY <1>1, <1>2, FreeClient, ProceedStep, CallOnly
<1> USE DEF Methods
<1>3. CASE affirm_login
  BY <1>1, <1>2, <1>3, Decisions DEF affirm_login
<1>4. CASE login
  BY <1>1, <1>2, <1>4, Decisions DEF login
<1>5. CASE refresh_tgt_if_needed
  BY <1>1, <1>2, <1>5, Decisions DEF refresh_tgt_if_needed
<1>6. CASE s4u
  BY <1>1, <1>2, <1>6, Decisions DEF s4u
<1>7. ASSUME NEW r \in Realms, renew_tgt_session_for_realm(r)
      PROVE  IInv'
  <2> DEFINE x == IF r = Home /\ Have(tgt) THEN tgt ELSE tgt_sessions[r]
  <2>1. x \in MaybeSession /\ now \in Nat
    BY <1>1 DEF TypeOK
  <2>2. Have(x) => x \in Session /\ ~ Destroyed
    BY <2>1 DEF Have, MaybeSession, Destroyed
  <2>3. /\ UNCHANGED <<now, creds, caches>> /\ Free
        /\ \/ Have(x) /\ Await("app", "renew_tgt", "renew", r, NoGoal, x)
           \/ ~ Have(x) /\ Return("app", "error")
    BY <1>7 DEF renew_tgt_session_for_realm
  <2> HIDE DEF x
  <2>4. CASE Have(x) /\ Await("app", "renew_tgt", "renew", r, NoGoal, x)
    BY <1>1, <2>1, <2>2, <2>3, <2>4, FreeClient, AwaitStep, CallOnly DEF Kinds
  <2>5. CASE Return("app", "error")
    BY <1>1, <2>1, <2>3, <2>5, FreeClient, ReturnStep, CallOnly
  <2> QED BY <2>3, <2>4, <2>5
<1>8. ASSUME NEW s \in Services, get_service_ticket(s)
      PROVE  IInv'
  <2> DEFINE x == service_tickets[s]
  <2>1. /\ x \in MaybeSession /\ now \in Nat
        /\ RealmOf[s] \in Realms /\ s \in Goals
    BY <1>1, RealmAssumption DEF TypeOK, Goals
  <2>2. Renewable(x) => x \in Session /\ ~ Destroyed
    BY <2>1 DEF Renewable, Have, MaybeSession, Destroyed
  <2>3. /\ UNCHANGED <<now, creds, caches>> /\ Free
        /\ \/ Return("app", "ok")
           \/ /\ Renewable(x)
              /\ Await("app", "get_service_ticket", "renewTicket", RealmOf[s], s, x)
           \/ TgtFor("app", "get_service_ticket", s)
    BY <1>8 DEF get_service_ticket
  <2> HIDE DEF x
  <2>4. CASE Return("app", "ok")
    BY <1>1, <2>1, <2>3, <2>4, FreeClient, ReturnStep, CallOnly
  <2>5. CASE /\ Renewable(x)
             /\ Await("app", "get_service_ticket", "renewTicket", RealmOf[s], s, x)
    BY <1>1, <2>1, <2>2, <2>3, <2>5, FreeClient, AwaitStep, CallOnly DEF Kinds
  <2>6. CASE TgtFor("app", "get_service_ticket", s)
    BY <1>1, <2>3, <2>6, FreeClient, TgtForStep, CallOnly
  <2> QED BY <2>3, <2>4, <2>5, <2>6
<1> QED BY <1>3, <1>4, <1>5, <1>6, <1>7, <1>8 DEF AppCall

\* CacheTicket keeps the ticket cache well typed.
LEMMA CacheTicketStep ==
    ASSUME TypeOK, NEW svc \in Services, NEW s \in Session, CacheTicket(svc, s)
    PROVE  /\ service_tickets' \in [Services -> MaybeSession]
           /\ service_tickets'[svc] \in Session
<1>1. preferred_session_at(service_tickets[svc], s, now) \in Session
  BY Preferred DEF TypeOK
<1> QED BY <1>1 DEF CacheTicket, TypeOK, MaybeSession

\* So does every reply of the KDC, whichever exchange it completes.
LEMMA ReplyStep ==
    ASSUME IInv, KdcReply
    PROVE  IInv'
<1>1. /\ TypeOK /\ CallInv /\ PrimaryMirrored /\ CallWellFormed
      /\ now' \in Nat /\ creds' \in BOOLEAN /\ now \in Nat /\ Home \in Realms
      /\ tgt \in MaybeSession /\ tgt_sessions \in [Realms -> MaybeSession]
      /\ service_tickets \in [Services -> MaybeSession]
  BY InvParts, RealmAssumption DEF KdcReply, TypeOK, IInv
<1>2. PICK t \in KdcTimes :
          \/ LoginReply(t) \/ RenewReply(t) \/ RenewCachedReply(t)
          \/ RenewTicketReply(t) \/ TgsReply(t) \/ S4UReply(t)
  BY DEF KdcReply
<1>3. t \in Nat
  BY <1>1, KdcClock
<1>4. call.kind # "idle"
  BY <1>2 DEF LoginReply, RenewReply, RenewCachedReply, RenewTicketReply,
              TgsReply, S4UReply
<1>5. /\ call.by \in {"app", "task"} /\ call.method \in Methods
      /\ call.goal \in Goals /\ call.realm \in Realms
      /\ call.by = "app" => task.phase # "refreshing"
  BY <1>1, <1>4, BusyClient
<1>6. NoTickets \in [Services -> MaybeSession] /\ NoTgts \in [Realms -> MaybeSession]
  BY DEF NoTickets, NoTgts, MaybeSession
<1>7. Session \subseteq MaybeSession
  BY DEF MaybeSession
<1>8. CASE LoginReply(t)
  <2> DEFINE cached == cache_tgt_session_at(NoTgts, tgt, Home, AsTicket(t))
  <2>1. /\ cached.tgt \in Session /\ cached.sessions \in [Realms -> MaybeSession]
        /\ cached.tgt = cached.sessions[Home]
    BY <1>1, <1>3, <1>6, KdcSessions, CacheTgt
  <2>2. /\ tgt' = cached.tgt /\ tgt_sessions' = cached.sessions
        /\ service_tickets' = NoTickets
        /\ WithTgt(call.by, call.method, call.goal, cached.tgt)
    BY <1>8 DEF LoginReply
  <2> HIDE DEF cached
  <2>3. CallInv'
    BY <1>1, <1>5, <2>1, <2>2, WithTgtStep
  <2>4. PrimaryMirrored' /\ ~ Destroyed'
    BY <2>1, <2>2, SessionIsSomething DEF PrimaryMirrored, Destroyed, Have
  <2> QED BY <1>1, <1>6, <1>7, <2>1, <2>2, <2>3, <2>4, Assemble
<1>9. CASE RenewReply(t)
  <2> DEFINE renewed == RenewedTicket(call.session, t)
  <2>1. renewed \in Session
    BY <1>1, <1>3, <1>9, KdcSessions DEF RenewReply, KdcRenews, CallWellFormed
  <2>2. /\ tgt_sessions' = [tgt_sessions EXCEPT ![call.realm] = renewed]
        /\ \/ call.realm = Home /\ tgt' = renewed /\ service_tickets' = NoTickets
           \/ call.realm # Home /\ UNCHANGED <<tgt, service_tickets>>
        /\ WithTgt(call.by, call.method, call.goal, renewed)
    BY <1>9 DEF RenewReply
  <2> HIDE DEF renewed
  <2>3. CallInv'
    BY <1>1, <1>5, <2>1, <2>2, WithTgtStep
  <2>4. /\ tgt_sessions' \in [Realms -> MaybeSession] /\ tgt' \in MaybeSession
        /\ service_tickets' \in [Services -> MaybeSession]
    BY <1>1, <1>6, <1>7, <2>1, <2>2
  <2>5. PrimaryMirrored'
    BY <1>1, <1>5, <2>2 DEF PrimaryMirrored
  <2>6. ~ Destroyed'
    BY <1>1, <1>5, <2>1, <2>2, SessionIsSomething DEF Destroyed, Have
  <2> QED BY <1>1, <2>3, <2>4, <2>5, <2>6, Assemble
<1>10. CASE RenewCachedReply(t)
  <2> DEFINE renewed == RenewedTicket(call.session, t)
  <2>1. renewed \in Session /\ call.realm # Home /\ call.goal \in Services
    BY <1>1, <1>3, <1>10, KdcSessions DEF RenewCachedReply, KdcRenews, CallWellFormed
  <2>2. /\ tgt_sessions' = [tgt_sessions EXCEPT ![call.realm] = renewed]
        /\ UNCHANGED <<tgt, service_tickets>>
        /\ Await(call.by, call.method, "tgs", call.realm, call.goal, renewed)
    BY <1>10 DEF RenewCachedReply
  <2> HIDE DEF renewed
  <2>3. CallInv'
    BY <1>1, <1>5, <1>7, <2>1, <2>2, AwaitStep DEF Kinds
  <2>4. /\ tgt_sessions' \in [Realms -> MaybeSession] /\ tgt' \in MaybeSession
        /\ service_tickets' \in [Services -> MaybeSession]
    BY <1>1, <1>7, <2>1, <2>2
  <2>5. PrimaryMirrored'
    BY <1>1, <1>5, <2>1, <2>2 DEF PrimaryMirrored
  <2>6. ~ Destroyed'
    BY <1>1, <1>5, <2>1, <2>2, SessionIsSomething DEF Destroyed, Have
  <2> QED BY <1>1, <2>3, <2>4, <2>5, <2>6, Assemble
<1>11. CASE RenewTicketReply(t)
  <2>1. RenewedTicket(call.session, t) \in Session /\ call.goal \in Services
    BY <1>1, <1>3, <1>11, KdcSessions DEF RenewTicketReply, KdcRenews, CallWellFormed
  <2>2. /\ CacheTicket(call.goal, RenewedTicket(call.session, t))
        /\ Return(call.by, "ok") /\ UNCHANGED <<tgt, tgt_sessions>>
    BY <1>11 DEF RenewTicketReply
  <2>3. CallInv' /\ call' = Idle
    BY <1>1, <1>5, <2>2, ReturnStep
  <2>4. service_tickets' \in [Services -> MaybeSession]
    BY <1>1, <2>1, <2>2, CacheTicketStep
  <2>5. PrimaryMirrored' /\ Idle' = Idle
    BY <1>1, <2>2 DEF PrimaryMirrored, Idle
  <2> QED BY <1>1, <2>2, <2>3, <2>4, <2>5, Assemble
<1>12. CASE TgsReply(t)
  <2> DEFINE realm == RealmOf[call.goal]
             ticket == TgsTicket(call.session, t)
             cached == cache_tgt_session_at(tgt_sessions, tgt, realm, ticket)
  <2>1. ticket \in Session /\ call.goal \in Services /\ realm \in Realms
    BY <1>1, <1>3, <1>12, KdcSessions, RealmAssumption DEF TgsReply, CallWellFormed
  <2>2. /\ \/ UNCHANGED <<tgt, tgt_sessions>>
           \/ tgt' = cached.tgt /\ tgt_sessions' = cached.sessions
        /\ CacheTicket(call.goal, ticket) /\ Return(call.by, "ok")
    BY <1>12 DEF TgsReply
  <2> HIDE DEF realm, ticket
  <2>3. /\ cached.tgt \in MaybeSession /\ cached.sessions \in [Realms -> MaybeSession]
        /\ cached.tgt = cached.sessions[Home]
    BY <1>1, <2>1, CacheTgt DEF PrimaryMirrored
  <2> HIDE DEF cached
  <2>4. CallInv' /\ call' = Idle /\ Idle' = Idle
    BY <1>1, <1>5, <2>2, ReturnStep DEF Idle
  <2>5. service_tickets' \in [Services -> MaybeSession]
    BY <1>1, <2>1, <2>2, CacheTicketStep
  <2>6. /\ tgt' \in MaybeSession /\ tgt_sessions' \in [Realms -> MaybeSession]
        /\ PrimaryMirrored'
    BY <1>1, <2>2, <2>3 DEF PrimaryMirrored
  <2> QED BY <1>1, <2>4, <2>5, <2>6, Assemble
<1>13. CASE S4UReply(t)
  <2>1. Return(call.by, "ok") /\ UNCHANGED <<tgt, tgt_sessions, service_tickets>>
    BY <1>13 DEF S4UReply, caches
  <2>2. CallInv' /\ call' = Idle /\ Idle' = Idle
    BY <1>1, <1>5, <2>1, ReturnStep DEF Idle
  <2>3. PrimaryMirrored'
    BY <1>1, <2>1 DEF PrimaryMirrored
  <2> QED BY <1>1, <2>1, <2>2, <2>3, Assemble
<1> QED BY <1>2, <1>8, <1>9, <1>10, <1>11, <1>12, <1>13

\* A failed exchange ends the call or falls back.
LEMMA FailureStep ==
    ASSUME IInv, KdcFailure
    PROVE  IInv'
<1>1. /\ TypeOK /\ CallInv /\ CallWellFormed /\ now \in Nat
      /\ UNCHANGED <<now, creds, caches>>
  BY InvParts DEF KdcFailure, TypeOK, IInv
<1>2. call.kind # "idle"
  BY DEF KdcFailure
<1>3. /\ call.by \in {"app", "task"} /\ call.method \in Methods
      /\ call.goal \in Goals
      /\ call.by = "app" => task.phase # "refreshing"
  BY <1>1, <1>2, BusyClient
<1>4. CASE Return(call.by, "error")
  BY <1>1, <1>3, <1>4, ReturnStep, CallOnly
<1>5. CASE call.kind = "renewTicket" /\ TgtFor(call.by, call.method, call.goal)
  <2>1. call.goal \in Services
    BY <1>1, <1>5 DEF CallWellFormed
  <2> QED BY <1>1, <1>3, <1>5, <2>1, TgtForStep, CallOnly
<1>6. CASE Proceed(call.by, call.method, call.goal, ensure_tgt_next)
  BY <1>1, <1>3, <1>6, Decisions, ProceedStep, CallOnly
<1> QED BY <1>4, <1>5, <1>6 DEF KdcFailure

\* A free client's caches may change in any way that keeps types and mirror.
LEMMA CachesOnly ==
    ASSUME IInv, Free, UNCHANGED <<now, call, task>>,
           creds' \in BOOLEAN, tgt' \in MaybeSession,
           tgt_sessions' \in [Realms -> MaybeSession],
           service_tickets' \in [Services -> MaybeSession], PrimaryMirrored'
    PROVE  IInv'
<1>1. call' = Idle /\ Idle' = Idle
  BY DEF Free, Idle
<1>2. CallInv' /\ now' \in Nat
  BY <1>1, InvParts DEF CallInv, CallWellFormed, TaskOwnsItsCall, TypeOK
<1> QED BY <1>1, <1>2, Assemble

\* The sessions of other processes.
LEMMA OtherTyped == OtherSessions \subseteq Session
<1> SUFFICES ASSUME NEW l \in OtherLogins,
                    NEW s, s = [AsTicket(l[1]) EXCEPT !.renew = IF l[2] THEN @ ELSE NoRenew]
             PROVE  s \in Session
  BY DEF OtherSessions
<1>1. l[1] \in Nat
  BY LifeAssumption
<1>2. AsTicket(l[1]) \in Session
  BY <1>1, KdcSessions
<1> QED BY <1>2 DEF Session

\* Methods that do not wait.
LEMMA LocalStep ==
    ASSUME IInv, AppInsert \/ AppRemove \/ prune_unusable_sessions
    PROVE  IInv'
<1>1. /\ now \in Nat /\ creds \in BOOLEAN /\ tgt \in MaybeSession
      /\ tgt_sessions \in [Realms -> MaybeSession] /\ TypeOK
      /\ service_tickets \in [Services -> MaybeSession]
      /\ tgt = tgt_sessions[Home] /\ Home \in Realms
  BY RealmAssumption DEF IInv, TypeOK, PrimaryMirrored
<1>2. NoSession \in MaybeSession /\ Session \subseteq MaybeSession
  BY DEF MaybeSession
<1>3. NoTickets \in [Services -> MaybeSession] /\ NoTgts \in [Realms -> MaybeSession]
  BY <1>2 DEF NoTickets, NoTgts
<1>4. OtherSessions \subseteq Session
  BY OtherTyped
<1>5. ASSUME NEW r \in Realms, NEW s \in OtherSessions, cache_tgt_session(r, s)
      PROVE  IInv'
  <2> DEFINE cached == cache_tgt_session_at(tgt_sessions, tgt, r, s)
  <2>1. /\ cached.tgt \in MaybeSession /\ cached.sessions \in [Realms -> MaybeSession]
        /\ cached.tgt = cached.sessions[Home]
    BY <1>1, <1>4, <1>5, CacheTgt
  <2>2. /\ tgt' = cached.tgt /\ tgt_sessions' = cached.sessions /\ Free
        /\ UNCHANGED <<now, creds, service_tickets, call, task>>
    BY <1>5 DEF cache_tgt_session
  <2> HIDE DEF cached
  <2> QED BY <1>1, <2>1, <2>2, CachesOnly DEF PrimaryMirrored
<1>6. ASSUME NEW svc \in Services, NEW s \in OtherSessions, cache_service_ticket(svc, s)
      PROVE  IInv'
  <2>1. service_tickets' \in [Services -> MaybeSession]
    BY <1>1, <1>4, <1>6, CacheTicketStep DEF cache_service_ticket
  <2> QED BY <1>1, <1>6, <2>1, CachesOnly DEF cache_service_ticket, PrimaryMirrored
<1>7. ASSUME NEW r \in Realms, remove_tgt_session_for_realm(r)
      PROVE  IInv'
  BY <1>1, <1>2, <1>7, CachesOnly DEF remove_tgt_session_for_realm, PrimaryMirrored
<1>8. ASSUME NEW svc \in Services, remove_cached_service_ticket(svc)
      PROVE  IInv'
  BY <1>1, <1>2, <1>8, CachesOnly DEF remove_cached_service_ticket, PrimaryMirrored
<1>9. CASE clear_service_ticket_cache
  BY <1>1, <1>3, <1>9, CachesOnly DEF clear_service_ticket_cache, PrimaryMirrored
<1>10. CASE destroy
  <2>1. tgt' = NoSession /\ tgt_sessions' = NoTgts /\ NoTgts[Home] = NoSession
    BY <1>1, <1>10 DEF destroy, NoTgts
  <2> QED BY <1>2, <1>3, <1>10, <2>1, CachesOnly DEF destroy, PrimaryMirrored
<1>11. CASE prune_unusable_sessions
  <2>1. \A s \in MaybeSession : Kept(s) \in MaybeSession
    BY <1>2 DEF Kept
  <2>2. /\ tgt' = Kept(tgt) /\ tgt_sessions' = [r \in Realms |-> Kept(tgt_sessions[r])]
        /\ service_tickets' = [s \in Services |-> Kept(service_tickets[s])]
        /\ Free /\ UNCHANGED <<now, creds, call, task>>
    BY <1>11 DEF prune_unusable_sessions
  <2>3. /\ tgt' \in MaybeSession /\ tgt_sessions' \in [Realms -> MaybeSession]
        /\ service_tickets' \in [Services -> MaybeSession]
    BY <1>1, <2>1, <2>2
  <2>4. PrimaryMirrored'
    BY <1>1, <2>2 DEF PrimaryMirrored
  <2> QED BY <1>1, <2>2, <2>3, <2>4, CachesOnly
<1> QED BY <1>5, <1>6, <1>7, <1>8, <1>9, <1>10, <1>11 DEF AppInsert, AppRemove

\* The renewal task.
LEMMA TaskStep ==
    ASSUME IInv, Task \/ spawn_auto_renewal
    PROVE  IInv'
<1>1. /\ TypeOK /\ CallInv /\ (Destroyed => call = Idle) /\ NoGoal \in Goals
      /\ task \in [phase : Phases, wake : Int] /\ TaskOwnsItsCall /\ CallWellFormed
  BY InvParts DEF IInv, TypeOK, Goals
<1>2. ASSUME UNCHANGED <<now, creds, caches, call>>, task.phase # "refreshing",
             task' \in [phase : Phases, wake : Int], task'.phase # "refreshing"
      PROVE  IInv'
  <2>1. CallInv'
    BY <1>1, <1>2 DEF CallInv, CallWellFormed, TaskOwnsItsCall, Idle
  <2> QED BY <1>1, <1>2, <2>1, CallOnly
<1>3. CASE spawn_auto_renewal
  <2>1. task' = [phase |-> "plan", wake |-> 0] /\ task.phase = "none"
        /\ UNCHANGED <<now, creds, caches, call>>
    BY <1>3 DEF spawn_auto_renewal
  <2>2. task' \in [phase : Phases, wake : Int] /\ task'.phase # "refreshing"
    BY <2>1 DEF Phases
  <2> QED BY <1>2, <2>1, <2>2
<1>4. CASE TaskPlan
  <2>1. Have(tgt) => RefreshAt(tgt) \in Int
    BY <1>1 DEF TypeOK, MaybeSession, Have, Session, RefreshAt, SESSION_REFRESH_DIVISOR
  <2>2. /\ task.phase = "plan" /\ UNCHANGED <<now, creds, caches, call>>
        /\ \/ task' = [phase |-> "sleep", wake |-> RefreshAt(tgt)] /\ Have(tgt)
           \/ task' = [phase |-> "ready", wake |-> 0]
    BY <1>4 DEF TaskPlan
  <2>3. task' \in [phase : Phases, wake : Int] /\ task'.phase # "refreshing"
    BY <2>1, <2>2 DEF Phases
  <2> QED BY <1>2, <2>2, <2>3
<1>5. CASE TaskWake
  <2>1. /\ task.phase \in {"sleep", "retry"} /\ UNCHANGED <<now, creds, caches, call>>
        /\ \/ task' = [phase |-> "ready", wake |-> 0]
           \/ task' = [phase |-> "plan", wake |-> 0]
    BY <1>5 DEF TaskWake
  <2>2. task' \in [phase : Phases, wake : Int] /\ task'.phase # "refreshing"
    BY <2>1 DEF Phases
  <2> QED BY <1>2, <2>1, <2>2
<1>6. CASE TaskRefresh
  <2>1. task.phase = "ready" /\ Free /\ UNCHANGED <<now, creds, caches>>
    BY <1>6 DEF TaskRefresh
  <2>2. CASE task' = [phase |-> "done", wake |-> 0] /\ UNCHANGED call
    BY <1>2, <2>1, <2>2 DEF Phases
  <2>3. CASE Proceed("task", "refresh_tgt_if_needed", NoGoal, ensure_tgt_next)
    BY <1>1, <2>1, <2>3, Decisions, ProceedStep, CallOnly DEF Methods
  <2> QED BY <1>6, <2>2, <2>3 DEF TaskRefresh
<1> QED BY <1>3, <1>4, <1>5, <1>6 DEF Task

\* Dropped calls, an aborted task and the clock.
LEMMA EnvironmentStep ==
    ASSUME IInv, CancelCall \/ abort \/ Tick
    PROVE  IInv'
<1>1. /\ TypeOK /\ CallInv /\ PrimaryMirrored /\ (Destroyed => call = Idle)
      /\ task \in [phase : Phases, wake : Int] /\ call \in Calls
      /\ TaskOwnsItsCall /\ CallWellFormed
  BY InvParts DEF IInv, TypeOK
<1>2. Idle \in Calls /\ Idle.by = "none" /\ Idle.kind = "idle" /\ Idle' = Idle
  BY LifeAssumption, RealmAssumption
     DEF Idle, Calls, Methods, Kinds, Goals, MaybeSession
<1>3. CASE CancelCall
  <2>1. call' = Idle /\ call.by = "app" /\ UNCHANGED <<now, creds, caches, task>>
    BY <1>3 DEF CancelCall
  <2>2. CallInv'
    BY <1>1, <1>2, <2>1 DEF CallInv, CallWellFormed, TaskOwnsItsCall
  <2> QED BY <2>1, <2>2, CallOnly
<1>4. CASE abort
  <2>1. /\ task' = [phase |-> "aborted", wake |-> 0]
        /\ call' = IF call.by = "task" THEN Idle ELSE call
        /\ UNCHANGED <<now, creds, caches>>
    BY <1>4 DEF abort
  <2>2. task' \in [phase : Phases, wake : Int] /\ task'.phase # "refreshing"
    BY <2>1 DEF Phases
  <2>3. CallInv'
    BY <1>1, <1>2, <2>1, <2>2 DEF CallInv, CallWellFormed, TaskOwnsItsCall
  <2> QED BY <1>1, <2>1, <2>3, CallOnly
<1>5. CASE Tick
  <2>1. /\ now' \in Nat /\ UNCHANGED <<creds, caches, task>>
        /\ UNCHANGED <<tgt, tgt_sessions, service_tickets>>
        /\ \/ call' = call
           \/ /\ ~ Free /\ call.waited # MaxExchange
              /\ call' = [call EXCEPT !.waited = @ + 1]
    BY <1>1, <1>5, LifeAssumption DEF Tick, Later, caches, TypeOK
  <2>2. CASE call' = call
    <3>1. CallInv'
      BY <1>1, <1>2, <2>1, <2>2 DEF CallInv, CallWellFormed, TaskOwnsItsCall
    <3>2. (Destroyed => call = Idle)' /\ PrimaryMirrored'
      BY <1>1, <1>2, <2>1, <2>2 DEF Destroyed, Have, PrimaryMirrored
    <3>3. /\ now' \in Nat /\ creds' \in BOOLEAN /\ tgt' \in MaybeSession
          /\ tgt_sessions' \in [Realms -> MaybeSession]
          /\ service_tickets' \in [Services -> MaybeSession]
      BY <1>1, <2>1 DEF TypeOK
    <3> QED BY <3>1, <3>2, <3>3, Assemble
  <2>3. CASE /\ ~ Free /\ call.waited # MaxExchange
             /\ call' = [call EXCEPT !.waited = @ + 1]
    <3>1. call.waited + 1 \in 0 .. MaxExchange
      BY <1>1, <2>3, LifeAssumption DEF Calls
    <3>2. call' \in Calls
      BY <1>1, <2>3, <3>1 DEF Calls
    <3>3. /\ call'.by = call.by /\ call'.kind = call.kind /\ call'.realm = call.realm
          /\ call'.goal = call.goal /\ call'.session = call.session
      BY <1>1, <2>3 DEF Calls
    <3>4. call # Idle /\ call.by # "none"
      BY <1>1, <2>3 DEF Free, CallWellFormed
    <3>5. call' # Idle
      BY <1>2, <3>3, <3>4
    <3>6. CallWellFormed' /\ TaskOwnsItsCall'
      BY <1>1, <1>2, <2>1, <3>3, <3>4, <3>5 DEF CallWellFormed, TaskOwnsItsCall
    <3>7. CallInv'
      BY <1>1, <2>1, <3>2, <3>6 DEF CallInv
    <3>8. ~ Destroyed' /\ PrimaryMirrored'
      BY <1>1, <2>1, <3>4 DEF Destroyed, Have, PrimaryMirrored
    <3>9. /\ now' \in Nat /\ creds' \in BOOLEAN /\ tgt' \in MaybeSession
          /\ tgt_sessions' \in [Realms -> MaybeSession]
          /\ service_tickets' \in [Services -> MaybeSession]
      BY <1>1, <2>1 DEF TypeOK
    <3> QED BY <3>7, <3>8, <3>9, Assemble
  <2> QED BY <2>1, <2>2, <2>3
<1> QED BY <1>3, <1>4, <1>5

\* The invariant holds initially and is inductive.
LEMMA InitIInv == Init => IInv
<1> SUFFICES ASSUME Init PROVE IInv
  OBVIOUS
<1> USE DEF Init, InitWith
<1>1. /\ tgt = NoSession /\ tgt_sessions = NoTgts /\ service_tickets = NoTickets
      /\ call = Idle /\ task = [phase |-> "none", wake |-> 0] /\ now = 0
      /\ creds \in BOOLEAN
  OBVIOUS
<1>2. /\ Idle \in Calls /\ Idle.by = "none" /\ Idle.kind = "idle"
      /\ NoSession \in MaybeSession /\ Home \in Realms
  BY LifeAssumption, RealmAssumption
     DEF Idle, Calls, Methods, Kinds, Goals, MaybeSession
<1>3. TypeOK
  BY <1>1, <1>2 DEF TypeOK, NoTgts, NoTickets, Phases
<1>4. PrimaryMirrored
  BY <1>1, <1>2 DEF PrimaryMirrored, NoTgts
<1>5. CallWellFormed /\ TaskOwnsItsCall
  BY <1>1, <1>2 DEF CallWellFormed, TaskOwnsItsCall
<1> QED BY <1>1, <1>3, <1>4, <1>5 DEF IInv

LEMMA StepIInv == IInv /\ [Next]_vars => IInv'
<1> SUFFICES ASSUME IInv, [Next]_vars PROVE IInv'
  OBVIOUS
<1>1. CASE UNCHANGED vars
  <2>1. CallInv'
    BY <1>1, InvParts DEF vars, CallInv, CallWellFormed, TaskOwnsItsCall, Idle
  <2> QED BY <1>1, <2>1, InvParts, CallOnly DEF vars, caches
<1> QED BY <1>1, AppCallStep, LocalStep, ReplyStep, FailureStep, TaskStep,
           EnvironmentStep DEF Next

\* Every reachable state of the client satisfies the invariant.
THEOREM Invariance == Spec => []IInv
<1> QED BY InitIInv, StepIInv, PTL DEF Spec

\* TokioClient.tgt and its entry of tgt_sessions never differ: no operation,
\* failed exchange or dropped future separates them.
THEOREM MirrorHolds == Spec => []PrimaryMirrored
<1>1. IInv => PrimaryMirrored
  BY DEF IInv
<1> QED BY <1>1, Invariance, PTL

\* The client is locked by the renewal task exactly while it refreshes, so an
\* aborted task leaves the client usable.
THEOREM LockFollowsTask == Spec => []TaskOwnsItsCall
<1>1. IInv => TaskOwnsItsCall
  BY DEF IInv
<1> QED BY <1>1, Invariance, PTL

\* From an empty client no step but an insertion leads to an exchange.
LEMMA DestroyedStep ==
    IInv /\ [Next]_vars
        => [Destroyed /\ ~ AppInsert => call' = Idle /\ Destroyed']_vars
<1> SUFFICES ASSUME IInv, Next, Destroyed, ~ AppInsert
             PROVE  call' = Idle /\ Destroyed'
  BY DEF vars
<1>1. /\ call = Idle /\ ~ creds /\ tgt = NoSession
      /\ \A r \in Realms : tgt_sessions[r] = NoSession
      /\ \A s \in Services : service_tickets[s] = NoSession
  BY DEF IInv, Destroyed, Have
<1>2. IInv'
  BY StepIInv
<1>3. call.kind = "idle" /\ call.by = "none"
  BY <1>1 DEF Idle
<1>4. ASSUME UNCHANGED <<creds, caches>> PROVE Destroyed'
  BY <1>1, <1>4 DEF Destroyed, Have, caches
<1>5. ASSUME Destroyed' PROVE call' = Idle
  BY <1>2, <1>5 DEF IInv, Idle
<1>6. CASE AppCall
  <2>1. UNCHANGED <<creds, caches>>
    BY <1>6 DEF AppCall, affirm_login, login, refresh_tgt_if_needed, s4u,
                renew_tgt_session_for_realm, get_service_ticket
  <2> QED BY <1>4, <1>5, <2>1
<1>7. CASE AppRemove
  <2>1. Destroyed'
    BY <1>1, <1>7 DEF AppRemove, remove_tgt_session_for_realm,
         remove_cached_service_ticket, clear_service_ticket_cache, destroy,
         Destroyed, Have, NoTgts, NoTickets, IInv, TypeOK
  <2> QED BY <1>5, <2>1
<1>8. CASE prune_unusable_sessions
  <2>1. Destroyed'
    BY <1>1, <1>8 DEF prune_unusable_sessions, Destroyed, Have, Kept
  <2> QED BY <1>5, <2>1
<1>9. CASE KdcReply \/ KdcFailure \/ CancelCall
  BY <1>3, <1>9 DEF KdcReply, LoginReply, RenewReply, RenewCachedReply,
       RenewTicketReply, TgsReply, S4UReply, KdcFailure, CancelCall
<1>10. CASE spawn_auto_renewal \/ Task \/ abort \/ Tick
  <2>1. UNCHANGED <<creds, caches>>
    BY <1>10 DEF spawn_auto_renewal, Task, TaskPlan, TaskWake, TaskRefresh,
                 abort, Tick
  <2> QED BY <1>4, <1>5, <2>1
<1> QED BY <1>6, <1>7, <1>8, <1>9, <1>10 DEF Next

\* After destroy no call, task or late reply brings a session back.
THEOREM DestructionIsFinal == Spec => DestroyIsFinal
<1> QED BY Invariance, DestroyedStep, PTL DEF Spec, DestroyIsFinal

-----------------------------------------------------------------------------
(* How long sessions last.                                                  *)

\* Sessions as the KDC limits them: no longer than its lifetime after their
\* start, nor than they can be renewed, and renewed only when they can be.
Lasting == {s \in MaybeSession :
              Have(s) => /\ s.auth <= s.start /\ s.start < s.end
                         /\ s.end <= s.start + Life
                         /\ s.renew # NoRenew => s.end <= s.renew
                         /\ s.renew = NoRenew => s.end <= s.auth + Life}

\* All sessions are such, and a renewal of the primary TGT in progress still
\* holds the primary TGT; only renew_tgt renews the TGT of another realm so.
LastingInv ==
    /\ tgt \in Lasting
    /\ tgt_sessions \in [Realms -> Lasting]
    /\ service_tickets \in [Services -> Lasting]
    /\ call.session \in Lasting
    /\ call.kind = "renew" /\ call.realm = Home => call.session = tgt
    /\ call.kind = "renew" => call.realm = Home \/ call.goal = NoGoal

\* The primary TGT comes from a KDC whose clock is no further ahead than that.
StartedInv == Have(tgt) => tgt.start <= now + KdcAhead

LEMMA NoSessionLasts == NoSession \in Lasting
  BY DEF Lasting, MaybeSession, Have

\* What the KDC issues lasts no longer than it allows.
LEMMA KdcLasting ==
    ASSUME NEW t \in Nat
    PROVE  /\ AsTicket(t) \in Lasting
           /\ \A s \in Session \cap Lasting :
                 KdcHonours(s, t) => TgsTicket(s, t) \in Lasting
           /\ \A s \in Session \cap Lasting :
                 KdcRenews(s, t) => RenewedTicket(s, t) \in Lasting
<1> USE LifeAssumption
<1>1. AsTicket(t) \in Lasting
  <2>1. AsTicket(t) \in MaybeSession
    BY KdcSessions DEF MaybeSession
  <2> QED BY <2>1, RenewAssumption DEF AsTicket, Lasting
<1>2. ASSUME NEW s \in Session \cap Lasting, KdcHonours(s, t)
      PROVE  TgsTicket(s, t) \in Lasting
  <2>1. TgsTicket(s, t) \in MaybeSession
    BY KdcSessions DEF MaybeSession
  <2>2. /\ s.auth <= s.start /\ s.end <= s.start + Life
        /\ s.renew # NoRenew => s.end <= s.renew
        /\ s.renew = NoRenew => s.end <= s.auth + Life
    BY SessionIsSomething DEF Lasting
  <2>3. /\ TgsTicket(s, t).start = t /\ TgsTicket(s, t).renew = s.renew
        /\ TgsTicket(s, t).auth = s.auth
        /\ TgsTicket(s, t).end = KdcMin(t + Life, s.end)
        /\ s.end \in Nat /\ s.start \in Nat /\ s.auth \in Nat
        /\ s.renew \in Nat \cup {NoRenew}
    BY DEF TgsTicket, Session
  <2>4. TgsTicket(s, t).end <= t + Life /\ TgsTicket(s, t).end <= s.end
    BY <2>3 DEF KdcMin
  <2>5. s.start <= t /\ t < TgsTicket(s, t).end
    BY <1>2, <2>3 DEF KdcHonours, KdcMin
  <2> QED BY <2>1, <2>2, <2>3, <2>4, <2>5 DEF Lasting, NoRenew, KdcMin
<1>3. ASSUME NEW s \in Session \cap Lasting, KdcRenews(s, t)
      PROVE  RenewedTicket(s, t) \in Lasting
  <2>1. RenewedTicket(s, t) \in MaybeSession
    BY <1>3, KdcSessions DEF MaybeSession, KdcRenews
  <2>2. /\ RenewedTicket(s, t).start = t /\ RenewedTicket(s, t).renew = s.renew
        /\ RenewedTicket(s, t).auth = s.auth
        /\ RenewedTicket(s, t).end = KdcMin(t + Life, s.renew)
        /\ s.renew \in Nat /\ s.start \in Nat /\ s.auth \in Nat
        /\ s.start <= t /\ t < s.renew
    BY <1>3 DEF RenewedTicket, Session, KdcRenews, KdcHonours
  <2>3. s.auth <= s.start
    BY SessionIsSomething DEF Lasting
  <2>4. /\ t < RenewedTicket(s, t).end /\ RenewedTicket(s, t).end <= t + Life
        /\ RenewedTicket(s, t).end <= s.renew /\ s.renew # NoRenew
    BY <2>2 DEF KdcMin, NoRenew
  <2> QED BY <2>1, <2>2, <2>3, <2>4 DEF Lasting
<1> QED BY <1>1, <1>2, <1>3

\* Caching a TGT keeps lasting sessions, and a valid primary TGT gives way
\* only to one that lasts longer.
LEMMA CacheLasting ==
    ASSUME NEW T \in [Realms -> Lasting], NEW P \in Lasting, now \in Nat,
           NEW realm \in Realms, NEW s \in Session \cap Lasting
    PROVE  LET cached == cache_tgt_session_at(T, P, realm, s) IN
           /\ cached.tgt \in Lasting
           /\ cached.sessions \in [Realms -> Lasting]
           /\ Valid(P) => cached.tgt.end >= P.end
<1> DEFINE selected == preferred_session_at(T[realm], s, now)
           mirrored == preferred_session_at(P, selected, now)
<1>1. Lasting \subseteq MaybeSession /\ Home \in Realms
  BY RealmAssumption DEF Lasting
<1>2. selected \in Session \cap Lasting
  BY <1>1, Preferred
<1> HIDE DEF selected
<1>3. mirrored \in Session \cap Lasting
  BY <1>1, <1>2, Preferred
<1>4. Valid(P) => P \in Session
  BY <1>1 DEF Valid, Have, MaybeSession
<1>5. Valid(P) => mirrored.end >= P.end
  <2> SUFFICES ASSUME Valid(P) PROVE mirrored.end >= P.end
    OBVIOUS
  <2>1. /\ P.end \in Nat /\ selected.end \in Nat /\ selected.start \in Nat
        /\ P.start <= now /\ now < P.end /\ P # NoSession
    BY <1>2, <1>4 DEF Session, Valid, Have, session_valid_at
  <2> QED BY <2>1 DEF preferred_session_at, prefer_current_session_at, session_valid_at
<1> HIDE DEF mirrored
<1>6. CASE realm = Home
  <2>1. cache_tgt_session_at(T, P, realm, s)
          = [tgt |-> mirrored, sessions |-> [T EXCEPT ![Home] = mirrored]]
    BY <1>6 DEF cache_tgt_session_at, selected, mirrored
  <2> QED BY <1>1, <1>3, <1>5, <2>1
<1>7. CASE realm # Home
  <2>1. cache_tgt_session_at(T, P, realm, s)
          = [tgt |-> P, sessions |-> [T EXCEPT ![realm] = selected]]
    BY <1>7 DEF cache_tgt_session_at, selected
  <2>2. Valid(P) => P.end \in Nat
    BY <1>4 DEF Session
  <2> QED BY <1>2, <2>1, <2>2
<1> QED BY <1>6, <1>7

\* The TGT that a step begins a TGS exchange with is the one held for the realm
\* and has not lapsed, nor is it ahead unless a KDC has just been.
StartsValid ==
    call'.kind \in {"tgs", "s4u"}
       => /\ call'.session = tgt_sessions'[call'.realm]
          /\ now < call'.session.end
          /\ \/ call'.session.start <= now
             \/ /\ call.kind \in {"login", "renew", "renewCached"}
                /\ call'.session.start <= now + KdcAhead

\* A step that leaves the caches alone and starts nothing new.
LEMMA IdleLasting ==
    ASSUME LastingInv, UNCHANGED caches, call' = Idle
    PROVE  LastingInv' /\ StartsValid
<1>1. call'.session = NoSession /\ call'.kind = "idle"
  BY DEF Idle
<1> QED BY <1>1, NoSessionLasts DEF LastingInv, caches, Lasting, Have, StartsValid

\* A step that leaves the caches alone and waits for an exchange.
LEMMA AwaitLasting ==
    ASSUME LastingInv, UNCHANGED caches, NEW by, NEW method, NEW kind, NEW realm, NEW goal,
           NEW session \in Lasting, Await(by, method, kind, realm, goal, session),
           kind = "renew" /\ realm = Home => session = tgt,
           kind = "renew" => realm = Home \/ goal = NoGoal,
           kind \in {"tgs", "s4u"} => Valid(session) /\ session = tgt_sessions[realm]
    PROVE  LastingInv' /\ StartsValid
<1>1. /\ call'.session = session /\ call'.kind = kind /\ call'.realm = realm
      /\ call'.goal = goal
  BY DEF Await
<1> QED BY <1>1 DEF LastingInv, caches, Lasting, Have, StartsValid, Valid, session_valid_at

LEMMA ProceedLasting ==
    ASSUME LastingInv, PrimaryMirrored, UNCHANGED caches, NEW by, NEW method, NEW goal,
           NEW next \in {login_next, affirm_login_next, ensure_tgt_next},
           Proceed(by, method, goal, next)
    PROVE  LastingInv' /\ StartsValid
<1>1. next = "have" => Valid(tgt)
  BY DEF login_next, affirm_login_next, ensure_tgt_next
<1>2. tgt \in Lasting /\ NoSession \in Lasting /\ tgt = tgt_sessions[Home]
  BY NoSessionLasts DEF LastingInv, PrimaryMirrored
<1>3. CASE Return(by, "ok") \/ Return(by, "error")
  BY <1>3, IdleLasting DEF Return
<1>4. CASE next = "have" /\ Await(by, method, "s4u", Home, goal, tgt)
  BY <1>1, <1>2, <1>4, AwaitLasting
<1>5. CASE next = "have" /\ Await(by, method, "tgs", Home, goal, tgt)
  BY <1>1, <1>2, <1>5, AwaitLasting
<1>6. CASE Await(by, method, "renew", Home, goal, tgt)
  BY <1>2, <1>6, AwaitLasting
<1>7. CASE Await(by, method, "login", Home, goal, NoSession)
  BY <1>2, <1>7, AwaitLasting
<1> QED BY <1>3, <1>4, <1>5, <1>6, <1>7 DEF Proceed, WithTgt

LEMMA TgtForLasting ==
    ASSUME LastingInv, PrimaryMirrored, UNCHANGED caches, NEW by, NEW method,
           NEW s \in Services, TgtFor(by, method, s)
    PROVE  LastingInv' /\ StartsValid
<1> DEFINE cached == tgt_sessions[RealmOf[s]]
<1>1. cached \in Lasting /\ cached = tgt_sessions[RealmOf[s]]
  BY RealmAssumption DEF LastingInv
<1> HIDE DEF cached
<1>2. CASE Valid(cached) /\ Await(by, method, "tgs", RealmOf[s], s, cached)
  BY <1>1, <1>2, AwaitLasting
<1>3. CASE Await(by, method, "renewCached", RealmOf[s], s, cached)
  BY <1>1, <1>3, AwaitLasting
<1>4. CASE Proceed(by, method, s, ensure_tgt_next)
  BY <1>4, ProceedLasting
<1> QED BY <1>2, <1>3, <1>4 DEF TgtFor, cached

LEMMA AppCallLasting ==
    ASSUME IInv, LastingInv, AppCall
    PROVE  LastingInv' /\ StartsValid /\ UNCHANGED caches
<1> USE DEF IInv
<1>1. CASE affirm_login \/ login \/ refresh_tgt_if_needed \/ s4u
  BY <1>1, ProceedLasting DEF affirm_login, login, refresh_tgt_if_needed, s4u
<1>2. ASSUME NEW r \in Realms, renew_tgt_session_for_realm(r)
      PROVE  LastingInv' /\ StartsValid /\ UNCHANGED caches
  <2> DEFINE x == IF r = Home /\ Have(tgt) THEN tgt ELSE tgt_sessions[r]
  <2>1. x \in Lasting /\ (r = Home => x = tgt)
    BY DEF LastingInv, IInv, PrimaryMirrored
  <2>2. /\ UNCHANGED caches
        /\ \/ Await("app", "renew_tgt", "renew", r, NoGoal, x)
           \/ Return("app", "error")
    BY <1>2 DEF renew_tgt_session_for_realm
  <2> HIDE DEF x
  <2>3. CASE Await("app", "renew_tgt", "renew", r, NoGoal, x)
    BY <2>1, <2>2, <2>3, AwaitLasting
  <2>4. CASE Return("app", "error")
    BY <2>2, <2>4, IdleLasting DEF Return
  <2> QED BY <2>2, <2>3, <2>4
<1>3. ASSUME NEW s \in Services, get_service_ticket(s)
      PROVE  LastingInv' /\ StartsValid /\ UNCHANGED caches
  <2> DEFINE x == service_tickets[s]
  <2>1. x \in Lasting
    BY DEF LastingInv
  <2>2. /\ UNCHANGED caches
        /\ \/ Return("app", "ok")
           \/ Await("app", "get_service_ticket", "renewTicket", RealmOf[s], s, x)
           \/ TgtFor("app", "get_service_ticket", s)
    BY <1>3 DEF get_service_ticket
  <2> HIDE DEF x
  <2>3. CASE Return("app", "ok")
    BY <2>2, <2>3, IdleLasting DEF Return
  <2>4. CASE Await("app", "get_service_ticket", "renewTicket", RealmOf[s], s, x)
    BY <2>1, <2>2, <2>4, AwaitLasting
  <2>5. CASE TgtFor("app", "get_service_ticket", s)
    BY <2>2, <2>5, TgtForLasting
  <2> QED BY <2>2, <2>3, <2>4, <2>5
<1> QED BY <1>1, <1>2, <1>3 DEF AppCall

LEMMA FailureLasting ==
    ASSUME IInv, LastingInv, KdcFailure
    PROVE  LastingInv' /\ StartsValid /\ UNCHANGED caches
<1>1. UNCHANGED caches
  BY DEF KdcFailure
<1>2. CASE Return(call.by, "error")
  BY <1>1, <1>2, IdleLasting DEF Return
<1>3. CASE call.kind = "renewTicket" /\ TgtFor(call.by, call.method, call.goal)
  <2>1. call.goal \in Services
    BY <1>3 DEF IInv, CallWellFormed
  <2> QED BY <1>1, <1>3, <2>1, TgtForLasting DEF IInv
<1>4. CASE Proceed(call.by, call.method, call.goal, ensure_tgt_next)
  BY <1>1, <1>4, ProceedLasting DEF IInv
<1> QED BY <1>1, <1>2, <1>3, <1>4 DEF KdcFailure

\* The primary TGT is not replaced by one that ends earlier.
NotDowngraded == Valid(tgt) /\ Have(tgt') => tgt'.end >= tgt.end

\* Where a call goes once it has a TGT.
LEMMA WithTgtLeads ==
    ASSUME NEW by, NEW method, NEW goal, NEW session, WithTgt(by, method, goal, session)
    PROVE  \/ call' = Idle
           \/ /\ call'.kind \in {"tgs", "s4u"} /\ call'.session = session
              /\ call'.realm = Home /\ goal # NoGoal
  BY RealmAssumption DEF WithTgt, Return, Await

\* The state after an exchange: new caches, and a call that is over or goes on
\* with a session.
LEMMA AfterReply ==
    ASSUME tgt' \in Lasting, tgt_sessions' \in [Realms -> Lasting],
           service_tickets' \in [Services -> Lasting], NEW session \in Lasting,
           \/ call' = Idle
           \/ /\ call'.kind \in {"tgs", "s4u"} /\ call'.session = session
              /\ session = tgt_sessions'[call'.realm],
           call.kind \in {"login", "renew", "renewCached"},
           now < session.end, session.start <= now + KdcAhead
    PROVE  LastingInv' /\ StartsValid
<1>1. call' = Idle => call'.session = NoSession /\ call'.kind = "idle"
  BY DEF Idle
<1> QED BY <1>1, NoSessionLasts DEF LastingInv, StartsValid, Lasting, Have

\* The TGT that login goes on with: the new one, or one no less good.
LEMMA LoginWinner ==
    ASSUME NEW c \in MaybeSession, now \in Nat, NEW t \in now .. now + KdcAhead,
           Have(c) => c.start <= now + KdcAhead
    PROVE  LET winner == preferred_session_at(c, AsTicket(t), now) IN
           now < winner.end /\ winner.start <= now + KdcAhead
<1> USE LifeAssumption
<1>1. c # NoSession => c.start \in Nat /\ c.end \in Nat
  BY DEF MaybeSession, Session
<1>2. AsTicket(t).start = t /\ AsTicket(t).end = t + Life
  BY DEF AsTicket
<1> QED BY <1>1, <1>2
        DEF preferred_session_at, prefer_current_session_at, session_valid_at, Have

\* A reply keeps sessions within the KDC's limits and a valid primary TGT, and
\* the call goes on with a TGT that has not lapsed.
LEMMA ReplyLasting ==
    ASSUME IInv, LastingInv, StartedInv, KdcReply
    PROVE  LastingInv' /\ NotDowngraded /\ StartsValid
<1>1. /\ TypeOK /\ CallWellFormed /\ now \in Nat /\ Home \in Realms
      /\ tgt \in MaybeSession /\ call.realm \in Realms /\ call.session \in MaybeSession
      /\ tgt \in Lasting /\ tgt_sessions \in [Realms -> Lasting]
      /\ service_tickets \in [Services -> Lasting] /\ call.session \in Lasting
      /\ call.kind = "renew" /\ call.realm = Home => call.session = tgt
      /\ call.kind = "renew" => call.realm = Home \/ call.goal = NoGoal
  BY RealmAssumption DEF IInv, TypeOK, Calls, LastingInv
<1>2. PICK t \in KdcTimes :
          \/ LoginReply(t) \/ RenewReply(t) \/ RenewCachedReply(t)
          \/ RenewTicketReply(t) \/ TgsReply(t) \/ S4UReply(t)
  BY DEF KdcReply
<1>3. t \in Nat /\ t >= now /\ t <= now + KdcAhead
  BY <1>1, LifeAssumption DEF KdcTimes
<1>4. NoTickets \in [Services -> Lasting] /\ NoTgts \in [Realms -> Lasting]
  BY NoSessionLasts DEF NoTickets, NoTgts
<1>5. Valid(tgt) => tgt \in Session /\ tgt.end \in Nat
  BY <1>1 DEF Valid, Have, MaybeSession, Session
<1>6. ASSUME UNCHANGED tgt PROVE NotDowngraded
  BY <1>5, <1>6 DEF NotDowngraded
<1>7. ASSUME KdcRenews(call.session, t), call.session \in Session
      PROVE  /\ RenewedTicket(call.session, t) \in Session \cap Lasting
             /\ now < RenewedTicket(call.session, t).end
             /\ RenewedTicket(call.session, t).start <= now + KdcAhead
             /\ call.session = tgt /\ Valid(tgt) =>
                    RenewedTicket(call.session, t).end >= tgt.end
  <2> DEFINE x == call.session
  <2>1. /\ x.renew # NoRenew /\ x.renew \in Nat /\ t < x.renew
        /\ x.start \in Nat /\ x.end \in Nat /\ x # NoSession /\ x.start <= t
    BY <1>7, SessionAssumption DEF KdcRenews, KdcHonours, Session, NoRenew
  <2>2. x.end <= x.start + Life /\ x.end <= x.renew
    BY <1>1, <2>1 DEF Lasting, Have
  <2>3. RenewedTicket(x, t) \in Session \cap Lasting
    BY <1>1, <1>3, <1>7, <2>1, KdcSessions, KdcLasting
  <2>4. /\ RenewedTicket(x, t).start = t
        /\ RenewedTicket(x, t).end = KdcMin(t + Life, x.renew)
    BY <1>7 DEF RenewedTicket, Session
  <2>5. KdcMin(t + Life, x.renew) > t
    BY <1>3, <2>1, LifeAssumption DEF KdcMin
  <2>6. x.start <= now => KdcMin(t + Life, x.renew) >= x.end
    BY <1>1, <1>3, <2>1, <2>2, LifeAssumption DEF KdcMin
  <2> HIDE DEF x
  <2>7. now < RenewedTicket(x, t).end /\ RenewedTicket(x, t).start <= now + KdcAhead
    BY <1>1, <1>3, <2>1, <2>4, <2>5, LifeAssumption DEF KdcMin
  <2>8. x = tgt /\ Valid(tgt) => RenewedTicket(x, t).end >= tgt.end
    BY <2>4, <2>6 DEF Valid, session_valid_at
  <2> QED BY <2>3, <2>7, <2>8 DEF x
<1>8. CASE LoginReply(t)
  <2> DEFINE cached == cache_tgt_session_at(NoTgts, tgt, Home, AsTicket(t))
  <2>1. AsTicket(t) \in Session \cap Lasting
    BY <1>3, KdcSessions, KdcLasting
  <2>2. /\ cached.tgt \in Lasting /\ cached.sessions \in [Realms -> Lasting]
        /\ Valid(tgt) => cached.tgt.end >= tgt.end
    BY <1>1, <1>4, <2>1, CacheLasting
  <2>3. preferred_session_at(NoTgts[Home], AsTicket(t), now) = AsTicket(t)
    BY <1>1 DEF preferred_session_at, NoTgts
  <2>4. /\ cached.tgt = preferred_session_at(tgt, AsTicket(t), now)
        /\ cached.sessions[Home] = cached.tgt
    BY <1>1, <2>3 DEF cache_tgt_session_at, NoTgts
  <2>5. now < cached.tgt.end /\ cached.tgt.start <= now + KdcAhead
    <3>1. t \in now .. now + KdcAhead
      BY <1>1, <1>3, LifeAssumption
    <3> QED BY <1>1, <2>4, <3>1, LoginWinner DEF StartedInv
  <2>6. /\ tgt' = cached.tgt /\ tgt_sessions' = cached.sessions
        /\ service_tickets' = NoTickets /\ call.kind = "login"
        /\ WithTgt(call.by, call.method, call.goal, cached.tgt)
    BY <1>8 DEF LoginReply
  <2> HIDE DEF cached
  <2>7. \/ call' = Idle
        \/ /\ call'.kind \in {"tgs", "s4u"} /\ call'.session = cached.tgt
           /\ cached.tgt = tgt_sessions'[call'.realm]
    BY <2>4, <2>6, WithTgtLeads
  <2>8. LastingInv' /\ StartsValid
    BY <1>4, <2>2, <2>5, <2>6, <2>7, AfterReply
  <2> QED BY <2>2, <2>6, <2>8 DEF NotDowngraded
<1>9. CASE RenewReply(t)
  <2> DEFINE renewed == RenewedTicket(call.session, t)
  <2>1. /\ call.kind = "renew" /\ KdcRenews(call.session, t)
        /\ tgt_sessions' = [tgt_sessions EXCEPT ![call.realm] = renewed]
        /\ \/ call.realm = Home /\ tgt' = renewed /\ service_tickets' = NoTickets
           \/ call.realm # Home /\ UNCHANGED <<tgt, service_tickets>>
        /\ WithTgt(call.by, call.method, call.goal, renewed)
    BY <1>9 DEF RenewReply
  <2>2. call.session \in Session
    BY <1>1, <2>1 DEF CallWellFormed
  <2>3. /\ renewed \in Session \cap Lasting
        /\ now < renewed.end /\ renewed.start <= now + KdcAhead
        /\ call.session = tgt /\ Valid(tgt) => renewed.end >= tgt.end
    BY <1>7, <2>1, <2>2
  <2> HIDE DEF renewed
  <2>4. /\ tgt' \in Lasting /\ tgt_sessions' \in [Realms -> Lasting]
        /\ service_tickets' \in [Services -> Lasting]
    BY <1>1, <1>4, <2>1, <2>3
  <2>5. \/ call' = Idle
        \/ /\ call'.kind \in {"tgs", "s4u"} /\ call'.session = renewed
           /\ renewed = tgt_sessions'[call'.realm]
    <3>1. \/ call' = Idle
          \/ /\ call'.kind \in {"tgs", "s4u"} /\ call'.session = renewed
             /\ call'.realm = Home /\ call.goal # NoGoal
      BY <2>1, WithTgtLeads
    <3> QED BY <1>1, <2>1, <3>1
  <2>6. LastingInv' /\ StartsValid
    BY <2>1, <2>3, <2>4, <2>5, AfterReply
  <2> QED BY <1>1, <1>6, <2>1, <2>3, <2>6 DEF NotDowngraded
<1>10. CASE RenewCachedReply(t)
  <2> DEFINE renewed == RenewedTicket(call.session, t)
  <2>1. /\ call.kind = "renewCached" /\ KdcRenews(call.session, t)
        /\ tgt_sessions' = [tgt_sessions EXCEPT ![call.realm] = renewed]
        /\ Await(call.by, call.method, "tgs", call.realm, call.goal, renewed)
        /\ UNCHANGED <<tgt, service_tickets>>
    BY <1>10 DEF RenewCachedReply
  <2>2. call.session \in Session
    BY <1>1, <2>1 DEF CallWellFormed
  <2>3. /\ renewed \in Session \cap Lasting
        /\ now < renewed.end /\ renewed.start <= now + KdcAhead
    BY <1>7, <2>1, <2>2
  <2> HIDE DEF renewed
  <2>4. /\ tgt' \in Lasting /\ tgt_sessions' \in [Realms -> Lasting]
        /\ service_tickets' \in [Services -> Lasting]
    BY <1>1, <2>1, <2>3
  <2>5. /\ call'.kind = "tgs" /\ call'.session = renewed
        /\ renewed = tgt_sessions'[call'.realm]
    BY <1>1, <2>1 DEF Await
  <2> QED BY <1>6, <2>1, <2>3, <2>4, <2>5, AfterReply
<1>11. ASSUME NEW svc \in Services, NEW s \in Session \cap Lasting, CacheTicket(svc, s)
       PROVE  service_tickets' \in [Services -> Lasting]
  <2>1. service_tickets[svc] \in Lasting
    BY <1>1
  <2>2. preferred_session_at(service_tickets[svc], s, now) \in Lasting
    BY <2>1 DEF preferred_session_at
  <2> QED BY <1>1, <1>11, <2>2 DEF CacheTicket
<1>12. CASE RenewTicketReply(t)
  <2>1. /\ call.kind = "renewTicket" /\ KdcRenews(call.session, t)
        /\ CacheTicket(call.goal, RenewedTicket(call.session, t))
        /\ call' = Idle /\ UNCHANGED <<tgt, tgt_sessions>>
    BY <1>12 DEF RenewTicketReply, Return
  <2>2. call.session \in Session /\ call.goal \in Services
    BY <1>1, <2>1 DEF CallWellFormed
  <2>3. service_tickets' \in [Services -> Lasting]
    BY <1>7, <1>11, <2>1, <2>2
  <2>4. Idle.session = NoSession /\ Idle.kind = "idle"
    BY DEF Idle
  <2>5. LastingInv' /\ StartsValid
    BY <1>1, <2>1, <2>3, <2>4, NoSessionLasts DEF LastingInv, StartsValid, Lasting, Have
  <2> QED BY <1>6, <2>1, <2>5
<1>13. CASE TgsReply(t)
  <2> DEFINE realm == RealmOf[call.goal]
             ticket == TgsTicket(call.session, t)
             cached == cache_tgt_session_at(tgt_sessions, tgt, realm, ticket)
  <2>1. /\ call.kind = "tgs" /\ KdcHonours(call.session, t)
        /\ \/ UNCHANGED <<tgt, tgt_sessions>>
           \/ tgt' = cached.tgt /\ tgt_sessions' = cached.sessions
        /\ CacheTicket(call.goal, ticket)
        /\ call' = Idle
    BY <1>13 DEF TgsReply, Return
  <2>2. call.session \in Session \cap Lasting /\ call.goal \in Services /\ realm \in Realms
    BY <1>1, <2>1, RealmAssumption DEF CallWellFormed
  <2>3. ticket \in Session \cap Lasting
    BY <1>3, <2>1, <2>2, KdcSessions, KdcLasting
  <2> HIDE DEF ticket
  <2>4. /\ cached.tgt \in Lasting /\ cached.sessions \in [Realms -> Lasting]
        /\ Valid(tgt) => cached.tgt.end >= tgt.end
    BY <1>1, <2>2, <2>3, CacheLasting
  <2> HIDE DEF cached
  <2>5. service_tickets' \in [Services -> Lasting]
    BY <1>11, <2>1, <2>2, <2>3
  <2>6. Idle.session = NoSession /\ Idle.kind = "idle"
    BY DEF Idle
  <2>7. LastingInv' /\ StartsValid
    BY <1>1, <2>1, <2>4, <2>5, <2>6, NoSessionLasts
       DEF LastingInv, StartsValid, Lasting, Have
  <2>8. NotDowngraded
    BY <1>6, <2>1, <2>4 DEF NotDowngraded
  <2> QED BY <2>7, <2>8
<1>14. CASE S4UReply(t)
  <2>1. call' = Idle /\ UNCHANGED caches
    BY <1>14 DEF S4UReply, Return
  <2> QED BY <1>6, <2>1, IdleLasting DEF caches
<1> QED BY <1>2, <1>8, <1>9, <1>10, <1>12, <1>13, <1>14

\* The sessions of other processes.
LEMMA OtherLasts ==
    /\ OtherSessions \subseteq Session \cap Lasting
    /\ \A s \in OtherSessions : s.start <= now + KdcAhead
<1> SUFFICES ASSUME NEW l \in OtherLogins, l[1] <= now + KdcAhead,
                    NEW s, s = [AsTicket(l[1]) EXCEPT !.renew = IF l[2] THEN @ ELSE NoRenew]
             PROVE  s \in Session \cap Lasting /\ s.start <= now + KdcAhead
  BY DEF OtherSessions
<1>1. l[1] \in Nat
  BY LifeAssumption
<1>2. s \in Session
  BY OtherTyped DEF OtherSessions
<1>3. /\ s.auth = l[1] /\ s.start = l[1] /\ s.end = l[1] + Life
      /\ s.renew \in {NoRenew, AsTicket(l[1]).renew}
  BY DEF AsTicket
<1>4. s.renew # NoRenew => s.end <= s.renew
  BY <1>1, <1>3, LifeAssumption, RenewAssumption DEF AsTicket, NoRenew
<1>5. /\ s.auth <= s.start /\ s.start < s.end /\ s.end <= s.start + Life
      /\ s.end <= s.auth + Life
  BY <1>1, <1>3, LifeAssumption
<1>6. s \in MaybeSession /\ s.start <= now + KdcAhead
  BY <1>2, <1>3 DEF MaybeSession
<1> QED BY <1>2, <1>4, <1>5, <1>6 DEF Lasting

\* Insertion, removal and pruning.
LEMMA LocalLasting ==
    ASSUME IInv, LastingInv, AppInsert \/ AppRemove \/ prune_unusable_sessions
    PROVE  LastingInv' /\ NotDowngraded /\ UNCHANGED call
<1>1. /\ now \in Nat /\ Home \in Realms /\ tgt \in MaybeSession
      /\ tgt \in Lasting /\ tgt_sessions \in [Realms -> Lasting]
      /\ service_tickets \in [Services -> Lasting] /\ NoSession \in Lasting
  BY RealmAssumption, NoSessionLasts DEF IInv, TypeOK, LastingInv
<1>2. UNCHANGED call /\ call = Idle
  BY DEF AppInsert, AppRemove, prune_unusable_sessions, cache_tgt_session,
         cache_service_ticket, remove_tgt_session_for_realm, remove_cached_service_ticket,
         clear_service_ticket_cache, destroy, Free
<1> SUFFICES LastingInv' /\ NotDowngraded
  BY <1>2
<1>3. ASSUME tgt' \in Lasting, tgt_sessions' \in [Realms -> Lasting],
             service_tickets' \in [Services -> Lasting]
      PROVE  LastingInv'
  <2>1. call'.session = NoSession /\ call'.kind = "idle"
    BY <1>2 DEF Idle
  <2> QED BY <1>1, <1>3, <2>1 DEF LastingInv, Lasting, Have
<1>4. Valid(tgt) => tgt.end \in Nat
  BY <1>1 DEF Valid, Have, MaybeSession, Session
<1>5. OtherSessions \subseteq Session \cap Lasting
  BY <1>1, OtherLasts
<1>6. ASSUME NEW r \in Realms, NEW s \in OtherSessions, cache_tgt_session(r, s)
      PROVE  LastingInv' /\ NotDowngraded
  <2> DEFINE cached == cache_tgt_session_at(tgt_sessions, tgt, r, s)
  <2>1. /\ cached.tgt \in Lasting /\ cached.sessions \in [Realms -> Lasting]
        /\ Valid(tgt) => cached.tgt.end >= tgt.end
    BY <1>1, <1>5, CacheLasting
  <2>2. /\ tgt' = cached.tgt /\ tgt_sessions' = cached.sessions
        /\ UNCHANGED service_tickets
    BY <1>6 DEF cache_tgt_session
  <2> HIDE DEF cached
  <2> QED BY <1>1, <1>3, <2>1, <2>2 DEF NotDowngraded
<1>7. ASSUME NEW svc \in Services, NEW s \in OtherSessions, cache_service_ticket(svc, s)
      PROVE  LastingInv' /\ NotDowngraded
  <2>1. s \in Lasting /\ service_tickets[svc] \in Lasting
    BY <1>1, <1>5
  <2>2. preferred_session_at(service_tickets[svc], s, now) \in Lasting
    BY <2>1 DEF preferred_session_at
  <2>3. /\ service_tickets' \in [Services -> Lasting]
        /\ UNCHANGED <<tgt, tgt_sessions>>
    BY <1>1, <1>7, <2>2 DEF cache_service_ticket, CacheTicket
  <2> QED BY <1>1, <1>3, <1>4, <2>3 DEF NotDowngraded
<1>8. ASSUME NEW r \in Realms, remove_tgt_session_for_realm(r)
      PROVE  LastingInv' /\ NotDowngraded
  <2>1. /\ tgt' = tgt \/ tgt' = NoSession
        /\ tgt_sessions' \in [Realms -> Lasting] /\ UNCHANGED service_tickets
    BY <1>1, <1>8 DEF remove_tgt_session_for_realm
  <2> QED BY <1>1, <1>3, <1>4, <2>1 DEF NotDowngraded, Have
<1>9. ASSUME NEW svc \in Services, remove_cached_service_ticket(svc)
      PROVE  LastingInv' /\ NotDowngraded
  BY <1>1, <1>3, <1>4, <1>9 DEF remove_cached_service_ticket, NotDowngraded
<1>10. CASE clear_service_ticket_cache
  BY <1>1, <1>3, <1>4, <1>10 DEF clear_service_ticket_cache, NotDowngraded, NoTickets
<1>11. CASE destroy
  BY <1>1, <1>3, <1>11 DEF destroy, NotDowngraded, NoTickets, NoTgts, Have
<1>12. CASE prune_unusable_sessions
  <2>1. \A s \in Lasting : Kept(s) \in Lasting /\ Kept(s) \in {s, NoSession}
    BY <1>1 DEF Kept
  <2>2. /\ tgt' = Kept(tgt) /\ tgt_sessions' = [r \in Realms |-> Kept(tgt_sessions[r])]
        /\ service_tickets' = [s \in Services |-> Kept(service_tickets[s])]
    BY <1>12 DEF prune_unusable_sessions
  <2>3. /\ tgt' \in Lasting /\ tgt_sessions' \in [Realms -> Lasting]
        /\ service_tickets' \in [Services -> Lasting]
    BY <1>1, <2>1, <2>2
  <2> QED BY <1>1, <1>3, <1>4, <2>1, <2>2, <2>3 DEF NotDowngraded, Have
<1>13. CASE AppInsert
  BY <1>6, <1>7, <1>13 DEF AppInsert
<1>14. CASE AppRemove
  BY <1>8, <1>9, <1>10, <1>11, <1>14 DEF AppRemove
<1> QED BY <1>12, <1>13, <1>14

\* The task, dropped calls and the clock.
LEMMA OtherLasting ==
    ASSUME IInv, LastingInv,
           spawn_auto_renewal \/ Task \/ abort \/ Tick \/ CancelCall \/ UNCHANGED vars
    PROVE  /\ LastingInv' /\ UNCHANGED caches
           /\ call.kind \notin {"tgs", "s4u"} => StartsValid
<1>1. UNCHANGED caches
  BY DEF spawn_auto_renewal, Task, TaskPlan, TaskWake, TaskRefresh, abort, Tick, CancelCall,
         caches, vars
<1>2. ASSUME call'.session = call.session, call'.kind = call.kind, call'.realm = call.realm,
             call'.goal = call.goal
      PROVE  LastingInv' /\ (call.kind \notin {"tgs", "s4u"} => StartsValid)
  BY <1>1, <1>2 DEF LastingInv, Lasting, Have, caches, StartsValid
<1>3. CASE call' = call
  BY <1>1, <1>2, <1>3
<1>4. CASE call' = Idle
  BY <1>1, <1>4, IdleLasting
<1>5. CASE Proceed("task", "refresh_tgt_if_needed", NoGoal, ensure_tgt_next)
  BY <1>1, <1>5, ProceedLasting DEF IInv
<1>6. CASE call' = [call EXCEPT !.waited = @ + 1]
  <2>1. /\ call'.session = call.session /\ call'.kind = call.kind
        /\ call'.realm = call.realm /\ call'.goal = call.goal
    BY <1>6 DEF IInv, TypeOK, Calls
  <2> QED BY <1>1, <1>2, <2>1
<1> QED BY <1>3, <1>4, <1>5, <1>6
        DEF spawn_auto_renewal, Task, TaskPlan, TaskWake, TaskRefresh, abort, Tick, CancelCall,
            vars

\* Where the primary TGT of the next state comes from.
LEMMA TgtSource ==
    ASSUME IInv, [Next]_vars
    PROVE  tgt' \in {tgt, NoSession} \/ tgt'.start <= now + KdcAhead
<1>1. /\ now \in Nat /\ Home \in Realms /\ tgt_sessions[Home] = tgt /\ CallWellFormed
      /\ call.realm \in Realms
  BY RealmAssumption DEF IInv, TypeOK, PrimaryMirrored, Calls
<1>2. ASSUME NEW T, NEW realm, NEW s, T[Home] \in {tgt, NoSession},
             tgt' = cache_tgt_session_at(T, tgt, realm, s).tgt
      PROVE  tgt' \in {tgt, NoSession} \/ tgt' = s
  BY <1>2 DEF cache_tgt_session_at, preferred_session_at
<1>3. CASE KdcReply
  <2>1. PICK t \in KdcTimes :
            \/ LoginReply(t) \/ RenewReply(t) \/ RenewCachedReply(t)
            \/ RenewTicketReply(t) \/ TgsReply(t) \/ S4UReply(t)
    BY <1>3 DEF KdcReply
  <2>2. t <= now + KdcAhead
    BY <1>1, LifeAssumption DEF KdcTimes
  <2>3. CASE LoginReply(t)
    <3>1. tgt' = cache_tgt_session_at(NoTgts, tgt, Home, AsTicket(t)).tgt
      BY <2>3 DEF LoginReply
    <3>2. NoTgts[Home] = NoSession /\ AsTicket(t).start = t
      BY <1>1 DEF NoTgts, AsTicket
    <3>3. tgt' \in {tgt, NoSession} \/ tgt' = AsTicket(t)
      BY <1>2, <3>1, <3>2
    <3> QED BY <2>2, <3>2, <3>3
  <2>4. CASE RenewReply(t)
    <3>1. call.session \in Session
      BY <1>1, <2>4 DEF CallWellFormed, RenewReply
    <3>2. RenewedTicket(call.session, t).start = t
      BY <3>1 DEF RenewedTicket, Session
    <3> QED BY <2>2, <2>4, <3>2 DEF RenewReply
  <2>5. CASE TgsReply(t)
    <3> DEFINE realm == RealmOf[call.goal]
               ticket == TgsTicket(call.session, t)
    <3>1. call.session \in Session
      BY <1>1, <2>5 DEF CallWellFormed, TgsReply
    <3>2. ticket.start = t
      BY <3>1 DEF TgsTicket, Session
    <3>3. tgt' = tgt \/ tgt' = cache_tgt_session_at(tgt_sessions, tgt, realm, ticket).tgt
      BY <2>5 DEF TgsReply
    <3> HIDE DEF ticket
    <3>4. tgt' \in {tgt, NoSession} \/ tgt' = ticket
      BY <1>1, <1>2, <3>3
    <3> QED BY <2>2, <3>2, <3>4
  <2> QED BY <2>1, <2>3, <2>4, <2>5
          DEF RenewCachedReply, RenewTicketReply, S4UReply, caches
<1>4. CASE AppInsert
  <2>1. ASSUME NEW r \in Realms, NEW s \in OtherSessions, cache_tgt_session(r, s)
        PROVE  tgt' \in {tgt, NoSession} \/ tgt' = s
    <3>1. tgt' = cache_tgt_session_at(tgt_sessions, tgt, r, s).tgt
      BY <2>1 DEF cache_tgt_session
    <3> QED BY <1>1, <1>2, <3>1
  <2> QED BY <1>4, <2>1, OtherLasts DEF AppInsert, cache_service_ticket
<1>5. CASE AppRemove \/ prune_unusable_sessions
  BY <1>5 DEF AppRemove, prune_unusable_sessions, Kept, remove_tgt_session_for_realm,
              remove_cached_service_ticket, clear_service_ticket_cache, destroy
<1>6. CASE AppCall
  BY <1>6 DEF AppCall, affirm_login, login, refresh_tgt_if_needed, s4u,
              renew_tgt_session_for_realm, get_service_ticket, caches
<1>7. CASE \/ KdcFailure \/ CancelCall \/ spawn_auto_renewal \/ Task \/ abort \/ Tick
           \/ UNCHANGED vars
  BY <1>7 DEF KdcFailure, CancelCall, spawn_auto_renewal, Task, TaskPlan, TaskWake,
              TaskRefresh, abort, Tick, caches, vars
<1> QED BY <1>3, <1>4, <1>5, <1>6, <1>7 DEF Next

\* The clock does not go back.
LEMMA ClockStep ==
    ASSUME IInv, [Next]_vars
    PROVE  now' \in Nat /\ now' >= now
<1>1. now \in Nat /\ now' \in Nat
  BY StepIInv DEF IInv, TypeOK
<1>2. CASE Tick
  BY <1>1, <1>2 DEF Tick, Later
<1>3. CASE UNCHANGED now
  BY <1>1, <1>3
<1> QED BY <1>2, <1>3
        DEF Next, AppCall, affirm_login, login, refresh_tgt_if_needed, s4u,
            renew_tgt_session_for_realm, get_service_ticket, AppInsert, cache_tgt_session,
            cache_service_ticket, AppRemove, remove_tgt_session_for_realm,
            remove_cached_service_ticket, clear_service_ticket_cache, destroy,
            prune_unusable_sessions, KdcReply, KdcFailure, CancelCall, spawn_auto_renewal,
            Task, TaskPlan, TaskWake, TaskRefresh, abort, vars

LEMMA StepStarted == IInv /\ StartedInv /\ [Next]_vars => StartedInv'
<1> SUFFICES ASSUME IInv, StartedInv, [Next]_vars, Have(tgt')
             PROVE  tgt'.start <= now' + KdcAhead
  BY DEF StartedInv, Have
<1>1. /\ now \in Nat /\ now' \in Nat /\ now' >= now /\ KdcAhead \in Nat
      /\ tgt' # NoSession
  BY ClockStep, LifeAssumption DEF IInv, TypeOK, Have
<1>2. tgt' \in MaybeSession
  BY StepIInv DEF IInv, TypeOK
<1>3. tgt'.start \in Nat
  BY <1>1, <1>2 DEF MaybeSession, Session
<1>4. tgt' = tgt => tgt'.start <= now + KdcAhead
  BY <1>1 DEF StartedInv, Have
<1> QED BY <1>1, <1>3, <1>4, TgtSource

LEMMA InitLasting == Init => LastingInv /\ StartedInv
<1> SUFFICES ASSUME Init PROVE LastingInv /\ StartedInv
  OBVIOUS
<1> QED BY NoSessionLasts
        DEF Init, InitWith, LastingInv, StartedInv, NoTgts, NoTickets, Idle, Have

\* What a step does to sessions and to the TGTs it presents.
LEMMA StepLasting ==
    IInv /\ LastingInv /\ StartedInv /\ [Next]_vars =>
        /\ LastingInv'
        /\ NotDowngraded
        /\ call.kind \notin {"tgs", "s4u"} => StartsValid
<1> SUFFICES ASSUME IInv, LastingInv, StartedInv, [Next]_vars
             PROVE  /\ LastingInv'
                    /\ NotDowngraded
                    /\ call.kind \notin {"tgs", "s4u"} => StartsValid
  OBVIOUS
<1>1. ASSUME UNCHANGED caches PROVE NotDowngraded
  <2>1. Valid(tgt) => tgt.end \in Nat
    BY DEF IInv, TypeOK, Valid, Have, MaybeSession, Session
  <2> QED BY <1>1, <2>1 DEF NotDowngraded, caches
<1>2. CASE AppCall
  BY <1>1, <1>2, AppCallLasting
<1>3. CASE AppInsert \/ AppRemove \/ prune_unusable_sessions
  BY <1>3, LocalLasting DEF StartsValid
<1>4. CASE KdcReply
  BY <1>4, ReplyLasting
<1>5. CASE KdcFailure
  BY <1>1, <1>5, FailureLasting
<1>6. CASE spawn_auto_renewal \/ Task \/ abort \/ Tick \/ CancelCall \/ UNCHANGED vars
  BY <1>1, <1>6, OtherLasting
<1> QED BY <1>2, <1>3, <1>4, <1>5, <1>6 DEF Next

\* Sessions keep within the limits of the KDC, and a renewal of the primary
\* TGT never works on another one than the client holds.
THEOREM SessionsLast == Spec => [](LastingInv /\ StartedInv)
<1> QED BY InitLasting, StepLasting, StepStarted, Invariance, PTL DEF Spec

\* While it is valid the primary TGT is only replaced by one that lasts at
\* least as long: by caching, login, referral and by renewal, which does not
\* compare the two.
THEOREM PrimaryLasts == Spec => PrimaryNeverDowngraded
<1>1. IInv /\ LastingInv /\ StartedInv /\ [Next]_vars
        => [Valid(tgt) /\ Have(tgt') => tgt'.end >= tgt.end]_vars
  BY StepLasting DEF NotDowngraded
<1> QED BY <1>1, Invariance, SessionsLast, PTL DEF Spec, PrimaryNeverDowngraded

\* A TGT taken for a TGS exchange is the one held for the realm and has not
\* lapsed, whatever exchange of the call came before it; it may not have started
\* only where a KDC that is ahead has just issued or renewed it.
THEOREM ValidWhenPresented == Spec => ExchangesStartValid
<1>1. IInv /\ LastingInv /\ StartedInv /\ [Next]_vars
        => [call'.kind \in {"tgs", "s4u"} /\ call.kind \notin {"tgs", "s4u"}
              => /\ call'.session = tgt_sessions'[call'.realm]
                 /\ now < call'.session.end
                 /\ \/ call'.session.start <= now
                    \/ /\ call.kind \in {"login", "renew", "renewCached"}
                       /\ call'.session.start <= now + KdcAhead]_vars
  BY StepLasting DEF StartsValid
<1> QED BY <1>1, Invariance, SessionsLast, PTL DEF Spec, ExchangesStartValid

-----------------------------------------------------------------------------
(* The refresh window: when a refresh of the renewal task leaves it.         *)

\* The task's own exchanges: a renewal of the primary TGT, or a login when it
\* cannot be renewed.
TaskCall ==
    call.by = "task" =>
        /\ call.kind \in {"login", "renew"} /\ call.realm = Home /\ call.goal = NoGoal
        /\ call.kind = "login" => ~ Renewable(tgt)

RefreshStep ==
    task.phase \in {"ready", "refreshing"} /\ task'.phase = "plan"
       => ~ Due(tgt)' \/ StuckWithTicket \/ LoginNotStarted \/ RenewedToLimit

\* A call of the application leaves the task alone.
LEMMA AppSide ==
    ASSUME NEW by \in {"none", "app"}, NEW method, NEW goal, NEW session, NEW kind, NEW realm,
           NEW outcome, NEW next,
           \/ Await(by, method, kind, realm, goal, session) \/ Return(by, outcome)
           \/ WithTgt(by, method, goal, session) \/ Proceed(by, method, goal, next)
           \/ TgtFor(by, method, goal)
    PROVE  task' = task /\ call'.by # "task"
<1>1. Await(by, method, kind, realm, goal, session) \/ Return(by, outcome)
         => task' = task /\ call'.by # "task"
  BY DEF Await, Return, Idle
<1>2. \A x : WithTgt(by, method, goal, x) => task' = task /\ call'.by # "task"
  BY DEF WithTgt, Await, Return, Idle
<1>3. \A n : Proceed(by, method, goal, n) => task' = task /\ call'.by # "task"
  BY <1>2 DEF Proceed, Await, Return, Idle
<1>4. TgtFor(by, method, goal) => task' = task /\ call'.by # "task"
  BY <1>3 DEF TgtFor, Await
<1> QED BY <1>1, <1>2, <1>3, <1>4

\* A refresh that needs no exchange, or begins one.
LEMMA RefreshBegins ==
    ASSUME TaskRefresh
    PROVE  TaskCall' /\ RefreshStep
<1>1. /\ now' = now /\ creds' = creds /\ tgt' = tgt /\ call = Idle
  BY DEF TaskRefresh, caches, Free
<1>2. (Renewable(tgt)' <=> Renewable(tgt)) /\ (Due(tgt)' <=> Due(tgt))
  BY <1>1 DEF Renewable, Due, Have
<1>3. CASE task' = [phase |-> "done", wake |-> 0] /\ UNCHANGED call
  BY <1>1, <1>3 DEF TaskCall, RefreshStep, Idle
<1>4. CASE Proceed("task", "refresh_tgt_if_needed", NoGoal, ensure_tgt_next)
  <2>1. CASE ensure_tgt_next = "have" /\ Return("task", "ok")
    <3>1. ~ Due(tgt) \/ StuckWithTicket
      BY <1>1, <2>1 DEF ensure_tgt_next, StuckWithTicket
    <3>2. TaskCall'
      BY <2>1 DEF Return, TaskCall, Idle
    <3> QED BY <1>2, <3>1, <3>2 DEF RefreshStep
  <2>2. CASE Await("task", "refresh_tgt_if_needed", "renew", Home, NoGoal, tgt)
    BY <2>2 DEF Await, TaskCall, RefreshStep
  <2>3. CASE /\ ensure_tgt_next = "login"
             /\ Await("task", "refresh_tgt_if_needed", "login", Home, NoGoal, NoSession)
    <3>1. ~ Renewable(tgt)
      BY <2>3 DEF ensure_tgt_next
    <3> QED BY <1>2, <2>3, <3>1 DEF Await, TaskCall, RefreshStep
  <2>4. CASE Return("task", "error")
    BY <2>4 DEF Return, TaskCall, RefreshStep, Idle
  <2>5. WithTgt("task", "refresh_tgt_if_needed", NoGoal, tgt) => Return("task", "ok")
    BY RealmAssumption DEF WithTgt
  <2> QED BY <1>4, <2>1, <2>2, <2>3, <2>4, <2>5 DEF Proceed
<1> QED BY <1>3, <1>4 DEF TaskRefresh

\* A fresh ticket is not due, nor is one that is kept over it without need.
LEMMA LoginLeaves ==
    ASSUME now \in Nat, NEW c \in Lasting, NEW t \in now .. now + KdcAhead, ~ Renewable(c)
    PROVE  LET winner == preferred_session_at(c, AsTicket(t), now) IN
           \/ ~ session_refresh_due_at(winner, now)
           \/ KdcAhead > 0 /\ Valid(c) /\ winner = c
<1> USE LifeAssumption
<1>1. /\ AsTicket(t).start = t /\ AsTicket(t).end = t + Life /\ AsTicket(t).auth = t
      /\ t \in Nat /\ t >= now
  BY DEF AsTicket
<1>2. ~ session_refresh_due_at(AsTicket(t), now)
  BY <1>1 DEF session_refresh_due_at, SESSION_REFRESH_DIVISOR
<1>3. ASSUME c # NoSession, prefer_current_session_at(c, AsTicket(t), now)
      PROVE  ~ session_refresh_due_at(c, now) \/ (KdcAhead > 0 /\ Valid(c))
  <2>1. /\ c.auth \in Nat /\ c.start \in Nat /\ c.end \in Nat
        /\ c.renew \in Nat \cup {NoRenew} /\ c.auth < c.end
        /\ c.renew # NoRenew => c.end <= c.renew
        /\ c.renew = NoRenew => c.end <= c.auth + Life
    BY <1>3 DEF Lasting, MaybeSession, Session, Have
  <2>2. c.renew = NoRenew \/ now >= c.renew
    BY <1>3, <2>1 DEF Renewable, Have, session_renewable_at, NoRenew
  <2>3. CASE session_valid_at(c, now) /\ ~ session_valid_at(AsTicket(t), now)
    <3>1. t > now
      BY <1>1, <2>3 DEF session_valid_at
    <3> QED BY <1>3, <2>3, <3>1 DEF Valid, Have
  <2>4. CASE c.end >= AsTicket(t).end
    <3>1. c.end >= now + Life /\ c.renew = NoRenew
      BY <1>1, <2>1, <2>2, <2>4 DEF NoRenew
    <3>2. c.end > now /\ c.end - c.auth <= Life /\ c.end - now >= Life
      BY <2>1, <3>1
    <3> QED BY <2>1, <3>1, <3>2 DEF session_refresh_due_at, SESSION_REFRESH_DIVISOR
  <2> QED BY <1>3, <2>3, <2>4 DEF prefer_current_session_at
<1> QED BY <1>2, <1>3 DEF preferred_session_at

\* An exchange of the task is answered.
LEMMA RefreshAnswered ==
    ASSUME IInv, LastingInv, TaskCall, KdcReply, call.by = "task"
    PROVE  TaskCall' /\ RefreshStep
<1>1. /\ now \in Nat /\ Home \in Realms /\ CallWellFormed /\ tgt \in Lasting
      /\ call.kind \in {"login", "renew"} /\ call.realm = Home /\ call.goal = NoGoal
      /\ call.kind = "login" => ~ Renewable(tgt)
      /\ call.kind = "renew" => call.session = tgt
  BY RealmAssumption DEF IInv, TypeOK, LastingInv, TaskCall
<1>2. PICK t \in KdcTimes : LoginReply(t) \/ RenewReply(t)
  BY <1>1 DEF KdcReply, RenewCachedReply, RenewTicketReply, TgsReply, S4UReply
<1>3. /\ t \in now .. now + KdcAhead /\ now' = now
      /\ \A x : Due(x)' <=> (Have(x') => session_refresh_due_at(x', now))
  BY DEF KdcTimes, KdcReply, Due, Have
<1>4. \A x : WithTgt(call.by, call.method, call.goal, x) => call' = Idle
  BY <1>1, RealmAssumption DEF WithTgt, Return
<1>5. call' = Idle
  BY <1>2, <1>4 DEF LoginReply, RenewReply
<1>6. TaskCall'
  BY <1>5 DEF TaskCall, Idle
<1>7. CASE LoginReply(t)
  <2> DEFINE winner == preferred_session_at(tgt, AsTicket(t), now)
  <2>1. call.kind = "login" /\ tgt' = winner
    <3>1. preferred_session_at(NoTgts[Home], AsTicket(t), now) = AsTicket(t)
      BY <1>1 DEF preferred_session_at, NoTgts
    <3> QED BY <1>7, <3>1 DEF LoginReply, cache_tgt_session_at
  <2>2. \/ ~ session_refresh_due_at(winner, now)
        \/ KdcAhead > 0 /\ Valid(tgt) /\ winner = tgt
    BY <1>1, <1>3, <2>1, LoginLeaves
  <2>3. Have(winner)
    <3>1. AsTicket(t) \in Session
      BY <1>1, <1>3, LifeAssumption, KdcSessions
    <3> QED BY <3>1, SessionAssumption DEF preferred_session_at, Have
  <2> HIDE DEF winner
  <2>4. ~ Due(tgt)' \/ LoginNotStarted
    BY <1>3, <2>1, <2>2, <2>3 DEF LoginNotStarted, Due, Have
  <2> QED BY <1>6, <2>4 DEF RefreshStep
<1>8. CASE RenewReply(t)
  <2> DEFINE renewed == RenewedTicket(tgt, t)
  <2>1. call.kind = "renew" /\ tgt' = renewed /\ KdcRenews(tgt, t) /\ tgt \in Session
    BY <1>1, <1>8 DEF RenewReply, CallWellFormed
  <2>2. /\ tgt.auth \in Nat /\ tgt.start \in Nat /\ tgt.renew \in Nat
        /\ tgt.auth <= tgt.start /\ tgt.start <= t /\ t < tgt.renew
        /\ t \in Nat /\ t >= now /\ tgt # NoSession
    BY <1>1, <1>3, <2>1, SessionAssumption, LifeAssumption
       DEF Lasting, Have, Session, KdcRenews, KdcHonours
  <2>3. /\ renewed.auth = tgt.auth /\ renewed.renew = tgt.renew
        /\ renewed.end = KdcMin(t + Life, tgt.renew)
    BY <2>1 DEF RenewedTicket, Session
  <2> HIDE DEF renewed
  <2>4. PICK e \in Nat : /\ e = renewed.end /\ e > t
                         /\ e = t + Life \/ e = tgt.renew
    BY <2>2, <2>3, LifeAssumption DEF KdcMin
  <2>5. session_refresh_due_at(renewed, now)
          => SESSION_REFRESH_DIVISOR * (e - now) <= e - tgt.auth
    BY <1>1, <2>2, <2>3, <2>4 DEF session_refresh_due_at
  <2>6. SESSION_REFRESH_DIVISOR * (e - now) <= e - tgt.auth /\ e = t + Life
          => e - tgt.auth >= SESSION_REFRESH_DIVISOR * Life
    BY <1>1, <2>2, <2>4, LifeAssumption DEF SESSION_REFRESH_DIVISOR
  <2>7. session_refresh_due_at(renewed, now) => RenewedToLimit
    BY <2>1, <2>3, <2>4, <2>5, <2>6 DEF RenewedToLimit
  <2>8. Due(tgt)' => session_refresh_due_at(renewed, now)
    <3>1. renewed \in Session
      BY <2>1, <2>2, KdcSessions DEF renewed, NoRenew
    <3> QED BY <1>3, <2>1, <3>1, SessionAssumption DEF Due, Have
  <2> QED BY <1>6, <2>7, <2>8 DEF RefreshStep
<1> QED BY <1>2, <1>7, <1>8

LEMMA StepRefresh ==
    IInv /\ LastingInv /\ TaskCall /\ [Next]_vars => TaskCall' /\ RefreshStep
<1> SUFFICES ASSUME IInv, LastingInv, TaskCall, [Next]_vars
             PROVE  TaskCall' /\ RefreshStep
  OBVIOUS
<1>1. call.by \in {"none", "app", "task"} /\ (call.by = "none" <=> call = Idle)
      /\ TaskOwnsItsCall /\ Idle.by = "none" /\ now \in Nat
  BY DEF IInv, TypeOK, Calls, CallWellFormed, Idle
<1>2. ASSUME call'.by # "task", task' = task PROVE TaskCall' /\ RefreshStep
  BY <1>2 DEF TaskCall, RefreshStep
<1>3. CASE AppCall
  BY <1>2, <1>3, AppSide
     DEF AppCall, affirm_login, login, refresh_tgt_if_needed, s4u,
         renew_tgt_session_for_realm, get_service_ticket
<1>4. CASE AppInsert \/ AppRemove \/ prune_unusable_sessions \/ CancelCall
  BY <1>1, <1>2, <1>4
     DEF AppInsert, AppRemove, prune_unusable_sessions, cache_tgt_session,
         cache_service_ticket, remove_tgt_session_for_realm, remove_cached_service_ticket,
         clear_service_ticket_cache, destroy, Free, CancelCall
<1>5. CASE KdcReply
  <2>1. CASE call.by = "task"
    BY <1>5, <2>1, RefreshAnswered
  <2>2. CASE call.by \in {"none", "app"}
    BY <1>2, <1>5, <2>2, AppSide
       DEF KdcReply, LoginReply, RenewReply, RenewCachedReply, RenewTicketReply, TgsReply,
           S4UReply
  <2> QED BY <1>1, <2>1, <2>2
<1>6. CASE KdcFailure
  <2>1. CASE call.by = "task"
    <3>1. Return(call.by, "error")
      BY <1>6, <2>1 DEF KdcFailure, TaskCall
    <3> QED BY <2>1, <3>1 DEF Return, TaskCall, RefreshStep, Idle
  <2>2. CASE call.by \in {"none", "app"}
    BY <1>2, <1>6, <2>2, AppSide DEF KdcFailure
  <2> QED BY <1>1, <2>1, <2>2
<1>7. CASE spawn_auto_renewal \/ TaskPlan \/ TaskWake \/ abort \/ UNCHANGED vars
  <2>1. UNCHANGED <<now, tgt>> /\ (call' = call \/ call' = Idle)
    BY <1>7 DEF spawn_auto_renewal, TaskPlan, TaskWake, abort, vars, caches
  <2>2. TaskCall'
    BY <1>1, <2>1 DEF TaskCall, Renewable, Have
  <2>3. RefreshStep
    BY <1>7 DEF RefreshStep, spawn_auto_renewal, TaskPlan, TaskWake, abort, vars
  <2> QED BY <2>2, <2>3
<1>8. CASE TaskRefresh
  BY <1>8, RefreshBegins
<1>9. CASE Tick
  <2>1. /\ tgt' = tgt /\ task' = task /\ call'.by = call.by /\ call'.kind = call.kind
        /\ call'.realm = call.realm /\ call'.goal = call.goal
    BY <1>9 DEF Tick, caches, IInv, TypeOK, Calls
  <2>2. now' \in Nat /\ now' >= now
    BY <1>9, ClockStep
  <2>3. Renewable(tgt)' => Renewable(tgt)
    <3>1. Have(tgt) => tgt.renew \in Nat \cup {NoRenew}
      BY DEF IInv, TypeOK, Have, MaybeSession, Session
    <3> QED BY <1>1, <2>1, <2>2, <3>1 DEF Renewable, Have, session_renewable_at, NoRenew
  <2> QED BY <2>1, <2>3 DEF TaskCall, RefreshStep
<1> QED BY <1>3, <1>4, <1>5, <1>6, <1>7, <1>8, <1>9 DEF Next, Task

\* A refresh of the renewal task that succeeds leaves the refresh window, for
\* every lifetime, clock and KDC, save in the three cases in which the task
\* goes round at once: a valid TGT and nothing to refresh it with, a login whose
\* TGT has not started, and a renewal at its limit or past six lifetimes.
THEOREM RefreshesLeaveWindow == Spec => RefreshLeavesWindow
<1>1. Init => TaskCall
  BY DEF Init, InitWith, TaskCall, Idle
<1>2. IInv /\ LastingInv /\ TaskCall /\ [Next]_vars => TaskCall'
  BY StepRefresh
<1>3. IInv /\ LastingInv /\ TaskCall /\ [Next]_vars
        => [task.phase \in {"ready", "refreshing"} /\ task'.phase = "plan"
              => ~ Due(tgt)' \/ StuckWithTicket \/ LoginNotStarted \/ RenewedToLimit]_vars
  BY StepRefresh DEF RefreshStep
<1> QED BY <1>1, <1>2, <1>3, Invariance, SessionsLast, PTL DEF Spec, RefreshLeavesWindow

-----------------------------------------------------------------------------
(* A healthy environment: the renewal task keeps the primary TGT valid, for *)
(* tickets that cannot be renewed.                                          *)

\* The refresh window of an initial ticket.
Window == Life \div SESSION_REFRESH_DIVISOR

\* Exchanges are short enough for the application's and the task's to fit in
\* the window one after the other; no instant is skipped.
Healthy ==
    /\ RenewLife = 0 /\ KdcAhead = 0 /\ 2 * MaxExchange < Window
    /\ \A n \in Instants \ {0} : n - 1 \in Instants

\* A session that cannot be renewed.
Plain(s) == Have(s) => s.renew = NoRenew

PlainInv ==
    /\ creds
    /\ \A r \in Realms : Plain(tgt_sessions[r])
    /\ \A s \in Services : Plain(service_tickets[s])
    /\ Plain(tgt) /\ Plain(call.session)

\* The primary TGT is one of a login, which no renewal or referral replaces.
TgtInv ==
    Have(tgt) => tgt.auth = tgt.start /\ tgt.end = tgt.start + Life /\ tgt.start <= now

PlainCall(c) ==
    /\ c.kind \in {"idle", "login", "renew", "tgs", "s4u"}
    /\ c.kind = "tgs" => c.realm \in {Home, RealmOf[c.goal]}

\* How much of the lifetime is left in each phase of the task.
Left(n) == tgt.end - now >= n

PaceInv ==
    /\ task.phase \in {"plan", "sleep", "ready", "refreshing"}
    /\ task.phase = "plan" => Free /\ (Have(tgt) => Left(Window + 1))
    /\ task.phase = "sleep" =>
          Have(tgt) /\ now <= task.wake /\ task.wake <= tgt.end - Window
    /\ task.phase = "ready" =>
          IF Free THEN Have(tgt) => Left(Window - MaxExchange)
          ELSE Have(tgt) /\ Left(Window - call.waited)
    /\ task.phase = "refreshing" =>
          /\ call.kind = "login" /\ call.goal = NoGoal
          /\ Have(tgt) => Left(Window - MaxExchange - call.waited)

PromptInv == PlainInv /\ TgtInv /\ PlainCall(call) /\ PaceInv

\* Sessions that cannot be renewed are due exactly in the window of their end.
LEMMA DueInWindow ==
    ASSUME TypeOK, TgtInv, Have(tgt)
    PROVE  /\ tgt.end \in Nat /\ tgt.start \in Nat /\ tgt.auth \in Nat /\ now \in Nat
           /\ Window \in Nat /\ Window < Life
           /\ ~ Due(tgt) <=> Left(Window + 1)
           /\ RefreshAt(tgt) = tgt.end - Window
           /\ Left(1) => Valid(tgt)
<1>1. tgt.end \in Nat /\ tgt.start \in Nat /\ tgt.auth \in Nat /\ now \in Nat
  BY DEF TypeOK, MaybeSession, Session, Have
<1>2. tgt.auth = tgt.start /\ tgt.end = tgt.start + Life /\ tgt.start <= now
  BY DEF TgtInv
<1>3. Life \in Nat \ {0}
  BY LifeAssumption
<1>4. Window \in Nat /\ Window < Life /\ 6 * Window <= Life /\ Life < 6 * Window + 6
  BY <1>3 DEF Window, SESSION_REFRESH_DIVISOR
<1>5. tgt.end - tgt.auth = Life
  BY <1>1, <1>2, <1>3
<1>6. Due(tgt) <=> tgt.end - now <= Window
  <2>1. Due(tgt) <=> \/ now >= tgt.end
                     \/ tgt.end <= tgt.auth
                     \/ 6 * (tgt.end - now) <= Life
    BY <1>5 DEF Due, session_refresh_due_at, SESSION_REFRESH_DIVISOR
  <2> QED BY <2>1, <1>1, <1>2, <1>3, <1>4
<1>7. ~ Due(tgt) <=> Left(Window + 1)
  BY <1>1, <1>4, <1>6 DEF Left
<1>8. RefreshAt(tgt) = tgt.end - Window
  BY <1>5 DEF RefreshAt, Window
<1>9. Left(1) => Valid(tgt)
  BY <1>1, <1>2 DEF Left, Valid, session_valid_at
<1> QED BY <1>1, <1>4, <1>7, <1>8, <1>9

\* The primary TGT is valid.
LEMMA PromptValid ==
    ASSUME IInv, PromptInv, Healthy, Have(tgt)
    PROVE  Valid(tgt)
<1>1. TypeOK /\ TgtInv /\ PaceInv
  BY DEF IInv, PromptInv
<1>2. /\ tgt.end \in Nat /\ now \in Nat /\ Window \in Nat
      /\ Left(1) => Valid(tgt)
  BY <1>1, DueInWindow
<1>3. call.waited \in 0 .. MaxExchange /\ MaxExchange \in Nat /\ 2 * MaxExchange < Window
      /\ task.wake \in Int
  BY <1>1, LifeAssumption DEF TypeOK, Calls, Healthy
<1>4. Left(1)
  BY <1>1, <1>2, <1>3 DEF PaceInv, Left
<1> QED BY <1>2, <1>4

\* Nothing is renewed.
LEMMA NeverRenewable ==
    ASSUME NEW s, Plain(s)
    PROVE  ~ Renewable(s) /\ \A t : ~ KdcRenews(s, t) \/ ~ Have(s)
  BY DEF Plain, Renewable, session_renewable_at, KdcRenews

\* What a call of the application, or of the task, comes to: the call is over,
\* or goes on with an exchange that begins.
Onward ==
    \/ call' = Idle
    \/ call'.kind # "idle" /\ call'.waited = 0 /\ PlainCall(call') /\ Plain(call'.session)

LEMMA AwaitOnward ==
    ASSUME NEW by, NEW method, NEW kind \in {"login", "renew", "tgs", "s4u"}, NEW realm,
           NEW goal, NEW session, Plain(session), kind = "tgs" => realm \in {Home, RealmOf[goal]},
           Await(by, method, kind, realm, goal, session)
    PROVE  /\ Onward /\ (by # "task" => task' = task)
           /\ call'.kind = kind /\ call'.goal = goal
  BY DEF Await, Onward, PlainCall

LEMMA WithTgtOnward ==
    ASSUME NEW by, NEW method, NEW goal, NEW session, Plain(session),
           WithTgt(by, method, goal, session)
    PROVE  /\ Onward /\ (by # "task" => task' = task)
           /\ goal = NoGoal => Return(by, "ok")
<1>1. CASE goal = NoGoal /\ Return(by, "ok")
  BY <1>1 DEF Return, Onward
<1>2. CASE goal = S4U /\ Await(by, method, "s4u", Home, goal, session)
  BY <1>2, AwaitOnward, RealmAssumption
<1>3. CASE goal \in Services /\ Await(by, method, "tgs", Home, goal, session)
  BY <1>3, AwaitOnward, RealmAssumption
<1> QED BY <1>1, <1>2, <1>3 DEF WithTgt

LEMMA ProceedOnward ==
    ASSUME PlainInv, NEW by, NEW method, NEW goal,
           NEW next \in {login_next, affirm_login_next, ensure_tgt_next},
           Proceed(by, method, goal, next)
    PROVE  Onward /\ (by # "task" => task' = task)
<1>1. Plain(tgt) /\ Plain(NoSession)
  BY DEF PlainInv, Plain, Have
<1>2. next # "renew" /\ next # "error"
  BY <1>1, NeverRenewable DEF PlainInv, login_next, affirm_login_next, ensure_tgt_next
<1>3. CASE WithTgt(by, method, goal, tgt)
  BY <1>1, <1>3, WithTgtOnward
<1>4. CASE Await(by, method, "login", Home, goal, NoSession)
  BY <1>1, <1>4, AwaitOnward
<1> QED BY <1>2, <1>3, <1>4 DEF Proceed

LEMMA AppCallOnward ==
    ASSUME IInv, PlainInv, AppCall
    PROVE  Onward /\ task' = task /\ Free /\ UNCHANGED <<now, creds, caches>>
<1>1. CASE affirm_login \/ login \/ refresh_tgt_if_needed \/ s4u
  BY <1>1, ProceedOnward DEF affirm_login, login, refresh_tgt_if_needed, s4u
<1>2. ASSUME NEW r \in Realms, renew_tgt_session_for_realm(r)
      PROVE  Onward /\ task' = task /\ Free /\ UNCHANGED <<now, creds, caches>>
  <2> DEFINE x == IF r = Home /\ Have(tgt) THEN tgt ELSE tgt_sessions[r]
  <2>1. Plain(x)
    BY DEF PlainInv
  <2>2. /\ UNCHANGED <<now, creds, caches>> /\ Free
        /\ \/ Await("app", "renew_tgt", "renew", r, NoGoal, x)
           \/ Return("app", "error")
    BY <1>2 DEF renew_tgt_session_for_realm
  <2> HIDE DEF x
  <2>3. CASE Await("app", "renew_tgt", "renew", r, NoGoal, x)
    <3>1. Onward /\ task' = task
      BY ONLY <2>1, <2>3, AwaitOnward
    <3> QED BY <2>2, <3>1
  <2>4. CASE Return("app", "error")
    BY <2>2, <2>4 DEF Return, Onward
  <2> QED BY <2>2, <2>3, <2>4
<1>3. ASSUME NEW s \in Services, get_service_ticket(s)
      PROVE  Onward /\ task' = task /\ Free /\ UNCHANGED <<now, creds, caches>>
  <2> DEFINE x == service_tickets[s]
             y == tgt_sessions[RealmOf[s]]
  <2>1. Plain(x) /\ Plain(y)
    BY RealmAssumption DEF PlainInv
  <2>2. ~ Renewable(x) /\ ~ Renewable(y)
    BY <2>1, NeverRenewable
  <2>3. /\ UNCHANGED <<now, creds, caches>> /\ Free
        /\ \/ Return("app", "ok")
           \/ TgtFor("app", "get_service_ticket", s)
    BY <1>3, <2>2 DEF get_service_ticket
  <2>4. CASE Return("app", "ok")
    BY <2>3, <2>4 DEF Return, Onward
  <2>5. CASE TgtFor("app", "get_service_ticket", s)
    <3>1. \/ Await("app", "get_service_ticket", "tgs", RealmOf[s], s, y)
          \/ Proceed("app", "get_service_ticket", s, ensure_tgt_next)
      BY <2>2, <2>5 DEF TgtFor
    <3> HIDE DEF y
    <3>2. CASE Await("app", "get_service_ticket", "tgs", RealmOf[s], s, y)
      <4>1. Onward /\ task' = task
        BY ONLY <2>1, <3>2, AwaitOnward
      <4> QED BY <2>3, <4>1
    <3>3. CASE Proceed("app", "get_service_ticket", s, ensure_tgt_next)
      BY <2>3, <3>3, ProceedOnward
    <3> QED BY <3>1, <3>2, <3>3
  <2> QED BY <2>3, <2>4, <2>5
<1> QED BY <1>1, <1>2, <1>3 DEF AppCall

\* A login gives the primary TGT its full lifetime.
LEMMA LoginTgt ==
    ASSUME TypeOK, TgtInv, PlainInv, Healthy
    PROVE  LET cached == cache_tgt_session_at(NoTgts, tgt, Home, AsTicket(now)) IN
           /\ cached.tgt = AsTicket(now)
           /\ cached.sessions = [NoTgts EXCEPT ![Home] = AsTicket(now)]
<1> DEFINE new == AsTicket(now)
<1>1. now \in Nat /\ Life \in Nat \ {0} /\ Home \in Realms
  BY LifeAssumption, RealmAssumption DEF TypeOK
<1>2. new.start = now /\ new.end = now + Life /\ new \in Session
  BY <1>1, KdcSessions DEF AsTicket
<1>3. preferred_session_at(NoTgts[Home], new, now) = new
  BY <1>1 DEF preferred_session_at, NoTgts
<1>4. preferred_session_at(tgt, new, now) = new
  <2> SUFFICES ASSUME tgt # NoSession, prefer_current_session_at(tgt, new, now)
               PROVE  tgt = new
    BY DEF preferred_session_at
  <2>1. /\ tgt \in Session /\ tgt.end \in Nat /\ tgt.start \in Nat
        /\ tgt.auth = tgt.start /\ tgt.end = tgt.start + Life /\ tgt.start <= now
    BY DEF TypeOK, MaybeSession, Session, TgtInv, Have
  <2>2. session_valid_at(new, now)
    BY <1>1, <1>2 DEF session_valid_at
  <2>3. tgt.end >= now + Life
    BY <1>2, <2>2 DEF prefer_current_session_at
  <2>4. tgt.start = now /\ tgt.end = now + Life /\ tgt.auth = now
    BY <1>1, <2>1, <2>3
  <2>5. tgt = [auth |-> tgt.auth, start |-> tgt.start, end |-> tgt.end, renew |-> tgt.renew]
    BY <2>1 DEF Session
  <2>6. tgt.renew = NoRenew /\ new = [auth |-> now, start |-> now, end |-> now + Life,
                                      renew |-> NoRenew]
    BY DEF PlainInv, Plain, Have, Healthy, AsTicket
  <2> QED BY <2>4, <2>5, <2>6
<1> HIDE DEF new
<1>5. cache_tgt_session_at(NoTgts, tgt, Home, new)
        = [tgt |-> new, sessions |-> [NoTgts EXCEPT ![Home] = new]]
  BY <1>3, <1>4 DEF cache_tgt_session_at
<1> QED BY <1>5 DEF new

\* What a reply comes to: only a login changes the primary TGT, and only it is
\* followed by another exchange.
Answered ==
    /\ Onward
    /\ call.kind = "login" \/ call' = Idle
    /\ tgt' = IF call.kind = "login" THEN AsTicket(now) ELSE tgt
    /\ IF call.by = "task" THEN call' = Idle /\ task'.phase = "plan" ELSE task' = task

\* The caches hold nothing that can be renewed.
PlainCaches ==
    /\ \A r \in Realms : Plain(tgt_sessions[r])
    /\ \A s \in Services : Plain(service_tickets[s])
    /\ Plain(tgt)

LEMMA PlainPreferred ==
    ASSUME NEW c, NEW s, NEW t, Plain(c), Plain(s)
    PROVE  Plain(preferred_session_at(c, s, t))
  BY DEF preferred_session_at

LEMMA LoginAnswered ==
    ASSUME IInv, PromptInv, Healthy, LoginReply(now)
    PROVE  Answered /\ PlainCaches'
<1>1. TypeOK /\ TgtInv /\ PlainInv /\ PaceInv /\ TaskOwnsItsCall
  BY DEF IInv, PromptInv
<1>2. PICK cached : cached = cache_tgt_session_at(NoTgts, tgt, Home, AsTicket(now))
  OBVIOUS
<1>3. cached.tgt = AsTicket(now) /\ cached.sessions = [NoTgts EXCEPT ![Home] = AsTicket(now)]
  BY <1>1, <1>2, LoginTgt
<1>4. Plain(AsTicket(now)) /\ Plain(NoSession)
  BY DEF Plain, AsTicket, Healthy, Have
<1>5. /\ call.kind = "login" /\ tgt' = AsTicket(now)
      /\ tgt_sessions' = [NoTgts EXCEPT ![Home] = AsTicket(now)]
      /\ service_tickets' = NoTickets
      /\ WithTgt(call.by, call.method, call.goal, AsTicket(now))
  BY <1>2, <1>3 DEF LoginReply
<1>6. PlainCaches'
  <2>1. \A r \in Realms : tgt_sessions'[r] \in {AsTicket(now), NoSession}
    BY <1>5, RealmAssumption DEF NoTgts
  <2>2. \A s \in Services : service_tickets'[s] = NoSession
    BY <1>5 DEF NoTickets
  <2> QED BY <1>4, <1>5, <2>1, <2>2 DEF PlainCaches, Plain, Have
<1>7. /\ Onward /\ (call.by # "task" => task' = task)
      /\ call.goal = NoGoal => Return(call.by, "ok")
  BY <1>4, <1>5, WithTgtOnward
<1>8. CASE call.by = "task"
  <2>1. call.goal = NoGoal
    BY <1>1, <1>8 DEF PaceInv, TaskOwnsItsCall
  <2>2. call' = Idle /\ task'.phase = "plan"
    BY <1>7, <1>8, <2>1 DEF Return
  <2> QED BY <1>5, <1>6, <1>7, <1>8, <2>2 DEF Answered
<1>9. CASE call.by # "task"
  BY <1>5, <1>6, <1>7, <1>9 DEF Answered
<1> QED BY <1>8, <1>9

LEMMA ReplyAnswered ==
    ASSUME IInv, PromptInv, Healthy, KdcReply
    PROVE  Answered /\ PlainCaches' /\ call.kind # "idle"
<1>1. /\ TypeOK /\ PlainInv /\ PaceInv /\ PlainCall(call) /\ TaskOwnsItsCall
      /\ CallWellFormed /\ now \in Nat
  BY DEF IInv, PromptInv, TypeOK
<1>2. PICK t \in KdcTimes :
          \/ LoginReply(t) \/ RenewReply(t) \/ RenewCachedReply(t)
          \/ RenewTicketReply(t) \/ TgsReply(t) \/ S4UReply(t)
  BY DEF KdcReply
<1>3. t = now
  BY <1>1, <1>2 DEF KdcTimes, Healthy
<1>4. Plain(call.session) /\ (call.kind \notin {"idle", "login"} => Have(call.session))
  BY <1>1, SessionIsSomething DEF PlainInv, CallWellFormed
<1>5. call.kind \notin {"idle", "login"} => ~ KdcRenews(call.session, t)
  BY <1>4, NeverRenewable
<1>6. CASE LoginReply(t)
  BY <1>3, <1>6, LoginAnswered DEF LoginReply
<1>7. CASE RenewReply(t) \/ RenewCachedReply(t) \/ RenewTicketReply(t)
  BY <1>5, <1>7 DEF RenewReply, RenewCachedReply, RenewTicketReply
<1>8. ASSUME call.kind \in {"tgs", "s4u"}, Return(call.by, "ok"), tgt' = tgt
      PROVE  Answered
  <2>1. call.by # "task"
    BY <1>1, <1>8 DEF PaceInv, TaskOwnsItsCall
  <2> QED BY <1>8, <2>1 DEF Return, Answered, Onward
<1>9. CASE TgsReply(t)
  <2>1. PICK realm, ticket : realm = RealmOf[call.goal] /\ ticket = TgsTicket(call.session, t)
    OBVIOUS
  <2>2. PICK cached : cached = cache_tgt_session_at(tgt_sessions, tgt, realm, ticket)
    OBVIOUS
  <2>3. call.kind = "tgs" /\ call.goal \in Services /\ realm \in Realms
    BY <1>1, <1>9, <2>1, RealmAssumption DEF TgsReply, CallWellFormed
  <2>4. call.session \in Session
    BY <1>1, <2>3 DEF CallWellFormed
  <2>5. ticket.renew = call.session.renew
    BY <2>1, <2>4 DEF TgsTicket, Session
  <2>6. Plain(ticket)
    BY <1>4, <2>3, <2>5 DEF Plain
  <2>7. /\ \/ call.realm = realm /\ UNCHANGED <<tgt, tgt_sessions>>
           \/ call.realm # realm /\ tgt' = cached.tgt /\ tgt_sessions' = cached.sessions
        /\ CacheTicket(call.goal, ticket)
        /\ Return(call.by, "ok")
    BY <1>9, <2>1, <2>2 DEF TgsReply
  <2>8. tgt' = tgt /\ \A r \in Realms : Plain(tgt_sessions'[r])
    <3>1. CASE UNCHANGED <<tgt, tgt_sessions>>
      BY <1>1, <3>1 DEF PlainInv
    <3>2. CASE call.realm # realm /\ tgt' = cached.tgt /\ tgt_sessions' = cached.sessions
      <4>1. realm # Home
        BY <1>1, <2>1, <2>3, <3>2 DEF PlainCall
      <4>2. PICK selected : selected = preferred_session_at(tgt_sessions[realm], ticket, now)
        OBVIOUS
      <4>3. Plain(selected)
        BY <1>1, <2>3, <2>6, <4>2, PlainPreferred DEF PlainInv
      <4>4. tgt' = tgt /\ tgt_sessions' = [tgt_sessions EXCEPT ![realm] = selected]
        BY <2>2, <3>2, <4>1, <4>2 DEF cache_tgt_session_at
      <4> QED BY <1>1, <4>3, <4>4 DEF PlainInv, TypeOK
    <3> QED BY <2>7, <3>1, <3>2
  <2>9. \A s \in Services : Plain(service_tickets'[s])
    <3>1. PICK selected :
             selected = preferred_session_at(service_tickets[call.goal], ticket, now)
      OBVIOUS
    <3>2. Plain(selected)
      BY <1>1, <2>3, <2>6, <3>1, PlainPreferred DEF PlainInv
    <3>3. service_tickets' = [service_tickets EXCEPT ![call.goal] = selected]
      BY <2>7, <3>1 DEF CacheTicket
    <3> QED BY <1>1, <3>2, <3>3 DEF PlainInv, TypeOK
  <2>10. PlainCaches'
    BY <1>1, <2>8, <2>9 DEF PlainCaches, PlainInv, Plain, Have
  <2> QED BY <1>8, <2>3, <2>7, <2>8, <2>10
<1>10. CASE S4UReply(t)
  <2>1. call.kind = "s4u" /\ Return(call.by, "ok") /\ UNCHANGED <<tgt, tgt_sessions, service_tickets>>
    BY <1>10 DEF S4UReply, caches
  <2>2. PlainCaches'
    BY <1>1, <2>1 DEF PlainCaches, PlainInv, Plain, Have
  <2> QED BY <1>8, <2>1, <2>2
<1> QED BY <1>2, <1>6, <1>7, <1>9, <1>10

\* The KDC only has to refuse what the application asks for.
LEMMA FailureAnswered ==
    ASSUME IInv, PromptInv, Healthy, MustRefuse, KdcFailure
    PROVE  /\ call' = Idle /\ task' = task /\ call.kind # "idle"
           /\ task.phase # "refreshing" /\ UNCHANGED <<now, creds, caches>>
<1>1. /\ PaceInv /\ PlainCall(call) /\ TaskOwnsItsCall /\ now \in Nat
  BY DEF IInv, PromptInv, TypeOK
<1>2. now \in KdcTimes
  BY <1>1 DEF KdcTimes, Healthy
<1>3. call.kind # "login"
  BY <1>2 DEF MustRefuse
<1>4. call.by # "task" /\ task.phase # "refreshing"
  BY <1>1, <1>3 DEF PaceInv, TaskOwnsItsCall
<1>5. Return(call.by, "error") /\ call.kind # "idle" /\ UNCHANGED <<now, creds, caches>>
  BY <1>1 DEF KdcFailure, PlainCall
<1> QED BY <1>4, <1>5 DEF Return

LEMMA OnwardPlain ==
    ASSUME Onward, creds', PlainCaches'
    PROVE  PlainInv' /\ PlainCall(call')
<1>1. call' = Idle => call'.session = NoSession /\ call'.kind = "idle"
  BY DEF Idle
<1>2. Plain(call'.session) /\ PlainCall(call')
  BY <1>1 DEF Onward, Plain, Have, PlainCall
<1> QED BY <1>2 DEF PlainInv, PlainCaches, Plain, Have

LEMMA SameCaches ==
    ASSUME PlainInv, UNCHANGED caches
    PROVE  PlainCaches' /\ UNCHANGED <<tgt, tgt_sessions, service_tickets>>
  BY DEF PlainInv, PlainCaches, caches, Plain, Have

\* A step of the healthy environment keeps the invariant and the TGT, and a
\* refresh of the task leaves one.
PromptKept ==
    /\ PromptInv'
    /\ Have(tgt) => Have(tgt')
    /\ task.phase \in {"ready", "refreshing"} /\ task'.phase = "plan" => Have(tgt')

LEMMA PromptTypes ==
    ASSUME IInv, PromptInv, Healthy
    PROVE  /\ now \in Nat /\ MaxExchange \in Nat /\ Window \in Nat /\ Window < Life
           /\ Life \in Nat /\ 2 * MaxExchange < Window
           /\ call.waited \in 0 .. MaxExchange /\ task.wake \in Int
           /\ Have(tgt) => tgt.end \in Nat /\ tgt.start \in Nat
<1>1. Life \in Nat \ {0} /\ MaxExchange \in Nat
  BY LifeAssumption
<1>2. Window \in Nat /\ Window < Life
  BY <1>1 DEF Window, SESSION_REFRESH_DIVISOR
<1>3. now \in Nat /\ call.waited \in 0 .. MaxExchange /\ task.wake \in Int
  BY DEF IInv, TypeOK, Calls
<1>4. Have(tgt) => tgt.end \in Nat /\ tgt.start \in Nat
  BY DEF IInv, TypeOK, MaybeSession, Session, Have
<1> QED BY <1>1, <1>2, <1>3, <1>4 DEF Healthy

LEMMA AppPrompt ==
    ASSUME IInv, PromptInv, Healthy, ~ TaskWaiting, AppCall
    PROVE  PromptKept
<1>1. PlainInv /\ TgtInv /\ PaceInv /\ CallInv
  BY InvParts DEF PromptInv
<1>2. Onward /\ task' = task /\ Free /\ UNCHANGED <<now, creds, caches>>
  BY <1>1, AppCallOnward
<1>3. task.phase = "sleep"
  BY <1>1, <1>2, FreeClient DEF PaceInv, TaskWaiting
<1>4. PlainCaches' /\ tgt' = tgt /\ now' = now /\ creds'
  BY <1>1, <1>2, SameCaches DEF PlainInv
<1>5. PlainInv' /\ PlainCall(call')
  BY <1>2, <1>4, OnwardPlain
<1>6. TgtInv' /\ PaceInv'
  BY <1>1, <1>2, <1>3, <1>4 DEF TgtInv, PaceInv, Have
<1> QED BY <1>2, <1>3, <1>4, <1>5, <1>6 DEF PromptKept, PromptInv

LEMMA PrunePrompt ==
    ASSUME IInv, PromptInv, Healthy, ~ TaskWaiting, prune_unusable_sessions
    PROVE  PromptKept
<1>1. PlainInv /\ TgtInv /\ PaceInv /\ CallInv /\ PlainCall(call)
  BY InvParts DEF PromptInv
<1>2. /\ Free /\ UNCHANGED <<now, creds, call, task>> /\ tgt' = Kept(tgt)
      /\ tgt_sessions' = [r \in Realms |-> Kept(tgt_sessions[r])]
      /\ service_tickets' = [s \in Services |-> Kept(service_tickets[s])]
  BY DEF prune_unusable_sessions
<1>3. task.phase = "sleep"
  BY <1>1, <1>2, FreeClient DEF PaceInv, TaskWaiting
<1>4. tgt' = tgt
  BY <1>2, PromptValid DEF Kept, Valid, Have, session_usable_at
<1>5. \A s : Plain(s) => Plain(Kept(s))
  BY DEF Plain, Kept, Have
<1>6. PlainInv'
  <2>1. \A r \in Realms : Plain(tgt_sessions'[r])
    BY <1>1, <1>2, <1>5 DEF PlainInv
  <2>2. \A s \in Services : Plain(service_tickets'[s])
    BY <1>1, <1>2, <1>5 DEF PlainInv
  <2> QED BY <1>1, <1>2, <1>4, <2>1, <2>2 DEF PlainInv, Plain, Have
<1>7. TgtInv' /\ PaceInv' /\ PlainCall(call')
  BY <1>1, <1>2, <1>3, <1>4 DEF TgtInv, PaceInv, Have
<1> QED BY <1>2, <1>3, <1>4, <1>6, <1>7 DEF PromptKept, PromptInv

LEMMA ReplyPrompt ==
    ASSUME IInv, PromptInv, Healthy, KdcReply
    PROVE  PromptKept
<1>1. /\ PlainInv /\ TgtInv /\ PaceInv /\ PlainCall(call) /\ TaskOwnsItsCall
      /\ CallWellFormed
  BY DEF PromptInv, IInv
<1>2. Answered /\ PlainCaches' /\ call.kind # "idle" /\ now' = now /\ creds'
  BY <1>1, ReplyAnswered DEF KdcReply, PlainInv
<1>3. PlainInv' /\ PlainCall(call')
  BY <1>2, OnwardPlain DEF Answered
<1>4. PICK new : new = AsTicket(now)
  OBVIOUS
<1>5. /\ new.auth = now /\ new.start = now /\ new.end = now + Life /\ Have(new)
  BY <1>4, PromptTypes, KdcSessions, SessionIsSomething DEF AsTicket
<1>6. tgt' = IF call.kind = "login" THEN new ELSE tgt
  BY <1>2, <1>4 DEF Answered
<1>7. TgtInv' /\ (Have(tgt) => Have(tgt'))
  BY <1>1, <1>2, <1>5, <1>6, PromptTypes DEF TgtInv, Have
<1>8. ~ Free
  BY <1>1, <1>2 DEF Free, CallWellFormed
<1>9. CASE call.by = "task"
  <2>1. call.kind = "login" /\ call' = Idle /\ task'.phase = "plan"
    BY <1>1, <1>2, <1>9 DEF Answered, PaceInv, TaskOwnsItsCall
  <2>2. tgt' = new /\ Free'
    BY <1>6, <2>1 DEF Free, Idle
  <2>3. PaceInv' /\ Have(tgt')
    BY <1>2, <1>5, <2>1, <2>2, PromptTypes DEF PaceInv, Left, Have
  <2> QED BY <1>3, <1>7, <2>3 DEF PromptKept, PromptInv
<1>10. CASE call.by # "task"
  <2>1. task' = task /\ task.phase \in {"sleep", "ready"}
    BY <1>1, <1>2, <1>8, <1>10 DEF Answered, PaceInv, TaskOwnsItsCall
  <2>2. call' # Idle => call.kind = "login" /\ call'.waited = 0
    BY <1>2 DEF Answered, Onward
  <2>3. Have(tgt) /\ Have(tgt')
    BY <1>1, <1>7, <1>8, <2>1 DEF PaceInv
  <2>4. CASE call.kind = "login"
    <3>1. tgt' = new
      BY <1>6, <2>4
    <3>2. ASSUME task.phase = "sleep" PROVE PaceInv'
      <4>1. tgt.end <= new.end
        BY <1>1, <1>5, <2>3, PromptTypes DEF TgtInv
      <4> QED BY <1>1, <1>2, <1>5, <2>1, <2>3, <3>1, <3>2, <4>1, PromptTypes DEF PaceInv
    <3>3. ASSUME task.phase = "ready" PROVE PaceInv'
      <4>1. call'.waited = 0 \/ call' = Idle
        BY <2>2
      <4>2. Left(Window)' /\ Left(Window - MaxExchange)' /\ (Free' <=> call' = Idle)
        BY <1>2, <1>5, <3>1, PromptTypes DEF Left, Free, Idle
      <4>3. Window - 0 = Window
        BY PromptTypes
      <4> QED BY <2>1, <2>2, <2>3, <3>3, <4>2, <4>3 DEF PaceInv, Left
    <3>4. PaceInv'
      BY <2>1, <3>2, <3>3
    <3> QED BY <1>3, <1>7, <2>1, <2>3, <3>4 DEF PromptKept, PromptInv
  <2>5. CASE call.kind # "login"
    <3>1. tgt' = tgt /\ call' = Idle /\ Free'
      BY <1>6, <2>2, <2>5 DEF Free, Idle
    <3>2. ASSUME task.phase = "sleep" PROVE PaceInv'
      BY <1>1, <1>2, <2>1, <2>3, <3>1, <3>2 DEF PaceInv
    <3>3. ASSUME task.phase = "ready" PROVE PaceInv'
      <4>1. Left(Window - MaxExchange)'
        BY <1>1, <1>2, <1>8, <2>3, <3>1, <3>3, PromptTypes DEF PaceInv, Left
      <4> QED BY <2>1, <3>1, <3>3, <4>1 DEF PaceInv, Left
    <3>4. PaceInv'
      BY <2>1, <3>2, <3>3
    <3> QED BY <1>3, <1>7, <2>1, <2>3, <3>4 DEF PromptKept, PromptInv
  <2> QED BY <2>4, <2>5
<1> QED BY <1>9, <1>10

LEMMA FailurePrompt ==
    ASSUME IInv, PromptInv, Healthy, MustRefuse, KdcFailure
    PROVE  PromptKept
<1>1. /\ PlainInv /\ TgtInv /\ PaceInv /\ CallWellFormed
  BY DEF PromptInv, IInv
<1>2. /\ call' = Idle /\ task' = task /\ call.kind # "idle"
      /\ task.phase # "refreshing" /\ UNCHANGED <<now, creds, caches>>
  BY FailureAnswered
<1>3. PlainCaches' /\ tgt' = tgt /\ now' = now /\ creds'
  BY <1>1, <1>2, SameCaches DEF PlainInv
<1>4. PlainInv' /\ PlainCall(call')
  BY <1>2, <1>3, OnwardPlain DEF Onward
<1>5. ~ Free /\ Free'
  BY <1>1, <1>2 DEF Free, CallWellFormed, Idle
<1>6. TgtInv'
  BY <1>1, <1>3 DEF TgtInv, Have
<1>7. CASE task.phase = "sleep"
  <2>1. PaceInv'
    BY <1>1, <1>2, <1>3, <1>7 DEF PaceInv, Have
  <2> QED BY <1>2, <1>3, <1>4, <1>6, <1>7, <2>1 DEF PromptKept, PromptInv
<1>8. CASE task.phase = "ready"
  <2>1. Have(tgt) /\ Left(Window - MaxExchange)'
    BY <1>1, <1>3, <1>5, <1>8, PromptTypes DEF PaceInv, Left
  <2>2. PaceInv'
    BY <1>2, <1>3, <1>5, <1>8, <2>1 DEF PaceInv, Left, Have
  <2> QED BY <1>2, <1>3, <1>4, <1>6, <1>8, <2>2 DEF PromptKept, PromptInv
<1> QED BY <1>1, <1>2, <1>5, <1>7, <1>8 DEF PaceInv

LEMMA TaskPrompt ==
    ASSUME IInv, PromptInv, Healthy, Task
    PROVE  PromptKept
<1>1. PlainInv /\ TgtInv /\ PaceInv /\ PlainCall(call) /\ TypeOK /\ TaskOwnsItsCall
      /\ CallWellFormed
  BY DEF PromptInv, IInv
<1>2. UNCHANGED <<now, creds, caches>>
  BY DEF Task, TaskPlan, TaskWake, TaskRefresh
<1>3. PlainCaches' /\ tgt' = tgt /\ now' = now /\ creds'
  BY <1>1, <1>2, SameCaches DEF PlainInv
<1>4. TgtInv' /\ (Have(tgt) => Have(tgt'))
  BY <1>1, <1>3 DEF TgtInv, Have
<1>5. ASSUME call' = call PROVE PlainInv' /\ PlainCall(call')
  BY <1>1, <1>3, <1>5 DEF PlainInv, PlainCaches, Plain, Have
<1>6. CASE TaskPlan
  <2>1. call' = call /\ Free /\ Free' /\ task.phase = "plan"
    BY <1>6 DEF TaskPlan, Free, Idle
  <2>2. Have(tgt) => ~ Due(tgt) /\ RefreshAt(tgt) = tgt.end - Window
    BY <1>1, <2>1, DueInWindow DEF PaceInv
  <2>3. CASE Have(tgt)
    <3>1. task' = [phase |-> "sleep", wake |-> tgt.end - Window]
      BY <1>6, <2>2, <2>3 DEF TaskPlan
    <3>2. now <= tgt.end - Window
      BY <1>1, <2>1, <2>3, PromptTypes DEF PaceInv, Left
    <3>3. PaceInv'
      BY <1>3, <2>3, <3>1, <3>2, PromptTypes DEF PaceInv
    <3> QED BY <1>4, <1>5, <2>1, <3>1, <3>3 DEF PromptKept, PromptInv
  <2>4. CASE ~ Have(tgt)
    <3>1. task' = [phase |-> "ready", wake |-> 0]
      BY <1>6, <2>4 DEF TaskPlan
    <3>2. PaceInv'
      BY <1>3, <2>1, <2>4, <3>1 DEF PaceInv
    <3> QED BY <1>4, <1>5, <2>1, <3>1, <3>2 DEF PromptKept, PromptInv
  <2> QED BY <2>3, <2>4
<1>7. CASE TaskWake
  <2>1. call' = call /\ (Free' <=> Free) /\ task.phase = "sleep" /\ now >= task.wake
        /\ task' = [phase |-> "ready", wake |-> 0]
    BY <1>1, <1>7 DEF TaskWake, Free, Idle, PaceInv
  <2>2. Have(tgt) /\ now <= tgt.end - Window
    BY <1>1, <2>1, PromptTypes DEF PaceInv
  <2>3. Left(Window - MaxExchange)' /\ Left(Window - call.waited)'
    BY <1>3, <2>1, <2>2, PromptTypes DEF Left
  <2>4. PaceInv'
    BY <1>3, <2>1, <2>2, <2>3 DEF PaceInv, Left, Have
  <2> QED BY <1>4, <1>5, <2>1, <2>4 DEF PromptKept, PromptInv
<1>8. CASE TaskRefresh
  <2>1. /\ task.phase = "ready" /\ Free
        /\ Proceed("task", "refresh_tgt_if_needed", NoGoal, ensure_tgt_next)
    BY <1>1, <1>8 DEF TaskRefresh, PlainInv
  <2>2. Onward
    BY <1>1, <2>1, ProceedOnward
  <2>3. PlainInv' /\ PlainCall(call')
    BY <1>3, <2>2, OnwardPlain
  <2>4. ~ Renewable(tgt) /\ creds
    BY <1>1, NeverRenewable DEF PlainInv
  <2>5. CASE Valid(tgt) /\ ~ Due(tgt)
    <3>1. Return("task", "ok")
      BY <2>1, <2>5, RealmAssumption DEF Proceed, ensure_tgt_next, WithTgt
    <3>2. call' = Idle /\ task' = [phase |-> "plan", wake |-> 0] /\ Free'
      BY <3>1 DEF Return, Free, Idle
    <3>3. Have(tgt) /\ Left(Window + 1)
      BY <1>1, <2>5, DueInWindow DEF Valid
    <3>4. PaceInv'
      BY <1>3, <3>2, <3>3 DEF PaceInv, Left, Have
    <3> QED BY <1>3, <1>4, <2>3, <3>3, <3>4 DEF PromptKept, PromptInv
  <2>6. CASE ~ (Valid(tgt) /\ ~ Due(tgt))
    <3>1. Await("task", "refresh_tgt_if_needed", "login", Home, NoGoal, NoSession)
      BY <2>1, <2>4, <2>6 DEF Proceed, ensure_tgt_next
    <3>2. /\ call'.kind = "login" /\ call'.goal = NoGoal /\ call'.waited = 0
          /\ task' = [phase |-> "refreshing", wake |-> 0]
      BY <3>1 DEF Await
    <3>3. Have(tgt) => tgt.end - now >= Window - MaxExchange - 0
      BY <1>1, <2>1, PromptTypes DEF PaceInv, Left
    <3>4. PaceInv'
      BY <1>3, <3>2, <3>3 DEF PaceInv, Left, Have
    <3> QED BY <1>3, <1>4, <2>3, <3>2, <3>4 DEF PromptKept, PromptInv
  <2> QED BY <2>5, <2>6
<1> QED BY <1>6, <1>7, <1>8 DEF Task

LEMMA TickPrompt ==
    ASSUME IInv, PromptInv, Healthy, PromptTick
    PROVE  PromptKept
<1>1. PlainInv /\ TgtInv /\ PaceInv /\ PlainCall(call) /\ TypeOK /\ TaskOwnsItsCall
      /\ CallWellFormed /\ call \in Calls
  BY DEF PromptInv, IInv, TypeOK
<1>2. /\ now' = now + 1 /\ creds' = creds /\ task' = task /\ UNCHANGED caches
      /\ call' = IF Free \/ call.waited = MaxExchange THEN call
                 ELSE [call EXCEPT !.waited = @ + 1]
      /\ TaskWaiting => ~ Free /\ task.phase \in {"plan", "ready"}
      /\ ~ Free => call.waited < MaxExchange
  <2>1. now' = now + 1
    <3>1. now \in Nat /\ Instants \subseteq Nat
      BY <1>1, LifeAssumption DEF TypeOK
    <3>2. CASE now' \in Later /\ \A n \in Later : now' <= n
      <4>1. now' \in Instants \ {0} /\ now' > now
        BY <3>1, <3>2 DEF Later
      <4>2. now' - 1 \in Instants
        BY <4>1 DEF Healthy
      <4> QED BY <3>1, <3>2, <4>1, <4>2 DEF Later
    <3> QED BY <3>2 DEF PromptTick, Tick
  <2> QED BY <2>1 DEF PromptTick, Tick
<1>3. /\ PlainCaches' /\ tgt' = tgt
  BY <1>1, <1>2, SameCaches
<1>4. /\ call'.kind = call.kind /\ call'.realm = call.realm /\ call'.goal = call.goal
      /\ call'.session = call.session /\ call'.by = call.by
      /\ Free => call' = call
      /\ ~ Free => call'.waited = call.waited + 1
  BY <1>1, <1>2, PromptTypes DEF Calls
<1>5. (Free' <=> Free)
  BY <1>1, <1>2, <1>4 DEF Free, CallWellFormed, Idle
<1>6. PlainInv' /\ PlainCall(call') /\ TgtInv'
  BY <1>1, <1>2, <1>3, <1>4, PromptTypes
     DEF PlainInv, PlainCaches, Plain, PlainCall, TgtInv, Have
<1>7. PaceInv'
  <2>1. CASE task.phase = "plan"
    BY <1>1, <1>2, <2>1 DEF PaceInv, TaskWaiting
  <2>2. CASE task.phase = "sleep"
    <3>1. Have(tgt) /\ now < task.wake /\ task.wake <= tgt.end - Window
      BY <1>1, <1>2, <2>2, PromptTypes DEF PaceInv, TaskWaiting
    <3> QED BY <1>2, <1>3, <2>2, <3>1, PromptTypes DEF PaceInv, Have
  <2>3. CASE task.phase = "ready"
    <3>1. ~ Free /\ Have(tgt) /\ tgt.end - now >= Window - call.waited
      BY <1>1, <1>2, <2>3 DEF PaceInv, TaskWaiting, Left
    <3>2. tgt'.end - now' >= Window - call'.waited
      BY <1>2, <1>3, <1>4, <3>1, PromptTypes
    <3> QED BY <1>2, <1>3, <1>5, <2>3, <3>1, <3>2 DEF PaceInv, Left, Have
  <2>4. CASE task.phase = "refreshing"
    <3>1. ~ Free
      BY <1>1, <2>4 DEF TaskOwnsItsCall, CallWellFormed, Free
    <3>2. Have(tgt) => tgt'.end - now' >= Window - MaxExchange - call'.waited
      BY <1>1, <1>2, <1>3, <1>4, <2>4, <3>1, PromptTypes DEF PaceInv, Left
    <3> QED BY <1>1, <1>2, <1>3, <1>4, <2>4, <3>2 DEF PaceInv, Left, Have
  <2> QED BY <1>1, <2>1, <2>2, <2>3, <2>4 DEF PaceInv
<1> QED BY <1>2, <1>3, <1>6, <1>7 DEF PromptKept, PromptInv

\* The steps of the healthy environment are steps of the client.
LEMMA PromptIsNext == PromptNext => Next
  BY DEF PromptNext, PromptTick, Next

LEMMA StepPrompt ==
    IInv /\ PromptInv /\ Healthy /\ [PromptNext]_vars
        => IInv' /\ PromptInv' /\ (PromptNext => PromptKept)
<1> SUFFICES ASSUME IInv, PromptInv, Healthy, [PromptNext]_vars
             PROVE  IInv' /\ PromptInv' /\ (PromptNext => PromptKept)
  OBVIOUS
<1>1. IInv'
  BY PromptIsNext, StepIInv
<1>2. CASE PromptNext
  <2>1. PromptKept
    BY <1>2, AppPrompt, PrunePrompt, ReplyPrompt, FailurePrompt, TaskPrompt, TickPrompt
       DEF PromptNext
  <2> QED BY <1>1, <2>1 DEF PromptKept
<1>3. CASE UNCHANGED vars /\ ~ PromptNext
  BY <1>1, <1>3 DEF vars, PromptInv, PlainInv, TgtInv, PlainCall, PaceInv, Plain, Have,
                    Left, Free, Idle
<1> QED BY <1>2, <1>3

LEMMA InitPrompt == InitWith({TRUE}, "plan") => IInv /\ PromptInv
<1> SUFFICES ASSUME InitWith({TRUE}, "plan") PROVE IInv /\ PromptInv
  OBVIOUS
<1>1. /\ tgt = NoSession /\ tgt_sessions = NoTgts /\ service_tickets = NoTickets
      /\ call = Idle /\ task = [phase |-> "plan", wake |-> 0] /\ now = 0 /\ creds = TRUE
  BY DEF InitWith
<1>2. /\ Idle \in Calls /\ Idle.by = "none" /\ Idle.kind = "idle" /\ Idle.session = NoSession
      /\ NoSession \in MaybeSession /\ Home \in Realms
  BY LifeAssumption, RealmAssumption
     DEF Idle, Calls, Methods, Kinds, Goals, MaybeSession
<1>3. TypeOK
  BY <1>1, <1>2 DEF TypeOK, NoTgts, NoTickets, Phases
<1>4. PrimaryMirrored /\ CallWellFormed /\ TaskOwnsItsCall
  BY <1>1, <1>2 DEF PrimaryMirrored, NoTgts, CallWellFormed, TaskOwnsItsCall
<1>5. PromptInv
  BY <1>1, <1>2 DEF PromptInv, PlainInv, Plain, Have, NoTgts, NoTickets, TgtInv, PlainCall,
                    PaceInv, Free
<1> QED BY <1>1, <1>3, <1>4, <1>5 DEF IInv

\* While the task runs next to a healthy KDC the primary TGT never lapses: with
\* tickets that cannot be renewed, clocks in step and exchanges that take less
\* than half of the refresh window, the task logs in before the end, whatever
\* the application's own calls do to the lock and the caches.
THEOREM TicketsAreKept ==
    ASSUME RenewLife = 0, KdcAhead = 0, \A n \in Instants \ {0} : n - 1 \in Instants,
           2 * MaxExchange < Life \div SESSION_REFRESH_DIVISOR
    PROVE  PromptSpec => KeptAlive
<1>1. Healthy
  BY DEF Healthy, Window
<1>2. IInv /\ PromptInv /\ [PromptNext]_vars => IInv' /\ PromptInv'
  BY <1>1, StepPrompt
<1>3. IInv /\ PromptInv /\ Have(tgt) => Valid(tgt)
  BY <1>1, PromptValid
<1>4. IInv /\ PromptInv /\ [PromptNext]_vars => [Valid(tgt) => Have(tgt)']_vars
  <2> SUFFICES ASSUME IInv, PromptInv, PromptNext, Valid(tgt) PROVE Have(tgt)'
    BY DEF vars
  <2> QED BY <1>1, StepPrompt DEF PromptKept, Valid, Have
<1> QED BY <1>2, <1>3, <1>4, InitPrompt, PTL DEF PromptSpec, KeptAlive

-----------------------------------------------------------------------------
(* Entries of a keytab.                                                     *)

EntryRecords ==
    [principal : Seq(Text), realm : Text, name_type : Int, timestamp : Int, kvno8 : Int,
     etype : Int, key : Int, kvno : Int]

\* One more cell.
Longer(s, x, t) ==
    /\ t \in Seq(Cell) /\ Len(t) = Len(s) + 1 /\ t[Len(s) + 1] = x
    /\ \A i \in 1 .. Len(s) : t[i] = s[i]

\* A sequence with a cell appended.
LEMMA OneLonger ==
    ASSUME NEW s \in Seq(Cell), NEW x \in Cell
    PROVE  Longer(s, x, s \o <<x>>)
<1>1. <<x>> \in Seq(Cell) /\ Len(<<x>>) = 1 /\ <<x>>[1] = x
  BY OneCell
<1>2. PICK y, t : y = <<x>> /\ t = s \o y
  OBVIOUS
<1>3. /\ t \in Seq(Cell) /\ Len(t) = Len(s) + Len(y) /\ Len(s) \in Nat
      /\ \A i \in 1 .. Len(s) : t[i] = s[i]
      /\ \A i \in 1 .. Len(y) : t[Len(s) + i] = y[i]
  <2>1. y \in Seq(Cell)
    BY <1>1, <1>2
  <2> QED
    BY ONLY <1>2, <2>1, s \in Seq(Cell), ConcatFacts
<1>4. t[Len(s) + 1] = x
  BY <1>1, <1>2, <1>3
<1>5. Longer(s, x, t)
  BY <1>1, <1>2, <1>3, <1>4 DEF Longer
<1> QED
  BY <1>2, <1>5

\* The cells of an entry behind its length.
EntryBody(e, version) ==
    write_principal(e, version)
    \o IntCell(e.timestamp) \o IntCell(e.kvno8) \o IntCell(e.etype) \o DataCell(e.key) \o IntCell(e.kvno)
NameCells(version) == IF version = 1 THEN 0 ELSE 1

IsBody(body, e, version, n, z) ==
    /\ n = Len(e.principal) /\ n \in Nat /\ z = NameCells(version) /\ z \in 0 .. 1
    /\ body \in Seq(Cell) /\ Len(body) = 7 + n + z
    /\ body[1] = [int |-> n + 1 - z] /\ body[2] = [str |-> e.realm]
    /\ \A i \in 1 .. n : body[2 + i] = [str |-> e.principal[i]]
    /\ z = 1 => body[3 + n] = [int |-> e.name_type]
    /\ body[3 + n + z] = [int |-> e.timestamp] /\ body[4 + n + z] = [int |-> e.kvno8]
    /\ body[5 + n + z] = [int |-> e.etype] /\ body[6 + n + z] = [data |-> e.key]
    /\ body[7 + n + z] = [int |-> e.kvno]

\* The fields of a keytab entry.
LEMMA EntryTypes ==
    ASSUME NEW e \in EntryRecords
    PROVE  /\ e.principal \in Seq(Text) /\ e.realm \in Text /\ e.name_type \in Int /\ e.timestamp \in Int
           /\ e.kvno8 \in Int /\ e.etype \in Int /\ e.key \in Int /\ e.kvno \in Int
           /\ e = [principal |-> e.principal, realm |-> e.realm, name_type |-> e.name_type,
                   timestamp |-> e.timestamp, kvno8 |-> e.kvno8, etype |-> e.etype, key |-> e.key, kvno |-> e.kvno]
  BY DEF EntryRecords

\* The cells of the name.
IsName(cells, e, n, z) ==
    /\ cells \in Seq(Cell) /\ Len(cells) = 2 + n + z
    /\ cells[1] = [int |-> n + 1 - z] /\ cells[2] = [str |-> e.realm]
    /\ \A i \in 1 .. n : cells[2 + i] = [str |-> e.principal[i]]
    /\ z = 1 => cells[3 + n] = [int |-> e.name_type]

\* write_principal writes a count, the realm, the names and, in version 2, the
\* type.
LEMMA NameIsCells ==
    ASSUME NEW e \in EntryRecords, NEW version \in 1 .. 2,
           NEW n, n = Len(e.principal), NEW z, z = NameCells(version)
    PROVE  IsName(write_principal(e, version), e, n, z)
<1>1. n \in Nat /\ z \in 0 .. 1 /\ (version = 1 <=> z = 0) /\ DOMAIN e.principal = 1 .. n
  BY EntryTypes DEF NameCells
<1>2. PICK one, names : /\ one = IntCell(n + 1 - z) \o StrCell(e.realm)
                        /\ names = [i \in 1 .. n |-> [str |-> e.principal[i]]]
  OBVIOUS
<1>3. \A i \in 1 .. n : e.principal[i] \in Text
  BY EntryTypes, <1>1
<1>4. names \in Seq(Cell) /\ Len(names) = n /\ \A i \in 1 .. n : names[i] = [str |-> e.principal[i]]
  <2>1. names \in [1 .. n -> Cell]
    BY <1>2, <1>3, CellKinds
  <2> QED
    BY <1>1, <1>2, <2>1, FunctionIsSeq
<1>5. one \in Seq(Cell) /\ Len(one) = 2 /\ one[1] = [int |-> n + 1 - z] /\ one[2] = [str |-> e.realm]
  <2>1. [int |-> n + 1 - z] \in Cell /\ [str |-> e.realm] \in Cell
    BY <1>1, EntryTypes, CellKinds
  <2>2. IntCell(n + 1 - z) \in Seq(Cell) /\ Len(IntCell(n + 1 - z)) = 1 /\ IntCell(n + 1 - z)[1] = [int |-> n + 1 - z]
    BY <2>1, OneCell DEF IntCell
  <2>3. PICK s : s = IntCell(n + 1 - z)
    OBVIOUS
  <2>4. Longer(s, [str |-> e.realm], one)
    BY <1>2, <2>1, <2>2, <2>3, OneLonger DEF StrCell
  <2> QED
    BY <2>2, <2>3, <2>4 DEF Longer
<1>6. PICK two : two = one \o names
  OBVIOUS
<1>7. /\ two \in Seq(Cell) /\ Len(two) = 2 + n /\ two[1] = one[1] /\ two[2] = one[2]
      /\ \A i \in 1 .. n : two[2 + i] = names[i]
  <2>1. /\ two \in Seq(Cell) /\ Len(two) = Len(one) + Len(names)
        /\ \A i \in 1 .. Len(one) : two[i] = one[i]
        /\ \A i \in 1 .. Len(names) : two[Len(one) + i] = names[i]
    <3>1. one \in Seq(Cell) /\ names \in Seq(Cell)
      BY <1>4, <1>5
    <3> QED
      BY ONLY <1>6, <3>1, ConcatFacts
  <2>2. 1 \in 1 .. 2 /\ 2 \in 1 .. 2
    OBVIOUS
  <2> QED
    BY ONLY <1>4, <1>5, <2>1, <2>2
<1>8. PICK cells : cells = write_principal(e, version)
  OBVIOUS
<1>9. cells = two \o (IF version = 1 THEN <<>> ELSE IntCell(e.name_type))
  <2>1. Len(e.principal) + (IF version = 1 THEN 1 ELSE 0) = n + 1 - z
    <3>1. CASE version = 1
      BY <1>1, <3>1
    <3>2. CASE version # 1
      BY <1>1, <3>2
    <3> QED
      BY <3>1, <3>2
  <2> QED
    BY <1>1, <1>2, <1>6, <1>8, <2>1 DEF write_principal
<1>10. CASE version = 1
  <2>1. cells = two
    BY <1>7, <1>9, <1>10
  <2>2. IsName(two, e, n, z)
    BY <1>1, <1>4, <1>5, <1>7, <1>10 DEF IsName
  <2> QED
    BY <1>8, <2>1, <2>2
<1>11. CASE version # 1
  <2>1. [int |-> e.name_type] \in Cell
    BY EntryTypes, CellKinds
  <2>2. Longer(two, [int |-> e.name_type], cells)
    BY <1>7, <1>9, <1>11, <2>1, OneLonger DEF IntCell
  <2>3. /\ cells \in Seq(Cell) /\ Len(cells) = 2 + n + 1 /\ cells[2 + n + 1] = [int |-> e.name_type]
        /\ \A i \in 1 .. 2 + n : cells[i] = two[i]
    BY <1>7, <2>2 DEF Longer
  <2>4. z = 1 /\ 2 + n + 1 = 3 + n /\ 1 \in 1 .. 2 + n /\ 2 \in 1 .. 2 + n /\ \A i \in 1 .. n : 2 + i \in 1 .. 2 + n
    BY <1>1, <1>11
  <2>5. cells[1] = one[1] /\ cells[2] = one[2] /\ \A i \in 1 .. n : cells[2 + i] = names[i]
    BY <1>7, <2>3, <2>4
  <2>6. IsName(cells, e, n, z)
    BY <1>4, <1>5, <2>3, <2>4, <2>5 DEF IsName
  <2> QED
    BY <1>8, <2>6
<1> QED
  BY <1>10, <1>11

\* EntryBody appends time, key version, enctype, key and the long key version.
LEMMA BodyIsCells ==
    ASSUME NEW e \in EntryRecords, NEW version \in 1 .. 2
    PROVE  IsBody(EntryBody(e, version), e, version, Len(e.principal), NameCells(version))
<1>1. PICK n, z, name : n = Len(e.principal) /\ z = NameCells(version) /\ name = write_principal(e, version)
  OBVIOUS
<1>2. n \in Nat /\ z \in 0 .. 1
  BY <1>1, EntryTypes DEF NameCells
<1>3. IsName(name, e, n, z)
  BY <1>1, NameIsCells
<1>4. PICK a, b, c, d, f : /\ a = name \o IntCell(e.timestamp) /\ b = a \o IntCell(e.kvno8)
                           /\ c = b \o IntCell(e.etype) /\ d = c \o DataCell(e.key) /\ f = d \o IntCell(e.kvno)
  OBVIOUS
<1>5. f = EntryBody(e, version)
  BY <1>1, <1>4 DEF EntryBody
<1>6. PICK m : m = 2 + n + z
  OBVIOUS
<1>7. /\ [int |-> e.timestamp] \in Cell /\ [int |-> e.kvno8] \in Cell /\ [int |-> e.etype] \in Cell
      /\ [data |-> e.key] \in Cell /\ [int |-> e.kvno] \in Cell
  BY EntryTypes, CellKinds
<1>8. name \in Seq(Cell) /\ Len(name) = m /\ m \in Nat
  BY <1>2, <1>3, <1>6 DEF IsName
<1>9. Longer(name, [int |-> e.timestamp], a)
  BY <1>4, <1>7, <1>8, OneLonger DEF IntCell
<1>10. a \in Seq(Cell) /\ Len(a) = m + 1 /\ a[m + 1] = [int |-> e.timestamp] /\ \A i \in 1 .. m : a[i] = name[i]
  BY <1>8, <1>9 DEF Longer
<1>11. Longer(a, [int |-> e.kvno8], b)
  BY <1>4, <1>7, <1>10, OneLonger DEF IntCell
<1>12. b \in Seq(Cell) /\ Len(b) = m + 2 /\ b[m + 2] = [int |-> e.kvno8] /\ \A i \in 1 .. m + 1 : b[i] = a[i]
  <2>1. m + 1 + 1 = m + 2
    BY <1>8
  <2> QED
    BY <1>10, <1>11, <2>1 DEF Longer
<1>13. Longer(b, [int |-> e.etype], c)
  BY <1>4, <1>7, <1>12, OneLonger DEF IntCell
<1>14. c \in Seq(Cell) /\ Len(c) = m + 3 /\ c[m + 3] = [int |-> e.etype] /\ \A i \in 1 .. m + 2 : c[i] = b[i]
  <2>1. m + 2 + 1 = m + 3
    BY <1>8
  <2> QED
    BY <1>12, <1>13, <2>1 DEF Longer
<1>15. Longer(c, [data |-> e.key], d)
  BY <1>4, <1>7, <1>14, OneLonger DEF DataCell
<1>16. d \in Seq(Cell) /\ Len(d) = m + 4 /\ d[m + 4] = [data |-> e.key] /\ \A i \in 1 .. m + 3 : d[i] = c[i]
  <2>1. m + 3 + 1 = m + 4
    BY <1>8
  <2> QED
    BY <1>14, <1>15, <2>1 DEF Longer
<1>17. Longer(d, [int |-> e.kvno], f)
  BY <1>4, <1>7, <1>16, OneLonger DEF IntCell
<1>18. f \in Seq(Cell) /\ Len(f) = m + 5 /\ f[m + 5] = [int |-> e.kvno] /\ \A i \in 1 .. m + 4 : f[i] = d[i]
  <2>1. m + 4 + 1 = m + 5
    BY <1>8
  <2> QED
    BY <1>16, <1>17, <2>1 DEF Longer
<1>19. \A i \in 1 .. m : i \in 1 .. m + 1 /\ i \in 1 .. m + 2 /\ i \in 1 .. m + 3 /\ i \in 1 .. m + 4
  BY <1>8
<1>20. \A i \in 1 .. m : f[i] = name[i]
  BY <1>10, <1>12, <1>14, <1>16, <1>18, <1>19
<1>21. /\ m + 1 \in 1 .. m + 1 /\ m + 1 \in 1 .. m + 2 /\ m + 1 \in 1 .. m + 3 /\ m + 1 \in 1 .. m + 4
       /\ m + 2 \in 1 .. m + 2 /\ m + 2 \in 1 .. m + 3 /\ m + 2 \in 1 .. m + 4
       /\ m + 3 \in 1 .. m + 3 /\ m + 3 \in 1 .. m + 4 /\ m + 4 \in 1 .. m + 4
  BY <1>8
<1>22. /\ f[m + 1] = [int |-> e.timestamp] /\ f[m + 2] = [int |-> e.kvno8]
       /\ f[m + 3] = [int |-> e.etype] /\ f[m + 4] = [data |-> e.key]
  BY <1>10, <1>12, <1>14, <1>16, <1>18, <1>21
<1>23. /\ m + 1 = 3 + n + z /\ m + 2 = 4 + n + z /\ m + 3 = 5 + n + z /\ m + 4 = 6 + n + z /\ m + 5 = 7 + n + z
       /\ 1 \in 1 .. m /\ 2 \in 1 .. m /\ (z = 1 => 3 + n \in 1 .. m) /\ \A i \in 1 .. n : 2 + i \in 1 .. m
  BY <1>2, <1>6
<1>24. /\ f[1] = [int |-> n + 1 - z] /\ f[2] = [str |-> e.realm]
       /\ \A i \in 1 .. n : f[2 + i] = [str |-> e.principal[i]]
       /\ z = 1 => f[3 + n] = [int |-> e.name_type]
  BY <1>3, <1>20, <1>23 DEF IsName
<1>25. IsBody(f, e, version, n, z)
  BY <1>1, <1>2, <1>18, <1>22, <1>23, <1>24 DEF IsBody
<1> QED
  BY <1>1, <1>5, <1>25

\* The kinds of the cells of a name.
NameKinds(count, version) ==
    <<"int", "str">> \o [i \in 1 .. count |-> "str"] \o (IF version = 1 THEN <<>> ELSE <<"int">>)

\* The kinds of the fields of a name.
LEMMA NameKindsFacts ==
    ASSUME NEW count \in Nat, NEW version \in 1 .. 2, NEW z, z = NameCells(version)
    PROVE  LET kinds == NameKinds(count, version)
           IN  /\ kinds \in Seq({"int", "str", "data"}) /\ Len(kinds) = 2 + count + z
               /\ kinds[1] = "int" /\ kinds[2] = "str"
               /\ \A i \in 1 .. count : kinds[2 + i] = "str"
               /\ z = 1 => kinds[3 + count] = "int"
<1>1. PICK K, a, b, c, ab, kinds :
          /\ K = {"int", "str", "data"} /\ a = <<"int", "str">> /\ b = [i \in 1 .. count |-> "str"]
          /\ c = (IF version = 1 THEN <<>> ELSE <<"int">>) /\ ab = a \o b /\ kinds = NameKinds(count, version)
  OBVIOUS
<1>2. a \in Seq(K) /\ Len(a) = 2 /\ a[1] = "int" /\ a[2] = "str"
  BY <1>1
<1>3. b \in Seq(K) /\ Len(b) = count /\ \A i \in 1 .. count : b[i] = "str"
  <2>1. "str" \in K
    BY <1>1
  <2>2. b \in Seq(K) /\ Len(b) = count
    BY ONLY <1>1, <2>1, count \in Nat, SameSeq
  <2> QED
    BY <1>1, <2>2
<1>4. c \in Seq(K) /\ Len(c) = z /\ z \in 0 .. 1 /\ (z = 1 => c[1] = "int")
  <2>1. CASE version = 1
    BY <1>1, <2>1 DEF NameCells
  <2>2. CASE version # 1
    BY <1>1, <2>2 DEF NameCells
  <2> QED
    BY <2>1, <2>2
<1>5. kinds = ab \o c
  BY <1>1 DEF NameKinds
<1>6. /\ ab \in Seq(K) /\ Len(ab) = 2 + count
      /\ \A i \in 1 .. 2 : ab[i] = a[i]
      /\ \A i \in 1 .. count : ab[2 + i] = b[i]
  <2>1. a \in Seq(K) /\ b \in Seq(K)
    BY <1>2, <1>3
  <2>2. /\ ab \in Seq(K) /\ Len(ab) = Len(a) + Len(b)
        /\ \A i \in 1 .. Len(a) : ab[i] = a[i]
        /\ \A i \in 1 .. Len(b) : ab[Len(a) + i] = b[i]
    <3>1. ab = a \o b
      BY <1>1
    <3> QED
      BY ONLY <2>1, <3>1, ConcatFacts
  <2> QED
    BY ONLY <1>2, <1>3, <2>2
<1>7. /\ kinds \in Seq(K) /\ Len(kinds) = 2 + count + z
      /\ \A i \in 1 .. 2 + count : kinds[i] = ab[i]
      /\ \A i \in 1 .. z : kinds[2 + count + i] = c[i]
  <2>1. ab \in Seq(K) /\ c \in Seq(K)
    BY <1>4, <1>6
  <2>2. /\ kinds \in Seq(K) /\ Len(kinds) = Len(ab) + Len(c)
        /\ \A i \in 1 .. Len(ab) : kinds[i] = ab[i]
        /\ \A i \in 1 .. Len(c) : kinds[Len(ab) + i] = c[i]
    BY ONLY <1>5, <2>1, ConcatFacts
  <2> QED
    BY ONLY <1>4, <1>6, <2>2
<1>8. /\ 1 \in 1 .. 2 + count /\ 2 \in 1 .. 2 + count /\ 1 \in 1 .. 2 /\ 2 \in 1 .. 2
      /\ \A i \in 1 .. count : 2 + i \in 1 .. 2 + count
      /\ z = 1 => 1 \in 1 .. z /\ 2 + count + 1 = 3 + count
  OBVIOUS
<1>9. kinds[1] = "int" /\ kinds[2] = "str" /\ \A i \in 1 .. count : kinds[2 + i] = "str"
  <2>1. kinds[1] = ab[1] /\ kinds[2] = ab[2] /\ ab[1] = a[1] /\ ab[2] = a[2]
    BY ONLY <1>6, <1>7, <1>8
  <2>2. ASSUME NEW i \in 1 .. count PROVE kinds[2 + i] = "str"
    <3>1. 2 + i \in 1 .. 2 + count
      BY ONLY <1>8, i \in 1 .. count
    <3>2. kinds[2 + i] = ab[2 + i] /\ ab[2 + i] = b[i] /\ b[i] = "str"
      BY ONLY <1>3, <1>6, <1>7, <3>1, i \in 1 .. count
    <3> QED
      BY <3>2
  <2> QED
    BY <1>2, <2>1, <2>2
<1>10. z = 1 => kinds[3 + count] = "int"
  BY <1>4, <1>7, <1>8
<1> QED
  BY <1>1, <1>7, <1>9, <1>10

\* What a name is read as.
NameOf(body, version, count) ==
    [realm |-> body[2].str, principal |-> [i \in 1 .. count |-> body[2 + i].str],
     name_type |-> IF version = 1 THEN 0 ELSE body[3 + count].int]

\* parse_principal in terms of the count it reads.
LEMMA NameParse ==
    ASSUME NEW body, NEW version \in 1 .. 2, NEW count, count = body[1].int - (IF version = 1 THEN 1 ELSE 0)
    PROVE  parse_principal(body, version)
              = IF CanRead(body, 1, <<"int">>) /\ ~ (count < 0) /\ CanRead(body, 1, NameKinds(count, version))
                THEN Value(NameOf(body, version, count), Len(NameKinds(count, version)) + 1)
                ELSE Error
  BY DEF parse_principal, NameOf, NameKinds

\* What is left of an entry that was written and read.
StoredEntry(version, e) == [e EXCEPT !.name_type = IF version = 1 THEN 0 ELSE @]

\* parse_principal gives back what write_principal wrote.
LEMMA NameReadBack ==
    ASSUME NEW e \in EntryRecords, NEW version \in 1 .. 2, NEW body, NEW n, NEW z, IsBody(body, e, version, n, z),
           NEW name, name = [realm |-> e.realm, principal |-> e.principal,
                             name_type |-> IF version = 1 THEN 0 ELSE e.name_type],
           NEW at, at = 3 + n + z
    PROVE  parse_principal(body, version) = Value(name, at)
<1>1. /\ n = Len(e.principal) /\ n \in Nat /\ z = NameCells(version) /\ z \in 0 .. 1
      /\ body \in Seq(Cell) /\ Len(body) = 7 + n + z
      /\ body[1] = [int |-> n + 1 - z] /\ body[2] = [str |-> e.realm]
      /\ \A i \in 1 .. n : body[2 + i] = [str |-> e.principal[i]]
      /\ z = 1 => body[3 + n] = [int |-> e.name_type]
  BY DEF IsBody
<1>2. version = 1 <=> z = 0
  BY <1>1 DEF NameCells
<1>3. e.realm \in Text /\ e.principal \in Seq(Text) /\ e.name_type \in Int /\ \A i \in 1 .. n : e.principal[i] \in Text
  BY <1>1, EntryTypes
<1>4. n + 1 - z \in Int
  BY <1>1
<1>5. /\ "int" \in DOMAIN body[1] /\ body[1].int = n + 1 - z
      /\ "str" \in DOMAIN body[2] /\ body[2].str = e.realm
      /\ \A i \in 1 .. n : "str" \in DOMAIN body[2 + i] /\ body[2 + i].str = e.principal[i]
      /\ z = 1 => "int" \in DOMAIN body[3 + n] /\ body[3 + n].int = e.name_type
  <2>1. "int" \in DOMAIN body[1] /\ body[1].int = n + 1 - z
    BY ONLY <1>1, <1>4, CellKinds
  <2>2. "str" \in DOMAIN body[2] /\ body[2].str = e.realm
    BY ONLY <1>1, <1>3, CellKinds
  <2>3. ASSUME NEW i \in 1 .. n PROVE "str" \in DOMAIN body[2 + i] /\ body[2 + i].str = e.principal[i]
    <3>1. body[2 + i] = [str |-> e.principal[i]] /\ e.principal[i] \in Text
      BY <1>1, <1>3
    <3> QED
      BY ONLY <3>1, CellKinds
  <2>4. z = 1 => "int" \in DOMAIN body[3 + n] /\ body[3 + n].int = e.name_type
    BY ONLY <1>1, <1>3, CellKinds
  <2> QED
    BY ONLY <2>1, <2>2, <2>3, <2>4
<1>6. PICK kinds : kinds = NameKinds(n, version)
  OBVIOUS
<1>7. /\ kinds \in Seq({"int", "str", "data"}) /\ Len(kinds) = 2 + n + z
      /\ kinds[1] = "int" /\ kinds[2] = "str"
      /\ \A i \in 1 .. n : kinds[2 + i] = "str"
      /\ z = 1 => kinds[3 + n] = "int"
  <2>1. n \in Nat /\ version \in 1 .. 2 /\ z = NameCells(version)
    BY <1>1
  <2> QED
    BY ONLY <1>6, <2>1, NameKindsFacts
<1>8. ASSUME NEW j \in 1 .. 2 + n + z PROVE kinds[j] \in DOMAIN body[j]
  <2>1. CASE j = 1
    BY <1>5, <1>7, <2>1
  <2>2. CASE j = 2
    BY <1>5, <1>7, <2>2
  <2>3. CASE j \in 3 .. 2 + n
    <3>1. j - 2 \in 1 .. n /\ 2 + (j - 2) = j
      <4>1. n \in Nat
        BY <1>1
      <4> QED
        BY ONLY <4>1, <2>3
    <3>2. kinds[2 + (j - 2)] = "str" /\ "str" \in DOMAIN body[2 + (j - 2)]
      BY <1>5, <1>7, <3>1
    <3> QED
      BY <3>1, <3>2
  <2>4. CASE z = 1 /\ j = 3 + n
    BY <1>5, <1>7, <2>4
  <2>5. j \in Int /\ (j = 1 \/ j = 2 \/ j \in 3 .. 2 + n \/ (z = 1 /\ j = 3 + n))
    <3>1. n \in Nat /\ z \in 0 .. 1
      BY <1>1
    <3> QED
      BY ONLY <3>1, j \in 1 .. 2 + n + z
  <2> QED
    BY <2>1, <2>2, <2>3, <2>4, <2>5
<1>9. CanRead(body, 1, kinds)
  <2>1. 1 + Len(kinds) - 1 = 2 + n + z /\ 2 + n + z <= Len(body)
    BY <1>1, <1>7
  <2>2. \A j \in 1 .. 2 + n + z : 1 + j - 1 = j
    BY <1>1
  <2> QED
    BY <1>7, <1>8, <2>1, <2>2 DEF CanRead
<1>10. CanRead(body, 1, <<"int">>)
  <2>1. 1 <= Len(body) /\ Len(<<"int">>) = 1 /\ <<"int">>[1] = "int"
    BY <1>1
  <2>2. \A j \in 1 .. 1 : j = 1
    OBVIOUS
  <2> QED
    BY <1>5, <2>1, <2>2 DEF CanRead
<1>11. n = body[1].int - (IF version = 1 THEN 1 ELSE 0)
  <2>1. CASE version = 1
    BY <1>1, <1>2, <1>5, <2>1
  <2>2. CASE version # 1
    BY <1>1, <1>2, <1>5, <2>2
  <2> QED
    BY <2>1, <2>2
<1>12. parse_principal(body, version) = Value(NameOf(body, version, n), Len(kinds) + 1)
  <2>1. ~ (n < 0)
    BY <1>1
  <2> QED
    BY <1>6, <1>9, <1>10, <1>11, <2>1, NameParse
<1>13. Len(kinds) + 1 = 3 + n + z
  BY <1>1, <1>7
<1>14. [i \in 1 .. n |-> body[2 + i].str] = e.principal
  <2>1. [i \in 1 .. n |-> body[2 + i].str] = [i \in 1 .. n |-> e.principal[i]]
    BY <1>5
  <2>2. e.principal = [i \in 1 .. n |-> e.principal[i]]
    BY <1>1, <1>3, SeqIsFunction
  <2> QED
    BY <2>1, <2>2
<1>15. (IF version = 1 THEN 0 ELSE body[3 + n].int) = (IF version = 1 THEN 0 ELSE e.name_type)
  BY <1>1, <1>2, <1>5
<1>16. NameOf(body, version, n) = [realm |-> e.realm, principal |-> e.principal,
                                   name_type |-> IF version = 1 THEN 0 ELSE e.name_type]
  BY <1>5, <1>14, <1>15 DEF NameOf
<1> QED
  BY <1>12, <1>13, <1>16

\* Entries as they are read and made: 32 bits of 0 stand for the 8.
NormalEntries == {e \in EntryRecords : e.kvno = 0 => e.kvno8 = 0}

FixedKinds == <<"int", "int", "int", "data">>
\* The kinds of the fixed fields of an entry.
LEMMA FixedKindFacts ==
    /\ FixedKinds \in Seq({"int", "str", "data"}) /\ Len(FixedKinds) = 4
    /\ FixedKinds[1] = "int" /\ FixedKinds[2] = "int" /\ FixedKinds[3] = "int" /\ FixedKinds[4] = "data"
  BY DEF FixedKinds

\* What an entry is read as, behind its name.
EntryOf(body, name, at, kvno) ==
    [principal |-> name.principal, realm |-> name.realm, name_type |-> name.name_type,
     timestamp |-> body[at].int, kvno8 |-> body[at + 1].int, etype |-> body[at + 2].int,
     key |-> body[at + 3].data, kvno |-> IF kvno = 0 THEN body[at + 1].int ELSE kvno]

\* parse_entry in terms of its name.
LEMMA EntryParse ==
    ASSUME NEW body, NEW version, NEW name, name = parse_principal(body, version), NEW at, at = name.next,
           NEW kvno, kvno = IF CanRead(body, at + 4, <<"int">>) THEN body[at + 4].int ELSE body[at + 1].int
    PROVE  parse_entry(body, version)
             = IF name.ok /\ CanRead(body, at, FixedKinds)
               THEN Value(EntryOf(body, name.value, at, kvno), at + 4) ELSE Error
  BY DEF parse_entry, EntryOf, FixedKinds

\* parse_entry gives back what EntryBody wrote.
LEMMA EntryReadBack ==
    ASSUME NEW e \in NormalEntries, NEW version \in 1 .. 2, NEW body, NEW n, NEW z, IsBody(body, e, version, n, z)
    PROVE  /\ parse_entry(body, version).ok
           /\ parse_entry(body, version).value = StoredEntry(version, e)
<1>0. e \in EntryRecords /\ (e.kvno = 0 => e.kvno8 = 0)
  BY DEF NormalEntries
<1>1. PICK name, at : name = [realm |-> e.realm, principal |-> e.principal,
                       name_type |-> IF version = 1 THEN 0 ELSE e.name_type] /\ at = 3 + n + z
  OBVIOUS
<1>2. parse_principal(body, version) = Value(name, at)
  <2>1. e \in EntryRecords /\ version \in 1 .. 2 /\ IsBody(body, e, version, n, z)
    BY <1>0
  <2> QED
    BY ONLY <1>1, <2>1, NameReadBack
<1>3. n \in Nat /\ z \in 0 .. 1 /\ body \in Seq(Cell) /\ Len(body) = 7 + n + z
  BY DEF IsBody
<1>4. at + 1 = 4 + n + z /\ at + 2 = 5 + n + z /\ at + 3 = 6 + n + z /\ at + 4 = 7 + n + z /\ at \in Nat
  BY <1>1, <1>3
<1>5. /\ body[at] = [int |-> e.timestamp] /\ body[at + 1] = [int |-> e.kvno8]
      /\ body[at + 2] = [int |-> e.etype] /\ body[at + 3] = [data |-> e.key]
      /\ body[at + 4] = [int |-> e.kvno]
  BY <1>1, <1>4 DEF IsBody
<1>6. /\ "int" \in DOMAIN body[at] /\ body[at].int = e.timestamp
      /\ "int" \in DOMAIN body[at + 1] /\ body[at + 1].int = e.kvno8
      /\ "int" \in DOMAIN body[at + 2] /\ body[at + 2].int = e.etype
      /\ "data" \in DOMAIN body[at + 3] /\ body[at + 3].data = e.key
      /\ "int" \in DOMAIN body[at + 4] /\ body[at + 4].int = e.kvno
  <2>1. e.timestamp \in Int /\ e.kvno8 \in Int /\ e.etype \in Int /\ e.key \in Int /\ e.kvno \in Int
    BY <1>0, EntryTypes
  <2> QED
    BY <1>5, <2>1, CellKinds
<1>7. CanRead(body, at, FixedKinds)
  <2>1. at + 4 - 1 <= Len(body)
    BY <1>3, <1>4
  <2>2. ASSUME NEW i \in 1 .. 4 PROVE FixedKinds[i] \in DOMAIN body[at + i - 1]
    <3>1. at + 1 - 1 = at /\ at + 2 - 1 = at + 1 /\ at + 3 - 1 = at + 2 /\ at + 4 - 1 = at + 3
      BY <1>4
    <3>2. i = 1 \/ i = 2 \/ i = 3 \/ i = 4
      OBVIOUS
    <3>3. CASE i = 1
      BY <1>6, <3>1, <3>3, FixedKindFacts
    <3>4. CASE i = 2
      BY <1>6, <3>1, <3>4, FixedKindFacts
    <3>5. CASE i = 3
      BY <1>6, <3>1, <3>5, FixedKindFacts
    <3>6. CASE i = 4
      BY <1>6, <3>1, <3>6, FixedKindFacts
    <3> QED
      BY <3>2, <3>3, <3>4, <3>5, <3>6
  <2> QED
    BY <2>1, <2>2, FixedKindFacts DEF CanRead
<1>8. CanRead(body, at + 4, <<"int">>)
  <2>1. at + 4 + 1 - 1 <= Len(body) /\ Len(<<"int">>) = 1 /\ <<"int">>[1] = "int" /\ at + 4 + 1 - 1 = at + 4
    BY <1>3, <1>4
  <2>2. \A j \in 1 .. 1 : j = 1
    OBVIOUS
  <2> QED
    BY <1>6, <2>1, <2>2 DEF CanRead
<1>9. PICK kvno : kvno = IF CanRead(body, at + 4, <<"int">>) THEN body[at + 4].int ELSE body[at + 1].int
  OBVIOUS
<1>10. kvno = e.kvno
  BY <1>6, <1>8, <1>9
<1>11. parse_entry(body, version) = Value(EntryOf(body, name, at, kvno), at + 4)
  <2>1. PICK r : r = parse_principal(body, version)
    OBVIOUS
  <2>2. r.ok /\ r.value = name /\ r.next = at
    BY <1>2, <2>1, OkResult
  <2> QED
    BY <1>7, <1>9, <2>1, <2>2, EntryParse
<1>12. EntryOf(body, name, at, kvno) = StoredEntry(version, e)
  <2>1. EntryOf(body, name, at, kvno)
          = [principal |-> e.principal, realm |-> e.realm, name_type |-> IF version = 1 THEN 0 ELSE e.name_type,
             timestamp |-> e.timestamp, kvno8 |-> e.kvno8, etype |-> e.etype, key |-> e.key, kvno |-> e.kvno]
    <3>1. (IF kvno = 0 THEN body[at + 1].int ELSE kvno) = e.kvno
      BY <1>0, <1>6, <1>10
    <3> QED
      BY <1>1, <1>6, <3>1 DEF EntryOf
  <2>2. StoredEntry(version, e)
          = [principal |-> e.principal, realm |-> e.realm, name_type |-> IF version = 1 THEN 0 ELSE e.name_type,
             timestamp |-> e.timestamp, kvno8 |-> e.kvno8, etype |-> e.etype, key |-> e.key, kvno |-> e.kvno]
    BY <1>0, EntryTypes DEF StoredEntry
  <2> QED
    BY <2>1, <2>2
<1> QED
  BY <1>11, <1>12, OkResult

Names == [realm : Text, principal : Seq(Text), name_type : Int]

\* parse_principal returns names.
LEMMA NameTyped ==
    ASSUME NEW body \in Seq(Cell), NEW version \in 1 .. 2, parse_principal(body, version).ok
    PROVE  /\ parse_principal(body, version).value \in Names
           /\ parse_principal(body, version).next \in Nat \ {0}
<1>1. PICK count, z : count = body[1].int - (IF version = 1 THEN 1 ELSE 0) /\ z = NameCells(version)
  OBVIOUS
<1>2. PICK kinds : kinds = NameKinds(count, version)
  OBVIOUS
<1>3. /\ CanRead(body, 1, <<"int">>) /\ ~ (count < 0) /\ CanRead(body, 1, kinds)
      /\ parse_principal(body, version) = Value(NameOf(body, version, count), Len(kinds) + 1)
  BY <1>1, <1>2, NameParse, OkResult
<1>4. body[1].int \in Int
  <2>1. <<"int">> \in Seq({"int", "str", "data"}) /\ 1 \in 1 .. Len(<<"int">>) /\ <<"int">>[1] = "int" /\ 1 + 1 - 1 = 1
    OBVIOUS
  <2>2. 1 \in Nat \ {0}
    OBVIOUS
  <2>3. body[1 + 1 - 1].int \in Int
    BY <1>3, <2>1, <2>2, ReadTypes
  <2> QED
    BY <2>1, <2>3
<1>5. count \in Nat /\ z \in 0 .. 1 /\ (version = 1 <=> z = 0)
  <2>1. CASE version = 1
    BY <1>1, <1>3, <1>4, <2>1 DEF NameCells
  <2>2. CASE version # 1
    BY <1>1, <1>3, <1>4, <2>2 DEF NameCells
  <2> QED
    BY <2>1, <2>2
<1>6. /\ kinds \in Seq({"int", "str", "data"}) /\ Len(kinds) = 2 + count + z
      /\ kinds[1] = "int" /\ kinds[2] = "str"
      /\ \A i \in 1 .. count : kinds[2 + i] = "str"
      /\ z = 1 => kinds[3 + count] = "int"
  <2>1. count \in Nat /\ version \in 1 .. 2 /\ z = NameCells(version)
    BY <1>1, <1>5
  <2> QED
    BY ONLY <1>2, <2>1, NameKindsFacts
<1>7. \A i \in 1 .. Len(kinds) : /\ kinds[i] = "int" => body[i].int \in Int
                                 /\ kinds[i] = "str" => body[i].str \in Text
  <2>1. SUFFICES ASSUME NEW i \in 1 .. Len(kinds)
                 PROVE  (kinds[i] = "int" => body[i].int \in Int) /\ (kinds[i] = "str" => body[i].str \in Text)
    OBVIOUS
  <2>2. 1 + i - 1 = i /\ 1 \in Nat \ {0}
    BY <1>5, <1>6
  <2>3. /\ kinds[i] = "int" => body[1 + i - 1].int \in Int
        /\ kinds[i] = "str" => body[1 + i - 1].str \in Text
    BY <1>3, <1>6, <2>2, ReadTypes
  <2> QED
    BY <2>2, <2>3
<1>8. /\ 2 \in 1 .. Len(kinds) /\ (z = 1 => 3 + count \in 1 .. Len(kinds))
      /\ \A i \in 1 .. count : 2 + i \in 1 .. Len(kinds)
  <2>1. Len(kinds) = 2 + count + z
    BY <1>6
  <2> QED
    BY ONLY <1>5, <2>1
<1>9. body[2].str \in Text /\ (z = 1 => body[3 + count].int \in Int)
  BY <1>6, <1>7, <1>8
<1>10. \A i \in 1 .. count : body[2 + i].str \in Text
  BY <1>6, <1>7, <1>8
<1>11. [i \in 1 .. count |-> body[2 + i].str] \in Seq(Text)
  <2>1. [i \in 1 .. count |-> body[2 + i].str] \in [1 .. count -> Text]
    BY <1>10
  <2> QED
    BY <1>5, <2>1, FunctionIsSeq
<1>12. (IF version = 1 THEN 0 ELSE body[3 + count].int) \in Int
  BY <1>5, <1>9
<1>13. NameOf(body, version, count) \in Names
  BY <1>9, <1>11, <1>12 DEF NameOf, Names
<1>14. Len(kinds) + 1 \in Nat \ {0}
  BY <1>5, <1>6
<1> QED
  BY <1>3, <1>13, <1>14, OkResult

\* parse_entry returns entries whose two key versions agree.
LEMMA EntryTyped ==
    ASSUME NEW body \in Seq(Cell), NEW version \in 1 .. 2, parse_entry(body, version).ok
    PROVE  parse_entry(body, version).value \in NormalEntries
<1>1. PICK r, at : r = parse_principal(body, version) /\ at = r.next
  OBVIOUS
<1>2. PICK kvno : kvno = IF CanRead(body, at + 4, <<"int">>) THEN body[at + 4].int ELSE body[at + 1].int
  OBVIOUS
<1>3. /\ r.ok /\ CanRead(body, at, FixedKinds)
      /\ parse_entry(body, version) = Value(EntryOf(body, r.value, at, kvno), at + 4)
  BY <1>1, <1>2, EntryParse, OkResult
<1>4. r.value \in Names /\ at \in Nat \ {0}
  BY <1>1, <1>3, NameTyped
<1>5. /\ body[at].int \in Int /\ body[at + 1].int \in Int /\ body[at + 2].int \in Int /\ body[at + 3].data \in Int
  <2>1. /\ at + 1 - 1 = at /\ at + 2 - 1 = at + 1 /\ at + 3 - 1 = at + 2 /\ at + 4 - 1 = at + 3
        /\ 1 \in 1 .. Len(FixedKinds) /\ 2 \in 1 .. Len(FixedKinds) /\ 3 \in 1 .. Len(FixedKinds) /\ 4 \in 1 .. Len(FixedKinds)
    BY <1>4, FixedKindFacts
  <2>2. \A i \in 1 .. Len(FixedKinds) : /\ FixedKinds[i] = "int" => body[at + i - 1].int \in Int
                                        /\ FixedKinds[i] = "data" => body[at + i - 1].data \in Int
    BY <1>3, <1>4, FixedKindFacts, ReadTypes
  <2>3. /\ body[at + 1 - 1].int \in Int /\ body[at + 2 - 1].int \in Int /\ body[at + 3 - 1].int \in Int
        /\ body[at + 4 - 1].data \in Int
    BY <2>1, <2>2, FixedKindFacts
  <2> QED
    BY <2>1, <2>3
<1>6. kvno \in Int
  <2>1. ASSUME CanRead(body, at + 4, <<"int">>) PROVE body[at + 4].int \in Int
    <3>1. <<"int">> \in Seq({"int", "str", "data"}) /\ 1 \in 1 .. Len(<<"int">>) /\ <<"int">>[1] = "int"
      OBVIOUS
    <3>2. at + 4 \in Nat \ {0} /\ at + 4 + 1 - 1 = at + 4
      BY <1>4
    <3>3. body[at + 4 + 1 - 1].int \in Int
      BY <2>1, <3>1, <3>2, ReadTypes
    <3> QED
      BY <3>2, <3>3
  <2> QED
    BY <1>2, <1>5, <2>1
<1>7. PICK e : e = EntryOf(body, r.value, at, kvno)
  OBVIOUS
<1>8. e \in EntryRecords
  BY <1>4, <1>5, <1>6, <1>7 DEF EntryOf, Names, EntryRecords
<1>9. e.kvno = 0 => e.kvno8 = 0
  BY <1>7 DEF EntryOf
<1> QED
  BY <1>3, <1>7, <1>8, <1>9, OkResult DEF NormalEntries

-----------------------------------------------------------------------------
(* Slots.                                                                   *)

\* What an entry takes in the file.
Written(w, body) ==
    /\ w \in Seq(Cell) /\ Len(body) \in Nat \ {0} /\ Len(w) = 1 + Len(body) /\ w[1] = [int |-> Len(body)]
    /\ \A i \in 1 .. Len(body) : w[1 + i] = body[i]

\* write_entry writes the length and the body.
LEMMA WrittenEntry ==
    ASSUME NEW e \in EntryRecords, NEW version \in 1 .. 2
    PROVE  Written(write_entry(e, version), EntryBody(e, version))
<1>1. PICK body, w, h : body = EntryBody(e, version) /\ w = write_entry(e, version) /\ h = IntCell(Len(body))
  OBVIOUS
<1>2. w = h \o body
  BY <1>1 DEF write_entry, EntryBody
<1>3. body \in Seq(Cell) /\ Len(body) \in Nat \ {0}
  <2>1. PICK n, z : n = Len(e.principal) /\ z = NameCells(version)
    OBVIOUS
  <2>2. IsBody(body, e, version, n, z)
    BY <1>1, <2>1, BodyIsCells
  <2>3. body \in Seq(Cell) /\ Len(body) = 7 + n + z /\ n \in Nat /\ z \in 0 .. 1
    BY <2>2 DEF IsBody
  <2>4. 7 + n + z \in Nat \ {0}
    BY ONLY <2>3
  <2> QED
    BY <2>3, <2>4
<1>4. h \in Seq(Cell) /\ Len(h) = 1 /\ h[1] = [int |-> Len(body)]
  <2>1. [int |-> Len(body)] \in Cell
    BY <1>3, CellKinds
  <2> QED
    BY <1>1, <2>1, OneCell DEF IntCell
<1>5. /\ w \in Seq(Cell) /\ Len(w) = Len(h) + Len(body)
      /\ \A i \in 1 .. Len(h) : w[i] = h[i]
      /\ \A i \in 1 .. Len(body) : w[Len(h) + i] = body[i]
  <2>1. h \in Seq(Cell) /\ body \in Seq(Cell)
    BY <1>3, <1>4
  <2> QED
    BY ONLY <1>2, <2>1, ConcatFacts
<1>6. 1 \in 1 .. 1
  OBVIOUS
<1>7. w[1] = h[1]
  BY <1>4, <1>5, <1>6
<1>8. Written(w, body)
  BY <1>3, <1>4, <1>5, <1>7 DEF Written
<1> QED
  BY <1>1, <1>8

\* The cells of the first i entries.
LEMMA EntryCellsFacts ==
    ASSUME NEW list \in Seq(EntryRecords), NEW version \in 1 .. 2
    PROVE  /\ EntryCells(list, version) \in [0 .. Len(list) -> Seq(Cell)]
           /\ EntryCells(list, version)[0] = <<>>
           /\ \A i \in 1 .. Len(list) : EntryCells(list, version)[i]
                = EntryCells(list, version)[i - 1] \o write_entry(list[i], version)
<1> DEFINE Step(i, v) == v \o write_entry(list[i], version)
           Is(h, m) == h = [i \in 0 .. m |-> IF i = 0 THEN <<>> ELSE Step(i, h[i - 1])]
<1>1. PICK n, V, none : n = Len(list) /\ V = Seq(Cell) /\ none = <<>>
  OBVIOUS
<1>2. n \in Nat /\ none \in V
  BY <1>1
<1>3. ASSUME NEW i \in 1 .. n, NEW v \in V PROVE Step(i, v) \in V
  <2>1. list[i] \in EntryRecords
    BY <1>1
  <2>2. write_entry(list[i], version) \in Seq(Cell)
    BY <2>1, WrittenEntry DEF Written
  <2> QED
    BY <1>1, <2>2
<1> HIDE DEF Step
<1>4. PICK G : G = [i \in 1 .. n |-> [v \in V |-> Step(i, v)]]
  OBVIOUS
<1>5. G \in [1 .. n -> [V -> V]] /\ \A i \in 1 .. n, v \in V : G[i][v] = Step(i, v)
  BY <1>3, <1>4
<1>6. PICK f : f \in [0 .. n -> V] /\ Recursive(f, n, none, G)
  BY ONLY <1>2, <1>5, Recursion
<1>7. Is(f, n)
  <2>1. ASSUME NEW i \in 0 .. n PROVE f[i] = IF i = 0 THEN <<>> ELSE Step(i, f[i - 1])
    <3>1. i # 0 => i \in 1 .. n /\ i - 1 \in 0 .. n
      BY <1>2
    <3> QED
      BY <1>1, <1>5, <1>6, <3>1 DEF Recursive
  <2> QED
    BY <1>6, <2>1
<1>8. PICK g : g = EntryCells(list, version)
  OBVIOUS
<1>9. g = CHOOSE h : Is(h, n)
  BY <1>1, <1>8 DEF EntryCells, Step
<1>10. Is(g, n)
  BY <1>7, <1>9, Zenon
<1>11. g[0] = none /\ g = [i \in 0 .. n |-> g[i]] /\ \A i \in 1 .. n : g[i] = Step(i, g[i - 1])
  <2>1. 0 \in 0 .. n /\ \A i \in 1 .. n : i \in 0 .. n /\ i # 0
    BY <1>2
  <2>2. \A i \in 0 .. n : g[i] = IF i = 0 THEN <<>> ELSE Step(i, g[i - 1])
    BY <1>10
  <2>3. g = [i \in 0 .. n |-> g[i]]
    BY <1>10, <2>2
  <2> QED
    BY <1>1, <2>1, <2>2, <2>3
<1>12. g[0] \in V /\ \A i \in 1 .. n : g[i - 1] \in V => g[i] = G[i][g[i - 1]]
  BY <1>2, <1>5, <1>11
<1>13. g \in [0 .. n -> V]
  BY ONLY <1>2, <1>5, <1>11, <1>12, RecursionTyped
<1> QED
  BY <1>1, <1>8, <1>11, <1>13 DEF Step

\* A turn of the loop over slots keeps the type of its result.
LEMMA ReadSlotTyped ==
    ASSUME NEW disk \in Seq(Cell), NEW version \in 1 .. 2, NEW r \in ReadResults(Seq(NormalEntries))
    PROVE  ReadSlot(disk, version, r) \in ReadResults(Seq(NormalEntries))
<1>1. PICK at, length, size, body, entry :
        /\ at = r.next /\ length = disk[at].int /\ size = (IF length < 0 THEN 0 - length ELSE length)
        /\ body = SubSeq(disk, at + 1, at + length) /\ entry = parse_entry(body, version)
  OBVIOUS
<1>2. ReadSlot(disk, version, r)
        = IF ~ r.ok \/ ~ CanRead(disk, at, <<"int">>) \/ length = 0 THEN r
          ELSE IF ~ CanSkip(disk, at + 1, size) THEN Error
          ELSE IF length < 0 THEN Value(r.value, at + 1 + size)
          ELSE IF ~ entry.ok THEN Error
          ELSE Value(Append(r.value, entry.value), at + 1 + size)
  BY <1>1 DEF ReadSlot
<1>3. CASE ~ r.ok \/ ~ CanRead(disk, at, <<"int">>) \/ length = 0
  BY <1>2, <1>3
<1>4. CASE ~ (~ r.ok \/ ~ CanRead(disk, at, <<"int">>) \/ length = 0)
  <2>1. r.value \in Seq(NormalEntries) /\ at \in Nat \ {0}
    BY <1>1, <1>4, ReadsResults, ReadsOk
  <2>2. length \in Int
    <3>1. <<"int">> \in Seq({"int", "str", "data"}) /\ 1 \in 1 .. Len(<<"int">>) /\ <<"int">>[1] = "int"
      OBVIOUS
    <3>2. at + 1 - 1 = at
      BY <2>1
    <3>3. disk[at + 1 - 1].int \in Int
      BY <1>4, <2>1, <3>1, ReadTypes
    <3> QED
      BY <1>1, <3>2, <3>3
  <2>3. size \in Nat /\ at + 1 + size \in Nat \ {0}
    <3>1. size = (IF length < 0 THEN 0 - length ELSE length) /\ length \in Int /\ at \in Nat
      BY <1>1, <2>1, <2>2
    <3> QED
      BY ONLY <3>1
  <2>4. CASE ~ CanSkip(disk, at + 1, size)
    <3>1. ReadSlot(disk, version, r) = Error
      BY <1>2, <1>4, <2>4
    <3> QED
      BY <3>1, ResultIn
  <2>5. CASE CanSkip(disk, at + 1, size) /\ length < 0
    <3>1. ReadSlot(disk, version, r) = Value(r.value, at + 1 + size)
      BY <1>2, <1>4, <2>5
    <3> QED
      BY <2>1, <2>3, <3>1, ResultIn
  <2>6. CASE CanSkip(disk, at + 1, size) /\ ~ (length < 0) /\ ~ entry.ok
    <3>1. ReadSlot(disk, version, r) = Error
      BY <1>2, <1>4, <2>6
    <3> QED
      BY <3>1, ResultIn
  <2>7. CASE CanSkip(disk, at + 1, size) /\ ~ (length < 0) /\ entry.ok
    <3>1. ReadSlot(disk, version, r) = Value(Append(r.value, entry.value), at + 1 + size)
      BY <1>2, <1>4, <2>7
    <3>2. body \in Seq(Cell)
      <4>1. size = length /\ at + length <= Len(disk)
        <5>1. size = length
          BY <1>1, <2>7
        <5>2. at + 1 + size - 1 <= Len(disk)
          BY <2>7 DEF CanSkip
        <5> QED
          BY <2>1, <2>2, <5>1, <5>2
      <4>2. at + 1 \in 1 .. Len(disk) + 1 /\ at + length \in at .. Len(disk)
        <5>1. PICK l : l = Len(disk) /\ l \in Nat
          OBVIOUS
        <5>2. at + length <= l /\ length \in Nat /\ at \in Nat
          BY <2>1, <2>2, <2>7, <4>1, <5>1
        <5>3. at + 1 \in 1 .. l + 1 /\ at + length \in at .. l
          BY ONLY <5>1, <5>2
        <5> QED
          BY <5>1, <5>3
      <4> QED
        BY <1>1, <2>1, <2>2, <4>1, <4>2
    <3>3. entry.value \in NormalEntries
      BY <1>1, <2>7, <3>2, EntryTyped
    <3>4. Append(r.value, entry.value) \in Seq(NormalEntries)
      BY <2>1, <3>3
    <3> QED
      BY <2>3, <3>1, <3>4, ResultIn
  <2> QED
    BY <2>4, <2>5, <2>6, <2>7
<1> QED
  BY <1>3, <1>4

\* The results of the first i turns of that loop.
LEMMA SlotsReadFacts ==
    ASSUME NEW disk \in Seq(Cell), NEW first \in Nat \ {0}, NEW version \in 1 .. 2
    PROVE  /\ SlotsRead(disk, first, version) \in [0 .. Len(disk) -> ReadResults(Seq(NormalEntries))]
           /\ SlotsRead(disk, first, version)[0] = Value(<<>>, first)
           /\ \A i \in 1 .. Len(disk) : SlotsRead(disk, first, version)[i]
                = ReadSlot(disk, version, SlotsRead(disk, first, version)[i - 1])
<1> DEFINE Step(i, v) == ReadSlot(disk, version, v)
           Is(h, m) == h = [i \in 0 .. m |-> IF i = 0 THEN Value(<<>>, first) ELSE Step(i, h[i - 1])]
<1>1. PICK n, V, none : n = Len(disk) /\ V = ReadResults(Seq(NormalEntries)) /\ none = Value(<<>>, first)
  OBVIOUS
<1>2. n \in Nat /\ none \in V
  <2>1. <<>> \in Seq(NormalEntries) /\ first \in Nat \ {0} /\ n \in Nat
    BY <1>1
  <2> QED
    BY <1>1, <2>1, ResultIn
<1>3. ASSUME NEW i \in 1 .. n, NEW v \in V PROVE Step(i, v) \in V
  BY <1>1, ReadSlotTyped
<1> HIDE DEF Step
<1>4. PICK G : G = [i \in 1 .. n |-> [v \in V |-> Step(i, v)]]
  OBVIOUS
<1>5. G \in [1 .. n -> [V -> V]] /\ \A i \in 1 .. n, v \in V : G[i][v] = Step(i, v)
  BY <1>3, <1>4
<1>6. PICK f : f \in [0 .. n -> V] /\ Recursive(f, n, none, G)
  BY ONLY <1>2, <1>5, Recursion
<1>7. Is(f, n)
  <2>1. ASSUME NEW i \in 0 .. n PROVE f[i] = IF i = 0 THEN Value(<<>>, first) ELSE Step(i, f[i - 1])
    <3>1. i # 0 => i \in 1 .. n /\ i - 1 \in 0 .. n
      BY <1>2
    <3> QED
      BY <1>1, <1>5, <1>6, <3>1 DEF Recursive
  <2> QED
    BY <1>6, <2>1
<1>8. PICK g : g = SlotsRead(disk, first, version)
  OBVIOUS
<1>9. g = CHOOSE h : Is(h, n)
  BY <1>1, <1>8 DEF SlotsRead, Step
<1>10. Is(g, n)
  BY <1>7, <1>9, Zenon
<1>11. g[0] = none /\ g = [i \in 0 .. n |-> g[i]] /\ \A i \in 1 .. n : g[i] = Step(i, g[i - 1])
  <2>1. 0 \in 0 .. n /\ \A i \in 1 .. n : i \in 0 .. n /\ i # 0
    BY <1>2
  <2>2. \A i \in 0 .. n : g[i] = IF i = 0 THEN Value(<<>>, first) ELSE Step(i, g[i - 1])
    BY <1>10
  <2>3. g = [i \in 0 .. n |-> g[i]]
    BY <1>10, <2>2
  <2> QED
    BY <1>1, <2>1, <2>2, <2>3
<1>12. g[0] \in V /\ \A i \in 1 .. n : g[i - 1] \in V => g[i] = G[i][g[i - 1]]
  BY <1>2, <1>5, <1>11
<1>13. g \in [0 .. n -> V]
  BY ONLY <1>2, <1>5, <1>11, <1>12, RecursionTyped
<1> QED
  BY <1>1, <1>8, <1>11, <1>13 DEF Step

\* A whole cell is not the part of one.
LEMMA NotPart ==
    /\ \A x : "part" \notin DOMAIN [int |-> x] /\ "part" \notin DOMAIN [str |-> x] /\ "part" \notin DOMAIN [data |-> x]
  OBVIOUS

\* The cells of a body are whole.
LEMMA BodyReadable ==
    ASSUME NEW e, NEW version, NEW body, NEW n, NEW z, IsBody(body, e, version, n, z), NEW i \in 1 .. Len(body)
    PROVE  "part" \notin DOMAIN body[i]
<1>1. n \in Nat /\ z \in 0 .. 1 /\ Len(body) = 7 + n + z
  BY DEF IsBody
<1>2. i \in 1 .. 7 + n + z
  BY <1>1
<1>3. \/ i = 1 \/ i = 2 \/ (i - 2 \in 1 .. n /\ i = 2 + (i - 2)) \/ (z = 1 /\ i = 3 + n)
      \/ i = 3 + n + z \/ i = 4 + n + z \/ i = 5 + n + z \/ i = 6 + n + z \/ i = 7 + n + z
  <2>1. n \in Nat /\ z \in 0 .. 1
    BY <1>1
  <2> QED
    BY ONLY <2>1, <1>2
<1>4. \E x : body[i] = [int |-> x] \/ body[i] = [str |-> x] \/ body[i] = [data |-> x]
  <2>1. CASE i = 1
    BY <2>1 DEF IsBody
  <2>2. CASE i = 2
    BY <2>2 DEF IsBody
  <2>3. CASE i - 2 \in 1 .. n /\ i = 2 + (i - 2)
    <3>1. \A j \in 1 .. n : body[2 + j] = [str |-> e.principal[j]]
      BY DEF IsBody
    <3>2. PICK j : j = i - 2
      OBVIOUS
    <3>3. body[2 + j] = [str |-> e.principal[j]] /\ i = 2 + j
      BY <2>3, <3>1, <3>2
    <3> QED
      BY <3>3
  <2>4. CASE z = 1 /\ i = 3 + n
    BY <2>4 DEF IsBody
  <2>5. CASE i = 3 + n + z
    BY <2>5 DEF IsBody
  <2>6. CASE i = 4 + n + z
    BY <2>6 DEF IsBody
  <2>7. CASE i = 5 + n + z
    BY <2>7 DEF IsBody
  <2>8. CASE i = 6 + n + z
    BY <2>8 DEF IsBody
  <2>9. CASE i = 7 + n + z
    BY <2>9 DEF IsBody
  <2> QED
    BY <1>3, <2>1, <2>2, <2>3, <2>4, <2>5, <2>6, <2>7, <2>8, <2>9
<1> QED
  BY <1>4, NotPart

\* Every cell can be read.
Readable(body) == \A i \in 1 .. Len(body) : "part" \notin DOMAIN body[i]

\* A slot of the file and what it holds.
SlotIs(disk, at, length, body) ==
    /\ disk[at] = [int |-> length] /\ length \in Nat \ {0} /\ at + length <= Len(disk) /\ at <= Len(disk)
    /\ CanSkip(disk, at + 1, length)
    /\ SubSeq(disk, at + 1, at + length) = body

\* A slot that was written holds its body.
LEMMA SlotHolds ==
    ASSUME NEW body \in Seq(Cell), NEW disk \in Seq(Cell), NEW at \in Nat \ {0}, NEW w, Written(w, body), HasAt(disk, at, w),
           NEW length, length = Len(body), Readable(body)
    PROVE  SlotIs(disk, at, length, body)
<1>1. /\ length \in Nat \ {0} /\ Len(w) = 1 + length /\ w[1] = [int |-> length]
      /\ \A i \in 1 .. length : w[1 + i] = body[i]
  BY DEF Written
<1>2. PICK l : l = Len(disk)
  OBVIOUS
<1>3. l \in Nat
  BY <1>2
<1>4. at + (1 + length) - 1 <= l /\ \A i \in 1 .. 1 + length : disk[at + i - 1] = w[i]
  BY <1>1, <1>2 DEF HasAt
<1>5. /\ at + length <= l /\ at + 1 + length - 1 <= l /\ at + 1 - 1 = at /\ at + 1 + length - 1 = at + length
      /\ 1 \in 1 .. 1 + length /\ at \in 1 .. l
      /\ \A i \in 1 .. length : 1 + i \in 1 .. 1 + length /\ at + (1 + i) - 1 = at + i
      /\ at <= l
  <2>1. length \in Nat \ {0} /\ l \in Nat /\ at + (1 + length) - 1 <= l
    BY <1>1, <1>3, <1>4
  <2> QED
    BY ONLY <2>1, at \in Nat \ {0}
<1>6. disk[at] = [int |-> length]
  <2>1. disk[at + 1 - 1] = w[1]
    BY ONLY <1>4, <1>5
  <2> QED
    BY <1>1, <1>5, <2>1
<1>7. ASSUME NEW i \in 1 .. length PROVE disk[at + i] = body[i]
  <2>1. 1 + i \in 1 .. 1 + length /\ at + (1 + i) - 1 = at + i
    BY <1>5
  <2>2. disk[at + (1 + i) - 1] = w[1 + i]
    BY ONLY <1>4, <2>1
  <2> QED
    BY <1>1, <2>1, <2>2
<1>8. CanSkip(disk, at + 1, length)
  <2>1. ASSUME NEW j \in at + 1 .. at + length PROVE "part" \notin DOMAIN disk[j]
    <3>1. j - at \in 1 .. length /\ at + (j - at) = j
      BY <1>1
    <3>2. disk[at + (j - at)] = body[j - at]
      BY <1>7, <3>1
    <3> QED
      BY <3>1, <3>2 DEF Readable
  <2>2. at + 1 + length - 1 <= Len(disk) /\ at + 1 + length - 1 = at + length
    BY <1>2, <1>5
  <2> QED
    BY <2>1, <2>2 DEF CanSkip
<1>9. SubSeq(disk, at + 1, at + length) = body
  <2>1. SubSeq(disk, at + 1, at + length) = [i \in 1 .. length |-> disk[at + i]]
    <3>1. PICK m, k : m = at + 1 /\ k = at + length
      OBVIOUS
    <3>2. m \in Int /\ k \in Int /\ k - m + 1 = length /\ \A i \in 1 .. length : i + m - 1 = at + i
      BY <1>1, <3>1
    <3>3. SubSeq(disk, m, k) = [i \in 1 .. k - m + 1 |-> disk[i + m - 1]]
      BY ONLY <3>2, disk \in Seq(Cell)
    <3> QED
      BY <3>1, <3>2, <3>3
  <2>2. body = [i \in 1 .. length |-> body[i]]
    BY SeqIsFunction
  <2>3. [i \in 1 .. length |-> disk[at + i]] = [i \in 1 .. length |-> body[i]]
    BY <1>7
  <2> QED
    BY <2>1, <2>2, <2>3
<1> QED
  BY <1>1, <1>2, <1>5, <1>6, <1>8, <1>9 DEF SlotIs

\* A turn of the loop reads the entry that write_entry wrote.
LEMMA SlotReadBack ==
    ASSUME NEW e \in NormalEntries, NEW version \in 1 .. 2, NEW disk \in Seq(Cell), NEW at \in Nat \ {0}, NEW l,
           NEW w, w = write_entry(e, version), HasAt(disk, at, w), NEW r, r = Value(l, at)
    PROVE  ReadSlot(disk, version, r) = Value(Append(l, StoredEntry(version, e)), at + Len(w))
<1>1. PICK body, length, n, z : body = EntryBody(e, version) /\ length = Len(body)
                                /\ n = Len(e.principal) /\ z = NameCells(version)
  OBVIOUS
<1>2. e \in EntryRecords
  BY DEF NormalEntries
<1>3. IsBody(body, e, version, n, z) /\ Written(w, body)
  BY <1>1, <1>2, BodyIsCells, WrittenEntry
<1>4. body \in Seq(Cell) /\ Readable(body)
  <2>1. body \in Seq(Cell)
    BY <1>3 DEF IsBody
  <2>2. \A i \in 1 .. Len(body) : "part" \notin DOMAIN body[i]
    BY ONLY <1>3, BodyReadable
  <2> QED
    BY <2>1, <2>2 DEF Readable
<1>5. /\ disk[at] = [int |-> length] /\ length \in Nat \ {0} /\ at <= Len(disk)
      /\ CanSkip(disk, at + 1, length) /\ SubSeq(disk, at + 1, at + length) = body
  <2>1. disk \in Seq(Cell) /\ at \in Nat \ {0} /\ HasAt(disk, at, w) /\ length = Len(body)
    BY <1>1
  <2>2. Written(w, body)
    BY <1>3
  <2>3. SlotIs(disk, at, length, body)
    BY ONLY <1>4, <2>1, <2>2, SlotHolds
  <2> QED
    BY <2>3 DEF SlotIs
<1>6. "int" \in DOMAIN disk[at] /\ disk[at].int = length
  <2>1. length \in Int /\ disk[at] = [int |-> length]
    BY <1>5
  <2> QED
    BY ONLY <2>1, CellKinds
<1>7. CanRead(disk, at, <<"int">>)
  <2>1. at + 1 - 1 <= Len(disk) /\ Len(<<"int">>) = 1 /\ <<"int">>[1] = "int" /\ at + 1 - 1 = at
    <3>1. at <= Len(disk) /\ at \in Nat
      BY <1>1, <1>5
    <3>2. at + 1 - 1 = at
      BY ONLY <3>1
    <3> QED
      BY ONLY <3>1, <3>2
  <2>2. \A j \in 1 .. 1 : j = 1
    OBVIOUS
  <2> QED
    BY <1>6, <2>1, <2>2 DEF CanRead
<1>8. PICK entry : entry = parse_entry(body, version)
  OBVIOUS
<1>9. entry.ok /\ entry.value = StoredEntry(version, e)
  <2>1. e \in NormalEntries /\ version \in 1 .. 2 /\ IsBody(body, e, version, n, z)
    BY <1>3
  <2> QED
    BY ONLY <1>8, <2>1, EntryReadBack
<1>10. r.ok /\ r.next = at /\ r.value = l
  BY OkResult
<1>11. ~ (length < 0) /\ length # 0 /\ (IF length < 0 THEN 0 - length ELSE length) = length
  BY <1>5
<1>12. ReadSlot(disk, version, r) = Value(Append(l, StoredEntry(version, e)), at + 1 + length)
  <2>1. ReadSlot(disk, version, r)
          = IF ~ r.ok \/ ~ CanRead(disk, at, <<"int">>) \/ length = 0 THEN r
            ELSE IF ~ CanSkip(disk, at + 1, length) THEN Error
            ELSE IF length < 0 THEN Value(l, at + 1 + length)
            ELSE IF ~ entry.ok THEN Error
            ELSE Value(Append(l, entry.value), at + 1 + length)
    BY <1>5, <1>6, <1>8, <1>10, <1>11 DEF ReadSlot
  <2> QED
    BY <1>5, <1>7, <1>9, <1>10, <1>11, <2>1
<1>13. at + 1 + length = at + Len(w)
  <2>1. Len(w) = 1 + length
    BY <1>1, <1>3 DEF Written
  <2> QED
    BY <1>5, <2>1
<1> QED
  BY <1>12, <1>13

\* The cells of a list of entries.
IsEntries(CC, list, version, n) ==
    /\ n \in Nat /\ CC \in [0 .. n -> Seq(Cell)] /\ CC[0] = <<>>
    /\ \A i \in 1 .. n :
          /\ i \in 0 .. n /\ i - 1 \in 0 .. n /\ list[i] \in NormalEntries
          /\ CC[i - 1] \in Seq(Cell) /\ write_entry(list[i], version) \in Seq(Cell)
          /\ Len(write_entry(list[i], version)) \in Nat \ {0}
          /\ CC[i] = CC[i - 1] \o write_entry(list[i], version)
          /\ Len(CC[i]) = Len(CC[i - 1]) + Len(write_entry(list[i], version))

\* The cells of a list of entries, as facts about each prefix.
LEMMA EntriesOfList ==
    ASSUME NEW list \in Seq(NormalEntries), NEW version \in 1 .. 2
    PROVE  IsEntries(EntryCells(list, version), list, version, Len(list))
<1>1. PICK CC, n : CC = EntryCells(list, version) /\ n = Len(list)
  OBVIOUS
<1>0. list \in Seq(EntryRecords) /\ \A i \in 1 .. n : list[i] \in EntryRecords
  BY <1>1 DEF NormalEntries
<1>2. CC \in [0 .. n -> Seq(Cell)]
  BY <1>0, <1>1, EntryCellsFacts
<1>3. CC[0] = <<>>
  BY <1>0, <1>1, EntryCellsFacts
<1>4. \A i \in 1 .. n : CC[i] = CC[i - 1] \o write_entry(list[i], version)
  BY <1>0, <1>1, EntryCellsFacts
<1>5. n \in Nat
  BY <1>1
<1>6. ASSUME NEW i \in 1 .. n
      PROVE  /\ i \in 0 .. n /\ i - 1 \in 0 .. n /\ list[i] \in NormalEntries
             /\ CC[i - 1] \in Seq(Cell) /\ write_entry(list[i], version) \in Seq(Cell)
             /\ Len(write_entry(list[i], version)) \in Nat \ {0}
             /\ CC[i] = CC[i - 1] \o write_entry(list[i], version)
             /\ Len(CC[i]) = Len(CC[i - 1]) + Len(write_entry(list[i], version))
  <2>1. i \in 0 .. n /\ i - 1 \in 0 .. n
    BY <1>5
  <2>2. list[i] \in NormalEntries
    BY <1>1
  <2>3. CC[i - 1] \in Seq(Cell)
    BY <1>2, <2>1
  <2>4. PICK w : w = write_entry(list[i], version)
    OBVIOUS
  <2>5. w \in Seq(Cell) /\ Len(w) \in Nat \ {0}
    <3>1. PICK body : body = EntryBody(list[i], version)
      OBVIOUS
    <3>2. Written(w, body)
      BY <1>0, <2>4, <3>1, WrittenEntry
    <3>3. w \in Seq(Cell) /\ Len(body) \in Nat /\ Len(w) = 1 + Len(body)
      BY <3>2 DEF Written
    <3> QED
      BY <3>3
  <2>6. CC[i] = CC[i - 1] \o w
    BY <1>4, <2>4
  <2>7. Len(CC[i]) = Len(CC[i - 1]) + Len(w)
    BY <2>3, <2>5, <2>6
  <2> QED
    BY <2>1, <2>2, <2>3, <2>4, <2>5, <2>6, <2>7
<1> QED
  BY <1>1, <1>2, <1>3, <1>5, <1>6 DEF IsEntries

\* A file that has the cells of a list has those of its prefixes.
LEMMA EntriesHave ==
    ASSUME NEW list \in Seq(NormalEntries), NEW version \in 1 .. 2, NEW disk \in Seq(Cell), NEW at \in Nat,
           NEW m \in 0 .. Len(list), HasAt(disk, at, EntryCells(list, version)[m]), NEW j \in 0 .. m
    PROVE  HasAt(disk, at, EntryCells(list, version)[j])
<1>1. PICK CC, n : CC = EntryCells(list, version) /\ n = Len(list)
  OBVIOUS
<1>2. n \in Nat /\ m \in 0 .. n /\ HasAt(disk, at, CC[m])
  BY <1>1
<1>0. IsEntries(CC, list, version, n)
  BY <1>1, EntriesOfList
<1> DEFINE S == {i \in 0 .. m : HasAt(disk, at, CC[m - i])}
<1>3. 0 \in S
  BY <1>2
<1>4. ASSUME NEW i \in 1 .. m, i - 1 \in S PROVE i \in S
  <2>1. m - (i - 1) \in 1 .. n /\ m - (i - 1) - 1 = m - i /\ m - i \in 0 .. n /\ i \in 0 .. m
    BY <1>2
  <2>2. CC[m - (i - 1)] = CC[m - i] \o write_entry(list[m - (i - 1)], version)
    BY <1>0, <2>1 DEF IsEntries
  <2>3. HasAt(disk, at, CC[m - (i - 1)])
    BY <1>4
  <2>4. CC[m - i] \in Seq(Cell) /\ write_entry(list[m - (i - 1)], version) \in Seq(Cell)
    BY <1>0, <2>1 DEF IsEntries
  <2>5. HasAt(disk, at, CC[m - i])
    BY <2>2, <2>3, <2>4, HasAtConcat
  <2> QED
    BY <2>1, <2>5
<1>5. m \in Nat /\ m - j \in 0 .. m /\ m - (m - j) = j
  BY <1>2
<1>6. \A i \in 0 .. m : i \in S
  <2> HIDE DEF S
  <2> QED
    BY <1>3, <1>4, <1>5, Induct
<1> QED
  BY <1>1, <1>5, <1>6

\* Every entry takes a cell at least.
LEMMA EntriesLong ==
    ASSUME NEW list \in Seq(NormalEntries), NEW version \in 1 .. 2, NEW j \in 0 .. Len(list)
    PROVE  Len(EntryCells(list, version)[j]) \in Nat /\ Len(EntryCells(list, version)[j]) >= j
<1>1. PICK CC, n : CC = EntryCells(list, version) /\ n = Len(list)
  OBVIOUS
<1>2. IsEntries(CC, list, version, n) /\ n \in Nat
  BY <1>1, EntriesOfList DEF IsEntries
<1> DEFINE S == {i \in 0 .. n : Len(CC[i]) \in Nat /\ Len(CC[i]) >= i}
<1>3. 0 \in S
  <2>1. CC[0] = <<>> /\ 0 \in 0 .. n
    BY <1>2 DEF IsEntries
  <2>2. Len(CC[0]) = 0
    BY <2>1
  <2> QED
    BY <2>1, <2>2
<1>4. ASSUME NEW i \in 1 .. n, i - 1 \in S PROVE i \in S
  <2>1. PICK l : l = Len(write_entry(list[i], version))
    OBVIOUS
  <2>2. i \in 0 .. n /\ l \in Nat \ {0} /\ Len(CC[i]) = Len(CC[i - 1]) + l
    BY <1>2, <2>1 DEF IsEntries
  <2>3. Len(CC[i - 1]) \in Nat /\ Len(CC[i - 1]) >= i - 1
    BY <1>4
  <2> QED
    BY <2>2, <2>3
<1>5. \A i \in 0 .. n : i \in S
  <2> HIDE DEF S
  <2> QED
    BY <1>2, <1>3, <1>4, Induct
<1> QED
  BY <1>1, <1>5

\* The first k entries as they are stored.
StoredEntries(version, list, k) ==
    [i \in 1 .. k |-> StoredEntry(version, list[i])]

\* After k turns the first k entries were read.
LEMMA SlotsSoFar ==
    ASSUME NEW list \in Seq(NormalEntries), NEW version \in 1 .. 2, NEW disk \in Seq(Cell),
           NEW at \in Nat \ {0}, NEW k \in 0 .. Len(list), HasAt(disk, at, EntryCells(list, version)[k])
    PROVE  /\ k \in 0 .. Len(disk)
           /\ at + Len(EntryCells(list, version)[k]) - 1 <= Len(disk)
           /\ SlotsRead(disk, at, version)[k]
                = Value(StoredEntries(version, list, k), at + Len(EntryCells(list, version)[k]))
<1>1. PICK CC, n, R : CC = EntryCells(list, version) /\ n = Len(list) /\ R = SlotsRead(disk, at, version)
  OBVIOUS
<1>2. n \in Nat /\ k \in 0 .. n /\ at \in Nat /\ Len(disk) \in Nat
  BY <1>1
<1>0. IsEntries(CC, list, version, n)
  BY <1>1, EntriesOfList
<1>3. R[0] = Value(<<>>, at) /\ \A i \in 1 .. Len(disk) : R[i] = ReadSlot(disk, version, R[i - 1])
  BY <1>1, SlotsReadFacts
<1>4. \A j \in 0 .. k : HasAt(disk, at, CC[j])
  BY <1>1, <1>2, EntriesHave
<1>5. \A j \in 0 .. k : Len(CC[j]) \in Nat /\ Len(CC[j]) >= j /\ at + Len(CC[j]) - 1 <= Len(disk) /\ j <= Len(disk)
  <2>1. ASSUME NEW j \in 0 .. k PROVE Len(CC[j]) \in Nat /\ Len(CC[j]) >= j /\ at + Len(CC[j]) - 1 <= Len(disk)
    <3>1. j \in 0 .. n
      BY <1>2
    <3> QED
      BY <1>1, <1>4, <3>1, EntriesLong DEF HasAt
  <2>2. Len(disk) \in Nat
    OBVIOUS
  <2> QED
    BY <1>2, <2>1, <2>2
<1> DEFINE S == {i \in 0 .. k : R[i] = Value(StoredEntries(version, list, i), at + Len(CC[i]))}
<1>6. 0 \in S
  <2>1. StoredEntries(version, list, 0) = <<>>
    BY DEF StoredEntries
  <2>2. CC[0] = <<>>
    BY <1>0 DEF IsEntries
  <2>3. at + Len(CC[0]) = at
    BY <1>2, <2>2
  <2> QED
    BY <1>2, <1>3, <2>1, <2>3
<1>7. ASSUME NEW i \in 1 .. k, i - 1 \in S PROVE i \in S
  <2>1. i - 1 \in 0 .. k /\ i \in 0 .. k /\ i \in 1 .. n /\ i \in 1 .. Len(disk) /\ i - 1 \in 0 .. n
    BY <1>2, <1>5
  <2>2. PICK w, next : w = write_entry(list[i], version) /\ next = at + Len(CC[i - 1])
    OBVIOUS
  <2>3. list[i] \in NormalEntries /\ w \in Seq(Cell) /\ Len(w) \in Nat \ {0} /\ CC[i - 1] \in Seq(Cell)
    BY <1>0, <2>1, <2>2 DEF IsEntries
  <2>4. CC[i] = CC[i - 1] \o w /\ Len(CC[i]) = Len(CC[i - 1]) + Len(w)
    BY <1>0, <2>1, <2>2 DEF IsEntries
  <2>5. HasAt(disk, next, w) /\ next \in Nat
    <3>1. HasAt(disk, at, CC[i - 1] \o w)
      BY <1>4, <2>1, <2>4
    <3>2. HasAt(disk, at + Len(CC[i - 1]), w)
      BY <1>2, <2>3, <3>1, HasAtConcat
    <3>3. Len(CC[i - 1]) \in Nat
      BY <1>5, <2>1
    <3> QED
      BY <1>2, <2>2, <3>2, <3>3
  <2>7. R[i - 1] = Value(StoredEntries(version, list, i - 1), next)
    BY <1>7, <2>2
  <2>12. ReadSlot(disk, version, R[i - 1])
           = Value(Append(StoredEntries(version, list, i - 1), StoredEntry(version, list[i])), next + Len(w))
    <3>1. PICK r, l : r = R[i - 1] /\ l = StoredEntries(version, list, i - 1)
      OBVIOUS
    <3>2. next \in Nat \ {0}
      <4>1. PICK a : a = Len(CC[i - 1])
        OBVIOUS
      <4>2. a \in Nat /\ next = at + a /\ at \in Nat \ {0}
        BY <1>5, <2>1, <2>2, <4>1
      <4> QED
        BY ONLY <4>2
    <3>3. /\ list[i] \in NormalEntries /\ version \in 1 .. 2 /\ disk \in Seq(Cell) /\ w = write_entry(list[i], version)
          /\ HasAt(disk, next, w) /\ r = Value(l, next)
      BY <2>2, <2>3, <2>5, <2>7, <3>1
    <3>4. ReadSlot(disk, version, r) = Value(Append(l, StoredEntry(version, list[i])), next + Len(w))
      BY ONLY <3>2, <3>3, SlotReadBack
    <3> QED
      BY <3>1, <3>4
  <2>13. Append(StoredEntries(version, list, i - 1), StoredEntry(version, list[i])) = StoredEntries(version, list, i)
    <3>1. i - 1 \in Nat /\ i - 1 + 1 = i
      BY <1>2
    <3>2. PICK T : T = {StoredEntry(version, list[j]) : j \in 1 .. i}
      OBVIOUS
    <3>3. \A j \in 1 .. i - 1 : j \in 1 .. i
      BY <3>1
    <3>4. StoredEntries(version, list, i - 1) \in [1 .. i - 1 -> T]
      BY <3>2, <3>3 DEF StoredEntries
    <3>5. PICK l, x : l = StoredEntries(version, list, i - 1) /\ x = StoredEntry(version, list[i])
      OBVIOUS
    <3>6. l \in Seq(T) /\ Len(l) = i - 1 /\ \A j \in 1 .. i - 1 : l[j] = StoredEntry(version, list[j])
      BY <3>1, <3>4, <3>5, FunctionIsSeq DEF StoredEntries
    <3>7. Append(l, x) = [j \in 1 .. i |-> IF j = i THEN x ELSE l[j]]
      <4>1. x \in T
        <5>1. i \in 1 .. i
          BY <3>1
        <5> QED
          BY <3>2, <3>5, <5>1
      <4> QED
        BY <3>1, <3>6, <4>1, AppendIs
    <3>8. \A j \in 1 .. i : (IF j = i THEN x ELSE l[j]) = StoredEntry(version, list[j])
      BY <3>1, <3>5, <3>6
    <3>9. Append(l, x) = [j \in 1 .. i |-> StoredEntry(version, list[j])]
      BY <3>7, <3>8
    <3> QED
      BY <3>5, <3>9 DEF StoredEntries
  <2>14. next + Len(w) = at + Len(CC[i])
    <3>1. Len(CC[i - 1]) \in Nat
      BY <1>5, <2>1
    <3>2. PICK a, b, d : a = Len(CC[i - 1]) /\ b = Len(w) /\ d = Len(CC[i])
      OBVIOUS
    <3>3. a \in Nat /\ b \in Nat /\ d = a + b /\ next = at + a /\ at \in Nat
      BY <1>2, <2>2, <2>3, <2>4, <3>1, <3>2
    <3>4. next + b = at + d
      BY ONLY <3>3
    <3> QED
      BY <3>2, <3>4
  <2>15. R[i] = Value(StoredEntries(version, list, i), at + Len(CC[i]))
    BY <1>3, <2>1, <2>12, <2>13, <2>14
  <2> QED
    BY <2>1, <2>15
<1>8. \A i \in 0 .. k : i \in S
  <2>1. k \in Nat
    BY <1>2
  <2> HIDE DEF S
  <2> QED
    BY ONLY <1>6, <1>7, <2>1, Induct
<1>9. k \in 0 .. k /\ k \in 0 .. Len(disk)
  BY <1>2, <1>5
<1>10. k \in S /\ at + Len(CC[k]) - 1 <= Len(disk)
  BY <1>5, <1>8, <1>9
<1> QED
  BY <1>1, <1>9, <1>10

\* The loop ends with its result, at an error or where no length can be read.
LEMMA SlotsStay ==
    ASSUME NEW disk \in Seq(Cell), NEW at \in Nat \ {0}, NEW version \in 1 .. 2, NEW k \in 0 .. Len(disk),
           NEW r, r = SlotsRead(disk, at, version)[k], ~ r.ok \/ ~ CanRead(disk, r.next, <<"int">>)
    PROVE  parse_slots(disk, at, version) = r
<1>1. PICK R, n : R = SlotsRead(disk, at, version) /\ n = Len(disk)
  OBVIOUS
<1>2. n \in Nat /\ \A i \in 1 .. n : R[i] = ReadSlot(disk, version, R[i - 1])
  BY <1>1, SlotsReadFacts
<1>3. ReadSlot(disk, version, r) = r
  BY DEF ReadSlot
<1> DEFINE S == {i \in 0 .. n : i >= k => R[i] = r}
<1>4. 0 \in S
  <2>1. 0 \in 0 .. n /\ (0 >= k => k = 0)
    BY <1>1, <1>2
  <2> QED
    BY <1>1, <2>1
<1>5. ASSUME NEW i \in 1 .. n, i - 1 \in S PROVE i \in S
  <2>1. SUFFICES ASSUME i >= k PROVE R[i] = r
    BY <1>2
  <2>2. CASE i = k
    BY <1>1, <2>2
  <2>3. CASE i # k
    <3>1. i - 1 >= k
      BY <1>1, <1>2, <2>1, <2>3
    <3>2. R[i - 1] = r
      BY <1>5, <3>1
    <3> QED
      BY <1>2, <1>3, <3>2
  <2> QED
    BY <2>2, <2>3
<1>6. \A i \in 0 .. n : i \in S
  <2> HIDE DEF S
  <2> QED
    BY <1>2, <1>4, <1>5, Induct
<1>7. n \in S /\ n >= k
  BY <1>1, <1>2, <1>6
<1> QED
  BY <1>1, <1>7 DEF parse_slots

-----------------------------------------------------------------------------
(* Keytabs.                                                                 *)

Keytabs == [version : 1 .. 2, entries : Seq(NormalEntries)]
StoredKeytab(keytab) ==
    [version |-> keytab.version, entries |-> StoredEntries(keytab.version, keytab.entries, Len(keytab.entries))]

\* keytab_parse in terms of its version and its slots.
LEMMA KeytabParse ==
    ASSUME NEW disk, NEW version, version = disk[2].int, NEW slots, slots = parse_slots(disk, 3, version)
    PROVE  keytab_parse(disk)
             = IF CanRead(disk, 1, <<"int", "int">>) /\ disk[1].int = KEYTAB_FIRST_BYTE /\ version \in {1, 2} /\ slots.ok
               THEN Value([version |-> version, entries |-> slots.value], slots.next) ELSE Error
  BY DEF keytab_parse

\* keytab_parse returns keytabs, whatever the file.
LEMMA KeytabTyped ==
    ASSUME NEW disk \in Seq(Cell), keytab_parse(disk).ok
    PROVE  keytab_parse(disk).value \in Keytabs
<1>1. PICK version, slots : version = disk[2].int /\ slots = parse_slots(disk, 3, version)
  OBVIOUS
<1>2. /\ version \in {1, 2} /\ slots.ok
      /\ keytab_parse(disk) = Value([version |-> version, entries |-> slots.value], slots.next)
  BY <1>1, KeytabParse, OkResult
<1>3. version \in 1 .. 2 /\ 3 \in Nat \ {0} /\ Len(disk) \in 0 .. Len(disk)
  BY <1>2
<1>4. slots \in ReadResults(Seq(NormalEntries))
  <2>1. PICK n, R : n = Len(disk) /\ R = SlotsRead(disk, 3, version)
    OBVIOUS
  <2>2. R \in [0 .. n -> ReadResults(Seq(NormalEntries))]
    BY <1>3, <2>1, SlotsReadFacts
  <2>3. slots = R[n]
    BY <1>1, <2>1 DEF parse_slots
  <2>4. n \in 0 .. n
    BY <1>3, <2>1
  <2> QED
    BY ONLY <2>2, <2>3, <2>4
<1>5. slots.value \in Seq(NormalEntries)
  BY <1>2, <1>4, ReadsResults, ReadsOk
<1> QED
  BY <1>2, <1>3, <1>5, OkResult DEF Keytabs

\* What keytab_to_bytes wrote is read back by keytab_parse, except for what the
\* version does not store.
THEOREM KeytabReadBack ==
    ASSUME NEW keytab \in Keytabs
    PROVE  LET disk == keytab_to_bytes(keytab)
           IN  disk \in Seq(Cell) /\ keytab_parse(disk).ok /\ keytab_parse(disk).value = StoredKeytab(keytab)
<1>1. PICK version, list, n, CC, disk :
        /\ version = keytab.version /\ list = keytab.entries /\ n = Len(list) /\ CC = EntryCells(list, version)
        /\ disk = keytab_to_bytes(keytab)
  OBVIOUS
<1>2. version \in 1 .. 2 /\ list \in Seq(NormalEntries) /\ n \in Nat /\ n \in 0 .. n
  BY <1>1 DEF Keytabs
<1>3. IsEntries(CC, list, version, n)
  BY <1>1, <1>2, EntriesOfList
<1>4. PICK rest : rest = CC[n]
  OBVIOUS
<1>5. rest \in Seq(Cell)
  BY <1>2, <1>3, <1>4 DEF IsEntries
<1>6. PICK a, b, h : a = IntCell(KEYTAB_FIRST_BYTE) /\ b = IntCell(version) /\ h = a \o b
  OBVIOUS
<1>7. disk = h \o rest
  BY <1>1, <1>4, <1>6 DEF keytab_to_bytes
<1>8. h \in Seq(Cell) /\ Len(h) = 2 /\ h[1] = [int |-> KEYTAB_FIRST_BYTE] /\ h[2] = [int |-> version]
  <2>1. [int |-> KEYTAB_FIRST_BYTE] \in Cell /\ [int |-> version] \in Cell
    <3>1. KEYTAB_FIRST_BYTE \in Int /\ version \in Int
      BY <1>2 DEF KEYTAB_FIRST_BYTE
    <3> QED
      BY <3>1, CellKinds
  <2>2. a \in Seq(Cell) /\ Len(a) = 1 /\ a[1] = [int |-> KEYTAB_FIRST_BYTE]
    BY <1>6, <2>1, OneCell DEF IntCell
  <2>3. Longer(a, [int |-> version], h)
    BY <1>6, <2>1, <2>2, OneLonger DEF IntCell
  <2> QED
    BY <2>2, <2>3 DEF Longer
<1>9. /\ disk \in Seq(Cell) /\ Len(disk) = Len(h) + Len(rest)
      /\ \A i \in 1 .. Len(h) : disk[i] = h[i]
      /\ \A i \in 1 .. Len(rest) : disk[Len(h) + i] = rest[i]
  <2>1. h \in Seq(Cell) /\ rest \in Seq(Cell)
    BY <1>5, <1>8
  <2> QED
    BY ONLY <1>7, <2>1, ConcatFacts
<1>10. PICK m : m = Len(rest)
  OBVIOUS
<1>11. m \in Nat /\ Len(disk) = 2 + m /\ \A i \in 1 .. m : disk[2 + i] = rest[i]
  BY <1>5, <1>8, <1>9, <1>10
<1>12. disk[1] = [int |-> KEYTAB_FIRST_BYTE] /\ disk[2] = [int |-> version]
  <2>1. 1 \in 1 .. 2 /\ 2 \in 1 .. 2
    OBVIOUS
  <2>2. disk[1] = h[1] /\ disk[2] = h[2]
    BY ONLY <1>8, <1>9, <2>1
  <2> QED
    BY <1>8, <2>2
<1>13. /\ "int" \in DOMAIN disk[1] /\ disk[1].int = KEYTAB_FIRST_BYTE
       /\ "int" \in DOMAIN disk[2] /\ disk[2].int = version
  <2>1. KEYTAB_FIRST_BYTE \in Int /\ version \in Int
    BY <1>2 DEF KEYTAB_FIRST_BYTE
  <2> QED
    BY <1>12, <2>1, CellKinds
<1>14. CanRead(disk, 1, <<"int", "int">>)
  <2>1. /\ 1 + 2 - 1 <= Len(disk) /\ Len(<<"int", "int">>) = 2 /\ <<"int", "int">>[1] = "int" /\ <<"int", "int">>[2] = "int"
        /\ 1 + 1 - 1 = 1 /\ 1 + 2 - 1 = 2
    BY <1>11
  <2>2. \A j \in 1 .. 2 : j = 1 \/ j = 2
    OBVIOUS
  <2> QED
    BY <1>13, <2>1, <2>2 DEF CanRead
<1>15. HasAt(disk, 3, rest)
  <2>1. 3 + m - 1 <= Len(disk)
    BY <1>11
  <2>2. \A i \in 1 .. m : disk[3 + i - 1] = rest[i]
    <3>1. \A i \in 1 .. m : 3 + i - 1 = 2 + i
      BY <1>11
    <3> QED
      BY <1>11, <3>1
  <2> QED
    BY <1>10, <2>1, <2>2 DEF HasAt
<1>16. PICK R, l : R = SlotsRead(disk, 3, version) /\ l = StoredEntries(version, list, n)
  OBVIOUS
<1>17. n \in 0 .. Len(disk) /\ R[n] = Value(l, 3 + Len(CC[n]))
  <2>1. /\ list \in Seq(NormalEntries) /\ version \in 1 .. 2 /\ disk \in Seq(Cell) /\ 3 \in Nat \ {0} /\ n \in 0 .. Len(list)
        /\ HasAt(disk, 3, EntryCells(list, version)[n])
    BY <1>1, <1>2, <1>4, <1>9, <1>15
  <2>2. n \in 0 .. Len(disk) /\ SlotsRead(disk, 3, version)[n] = Value(StoredEntries(version, list, n), 3 + Len(EntryCells(list, version)[n]))
    BY ONLY <2>1, SlotsSoFar
  <2> QED
    BY <1>1, <1>16, <2>2
<1>18. PICK next : next = 3 + m
  OBVIOUS
<1>19. R[n] = Value(l, next)
  BY <1>4, <1>10, <1>17, <1>18
<1>20. ~ CanRead(disk, next, <<"int">>)
  <2>1. ~ (next + Len(<<"int">>) - 1 <= Len(disk))
    BY <1>11, <1>18
  <2> QED
    BY <2>1 DEF CanRead
<1>21. PICK slots : slots = parse_slots(disk, 3, version)
  OBVIOUS
<1>22. slots = Value(l, next)
  <2>1. PICK r : r = Value(l, next)
    OBVIOUS
  <2>2. r.next = next /\ r = SlotsRead(disk, 3, version)[n] /\ 3 \in Nat \ {0}
    BY <1>16, <1>19, <2>1, OkResult
  <2>3. ~ CanRead(disk, r.next, <<"int">>)
    BY <1>20, <2>2
  <2>4. n \in 0 .. Len(disk) /\ disk \in Seq(Cell) /\ version \in 1 .. 2
    BY <1>2, <1>9, <1>17
  <2>5. parse_slots(disk, 3, version) = r
    BY ONLY <2>2, <2>3, <2>4, SlotsStay
  <2> QED
    BY <1>21, <2>1, <2>5
<1>23. slots.ok /\ slots.value = l
  BY <1>22, OkResult
<1>24. keytab_parse(disk) = Value([version |-> version, entries |-> l], slots.next)
  <2>1. version = disk[2].int /\ version \in {1, 2} /\ disk[1].int = KEYTAB_FIRST_BYTE
    BY <1>2, <1>13
  <2> QED
    BY <1>14, <1>21, <1>23, <2>1, KeytabParse
<1> QED
  BY <1>1, <1>9, <1>16, <1>24, OkResult DEF StoredKeytab

\* What a keytab holds is still there when it was written and read.
LEMMA StoredKeytabContent ==
    ASSUME NEW keytab \in Keytabs
    PROVE  KeytabContent(StoredKeytab(keytab)) = KeytabContent(keytab)
<1>1. PICK version, list, n, l : /\ version = keytab.version /\ list = keytab.entries /\ n = Len(list)
                                 /\ l = StoredEntries(version, list, n)
  OBVIOUS
<1>2. version \in 1 .. 2 /\ list \in Seq(NormalEntries) /\ n \in Nat /\ DOMAIN list = 1 .. n
  BY <1>1 DEF Keytabs
<1>3. StoredKeytab(keytab).entries = l
  BY <1>1 DEF StoredKeytab
<1>4. DOMAIN l = 1 .. n
  BY <1>1 DEF StoredEntries
<1>5. ASSUME NEW i \in 1 .. n
      PROVE  /\ l[i].principal = list[i].principal /\ l[i].realm = list[i].realm /\ l[i].kvno = list[i].kvno
             /\ l[i].timestamp = list[i].timestamp /\ l[i].etype = list[i].etype /\ l[i].key = list[i].key
  <2>1. list[i] \in EntryRecords
    BY <1>2 DEF NormalEntries
  <2>2. l[i] = StoredEntry(version, list[i])
    BY <1>1 DEF StoredEntries
  <2> QED
    BY <2>1, <2>2 DEF StoredEntry, EntryRecords
<1>6. PICK D : D = {j \in 1 .. n : list[j].principal = KeytabName.principal /\ list[j].realm = KeytabName.realm}
  OBVIOUS
<1>7. D = {j \in 1 .. n : l[j].principal = KeytabName.principal /\ l[j].realm = KeytabName.realm}
  BY <1>5, <1>6
<1>8. KeytabContent(keytab)
        = {[kvno |-> list[i].kvno, timestamp |-> list[i].timestamp, etype |-> list[i].etype, key |-> list[i].key] : i \in D}
  BY <1>1, <1>2, <1>6 DEF KeytabContent
<1>9. KeytabContent(StoredKeytab(keytab))
        = {[kvno |-> l[i].kvno, timestamp |-> l[i].timestamp, etype |-> l[i].etype, key |-> l[i].key] : i \in D}
  BY <1>3, <1>4, <1>7 DEF KeytabContent
<1>10. \A i \in D : i \in 1 .. n
  BY <1>6
<1> QED
  BY <1>5, <1>8, <1>9, <1>10

KeyRecords == [kvno : Int, timestamp : Int, etype : Int, key : Int]
KeyOf(e) == [kvno |-> e.kvno, timestamp |-> e.timestamp, etype |-> e.etype, key |-> e.key]
Named(e) == e.principal = KeytabName.principal /\ e.realm = KeytabName.realm

\* The keys of a keytab under KeytabName.
LEMMA ContentOf ==
    ASSUME NEW keytab \in Keytabs, NEW x
    PROVE  x \in KeytabContent(keytab)
             <=> \E i \in 1 .. Len(keytab.entries) : Named(keytab.entries[i]) /\ x = KeyOf(keytab.entries[i])
<1>1. DOMAIN keytab.entries = 1 .. Len(keytab.entries)
  BY DEF Keytabs
<1> QED
  BY <1>1 DEF KeytabContent, Named, KeyOf

\* A new keytab has no keys.
LEMMA NewKeytabFacts == NewKeytab \in Keytabs /\ KeytabContent(NewKeytab) = {}
<1>1. NewKeytab \in Keytabs
  BY DEF NewKeytab, Keytabs
<1>2. DOMAIN NewKeytab.entries = {}
  BY DEF NewKeytab
<1> QED
  BY <1>1, <1>2 DEF KeytabContent

\* add_entry_from_password adds one key.
LEMMA AddedKeyFacts ==
    ASSUME NEW keytab \in Keytabs, NEW key \in Int, NEW stamp \in Int, NEW kvno \in Int,
           NEW added, added = add_entry_from_password(keytab, KeytabName.principal, KeytabName.realm, key, stamp, kvno, 18)
    PROVE  /\ added \in Keytabs
           /\ KeytabContent(added)
                = KeytabContent(keytab) \cup {[kvno |-> kvno, timestamp |-> stamp, etype |-> 18, key |-> key]}
<1>1. PICK list, e, n : /\ list = keytab.entries /\ n = Len(list)
        /\ e = [principal |-> KeytabName.principal, realm |-> KeytabName.realm, name_type |-> 1, timestamp |-> stamp,
                kvno8 |-> kvno, etype |-> 18, key |-> key, kvno |-> kvno]
  OBVIOUS
<1>2. list \in Seq(NormalEntries) /\ keytab.version \in 1 .. 2 /\ n \in Nat
      /\ keytab = [version |-> keytab.version, entries |-> list]
  BY <1>1 DEF Keytabs
<1>3. e \in NormalEntries
  <2>1. KeytabName.principal \in Seq(Text) /\ KeytabName.realm \in Text
    BY InputAssumption
  <2>2. 1 \in Int /\ 18 \in Int
    OBVIOUS
  <2>3. e \in EntryRecords
    BY <1>1, <2>1, <2>2 DEF EntryRecords
  <2> QED
    BY <1>1, <2>3 DEF NormalEntries
<1>4. PICK new : new = Append(list, e)
  OBVIOUS
<1>5. added = [version |-> keytab.version, entries |-> new]
  <2>1. added = [keytab EXCEPT !.entries = Append(@, e)]
    BY <1>1 DEF add_entry_from_password
  <2> QED
    BY ONLY <1>1, <1>2, <1>4, <2>1
<1>6. new \in Seq(NormalEntries) /\ Len(new) = n + 1 /\ new[n + 1] = e /\ \A i \in 1 .. n : new[i] = list[i]
  <2>1. list \in Seq(NormalEntries) /\ e \in NormalEntries /\ n = Len(list)
    BY <1>1, <1>2, <1>3
  <2> QED
    BY ONLY <1>4, <2>1
<1>7. added \in Keytabs
  BY <1>2, <1>5, <1>6 DEF Keytabs
<1>8. Named(e) /\ KeyOf(e) = [kvno |-> kvno, timestamp |-> stamp, etype |-> 18, key |-> key]
  BY <1>1 DEF Named, KeyOf
<1>9. ASSUME NEW x
      PROVE  x \in KeytabContent(added) <=> (x \in KeytabContent(keytab) \/ x = KeyOf(e))
  <2>1. x \in KeytabContent(added) <=> \E i \in 1 .. n + 1 : Named(new[i]) /\ x = KeyOf(new[i])
    BY <1>5, <1>6, <1>7, ContentOf
  <2>2. x \in KeytabContent(keytab) <=> \E i \in 1 .. n : Named(list[i]) /\ x = KeyOf(list[i])
    BY <1>1, ContentOf
  <2>3. n + 1 \in 1 .. n + 1 /\ (\A i \in 1 .. n + 1 : i = n + 1 \/ i \in 1 .. n) /\ (\A i \in 1 .. n : i \in 1 .. n + 1)
    BY <1>2
  <2>4. \A i \in 1 .. n : new[i] = list[i]
    BY <1>6
  <2>5. new[n + 1] = e
    BY <1>6
  <2>6. Named(e)
    BY <1>8
  <2> QED
    BY ONLY <2>1, <2>2, <2>3, <2>4, <2>5, <2>6
<1> QED
  BY <1>7, <1>8, <1>9

\* The keys that a file holds, in whichever order.
HoldsKeys(disk, content) ==
    /\ disk \in Seq(Cell) /\ keytab_parse(disk).ok /\ content \in Seq(KeyRecords)
    /\ {content[i] : i \in DOMAIN content} = KeytabContent(keytab_parse(disk).value)

\* A keytab with a key added and saved holds the keys it had and the new one.
LEMMA AddKeyFacts ==
    ASSUME NEW keytab \in Keytabs, NEW key \in Int, NEW stamp \in Int, NEW kvno \in Int,
           NEW added, added = add_entry_from_password(keytab, KeytabName.principal, KeytabName.realm, key, stamp, kvno, 18),
           NEW content \in Seq(KeyRecords), {content[i] : i \in DOMAIN content} = KeytabContent(keytab)
    PROVE  HoldsKeys(keytab_to_bytes(added),
                     Append(content, [kvno |-> kvno, timestamp |-> stamp, etype |-> 18, key |-> key]))
<1>1. PICK x, new, n, disk : /\ x = [kvno |-> kvno, timestamp |-> stamp, etype |-> 18, key |-> key]
                             /\ new = Append(content, x) /\ n = Len(content) /\ disk = keytab_to_bytes(added)
  OBVIOUS
<1>2. added \in Keytabs /\ KeytabContent(added) = KeytabContent(keytab) \cup {x}
  BY <1>1, AddedKeyFacts
<1>3. disk \in Seq(Cell) /\ keytab_parse(disk).ok /\ keytab_parse(disk).value = StoredKeytab(added)
  BY <1>1, <1>2, KeytabReadBack
<1>4. KeytabContent(keytab_parse(disk).value) = KeytabContent(keytab) \cup {x}
  BY <1>2, <1>3, StoredKeytabContent
<1>5. x \in KeyRecords
  BY <1>1 DEF KeyRecords
<1>6. /\ new \in Seq(KeyRecords) /\ Len(new) = n + 1 /\ new[n + 1] = x /\ \A i \in 1 .. n : new[i] = content[i]
      /\ n \in Nat /\ DOMAIN content = 1 .. n /\ DOMAIN new = 1 .. n + 1
  <2>1. content \in Seq(KeyRecords)
    OBVIOUS
  <2>2. x \in KeyRecords /\ n = Len(content) /\ new = Append(content, x)
    BY <1>1, <1>5
  <2> QED
    BY ONLY <2>1, <2>2
<1>7. {new[i] : i \in DOMAIN new} = {content[i] : i \in DOMAIN content} \cup {x}
  <2>1. n + 1 \in 1 .. n + 1 /\ (\A i \in 1 .. n + 1 : i = n + 1 \/ i \in 1 .. n) /\ (\A i \in 1 .. n : i \in 1 .. n + 1)
    BY <1>6
  <2> QED
    BY ONLY <1>6, <2>1
<1>8. HoldsKeys(disk, new)
  BY <1>3, <1>4, <1>6, <1>7 DEF HoldsKeys
<1> QED
  BY <1>1, <1>8

\* The newest of some entries, and the first of the newest.
Newest(list, M, i) ==
    i \in M /\ \A j \in M : \/ list[j].timestamp < list[i].timestamp
                            \/ list[j].timestamp = list[i].timestamp /\ i <= j

\* Among entries there is a newest.
LEMMA NewestExists ==
    ASSUME NEW list \in Seq(NormalEntries), NEW M, M \subseteq 1 .. Len(list), M # {}
    PROVE  \E i : Newest(list, M, i)
<1>1. PICK n : n = Len(list)
  OBVIOUS
<1>2. n \in Nat /\ M \subseteq 1 .. n /\ \A i \in 1 .. n : list[i].timestamp \in Int
  <2>1. n \in Nat /\ M \subseteq 1 .. n
    BY <1>1
  <2>2. \A i \in 1 .. n : list[i] \in EntryRecords
    BY <1>1 DEF NormalEntries
  <2> QED
    BY <2>1, <2>2, EntryTypes
<1> DEFINE Upto(k) == {i \in M : i <= k}
           S == {k \in 0 .. n : Upto(k) # {} => \E i : Newest(list, Upto(k), i)}
<1>3. 0 \in S
  <2>1. Upto(0) = {}
    <3>1. \A i \in 1 .. n : ~ (i <= 0)
      BY ONLY <1>2
    <3>2. \A i \in M : i \in 1 .. n
      BY <1>2
    <3> QED
      BY ONLY <3>1, <3>2
  <2>2. 0 \in 0 .. n
    BY ONLY <1>2
  <2> QED
    BY <2>1, <2>2
<1>4. ASSUME NEW k \in 1 .. n, k - 1 \in S PROVE k \in S
  <2>0. k \in 0 .. n
    BY ONLY <1>2, k \in 1 .. n
  <2>1. SUFFICES ASSUME Upto(k) # {} PROVE \E i : Newest(list, Upto(k), i)
    BY <2>0
  <2>2. \A j \in Upto(k) : j \in 1 .. n /\ (j = k \/ j \in Upto(k - 1))
    <3>1. \A j \in 1 .. n : j <= k => j = k \/ j <= k - 1
      BY ONLY <1>2, k \in 1 .. n
    <3> QED
      BY <1>2, <3>1
  <2>3. \A j \in Upto(k - 1) : j \in Upto(k) /\ j < k
    BY <1>2
  <2>4. CASE k \notin M
    <3>1. Upto(k) = Upto(k - 1)
      BY <2>2, <2>3, <2>4
    <3> QED
      BY <1>4, <2>1, <3>1
  <2>5. CASE k \in M /\ Upto(k - 1) = {}
    <3>1. k \in Upto(k) /\ \A j \in Upto(k) : j = k
      BY <1>2, <2>2, <2>5
    <3>2. Newest(list, Upto(k), k)
      BY <1>2, <3>1 DEF Newest
    <3> QED
      BY <3>2
  <2>6. CASE k \in M /\ Upto(k - 1) # {}
    <3>1. PICK i : Newest(list, Upto(k - 1), i)
      BY <1>4, <2>6
    <3>2. i \in Upto(k - 1) /\ i \in 1 .. n /\ i < k /\ i \in Upto(k) /\ k \in Upto(k)
      BY <1>2, <2>3, <2>6, <3>1 DEF Newest
    <3>3. \A j \in Upto(k - 1) : \/ list[j].timestamp < list[i].timestamp
                                 \/ list[j].timestamp = list[i].timestamp /\ i <= j
      BY <3>1 DEF Newest
    <3>4. CASE list[k].timestamp > list[i].timestamp
      <4>1. ASSUME NEW j \in Upto(k)
            PROVE  list[j].timestamp < list[k].timestamp \/ (list[j].timestamp = list[k].timestamp /\ k <= j)
        <5>1. CASE j = k
          BY <1>2, <5>1
        <5>2. CASE j \in Upto(k - 1)
          <6>1. list[j].timestamp <= list[i].timestamp
            <7>1. list[j].timestamp < list[i].timestamp \/ list[j].timestamp = list[i].timestamp
              BY <3>3, <5>2
            <7>2. list[j].timestamp \in Int /\ list[i].timestamp \in Int
              BY <1>2, <2>2, <3>2
            <7> QED
              BY ONLY <7>1, <7>2
          <6> QED
            BY <1>2, <2>2, <3>2, <3>4, <6>1
        <5> QED
          BY <2>2, <5>1, <5>2
      <4>2. Newest(list, Upto(k), k)
        BY <3>2, <4>1 DEF Newest
      <4> QED
        BY <4>2
    <3>5. CASE ~ (list[k].timestamp > list[i].timestamp)
      <4>1. list[k].timestamp < list[i].timestamp \/ (list[k].timestamp = list[i].timestamp /\ i <= k)
        BY <1>2, <3>2, <3>5
      <4>2. \A j \in Upto(k) : \/ list[j].timestamp < list[i].timestamp
                               \/ list[j].timestamp = list[i].timestamp /\ i <= j
        BY <2>2, <3>3, <4>1
      <4>3. Newest(list, Upto(k), i)
        BY <3>2, <4>2 DEF Newest
      <4> QED
        BY <4>3
    <3> QED
      BY <3>4, <3>5
  <2> QED
    BY <2>4, <2>5, <2>6
<1>5. \A i \in 0 .. n : i \in S
  <2>1. n \in Nat
    BY <1>2
  <2> HIDE DEF S
  <2> QED
    BY ONLY <1>3, <1>4, <2>1, Induct
<1>6. n \in 0 .. n /\ Upto(n) = M
  <2>1. \A i \in 1 .. n : i <= n
    BY ONLY <1>2
  <2>2. Upto(n) = M
    BY ONLY <1>2, <2>1
  <2> QED
    BY ONLY <1>2, <2>2
<1>7. n \in S
  BY <1>5, <1>6
<1> QED
  BY <1>6, <1>7

\* find_key's choice is a newest one.
LEMMA SelectedNewest ==
    ASSUME NEW list \in Seq(NormalEntries), NEW M, M \subseteq 1 .. Len(list), M # {}
    PROVE  Newest(list, M, Selected(list, M))
<1>1. \E i : Newest(list, M, i)
  BY NewestExists
<1>2. Selected(list, M) = CHOOSE i : Newest(list, M, i)
  BY DEF Selected, Newest
<1> QED
  BY <1>1, <1>2, Zenon

\* What a lookup finds in a file.
KeyFound(match, content, kvno) ==
    LET keys == {i \in DOMAIN content : content[i].etype = 18 /\ kvno \in {AnyKvno, content[i].kvno}}
    IN  IF keys = {} THEN ~ match.found
        ELSE /\ match.found
             /\ \E i \in keys :
                    /\ match.key = content[i].key /\ match.kvno = content[i].kvno
                    /\ \A j \in keys : content[j].timestamp <= content[i].timestamp

\* find_key finds a key of the asked version, and the newest for any version,
\* if there is one.
LEMMA LookupFinds ==
    ASSUME NEW keytab \in Keytabs, NEW content \in Seq(KeyRecords), NEW kvno,
           {content[i] : i \in DOMAIN content} = KeytabContent(keytab)
    PROVE  KeyFound(find_key(keytab.entries, KeytabName.principal, KeytabName.realm, kvno, 18), content, kvno)
<1>1. PICK list, n, M, keys, match :
        /\ list = keytab.entries /\ n = Len(list)
        /\ M = MatchingEntries(list, KeytabName.principal, KeytabName.realm, kvno, 18)
        /\ keys = {i \in DOMAIN content : content[i].etype = 18 /\ kvno \in {AnyKvno, content[i].kvno}}
        /\ match = find_key(list, KeytabName.principal, KeytabName.realm, kvno, 18)
  OBVIOUS
<1>2. /\ list \in Seq(NormalEntries) /\ n \in Nat /\ DOMAIN list = 1 .. n
      /\ \A i \in 1 .. n : list[i] \in EntryRecords
  BY <1>1 DEF Keytabs, NormalEntries
<1>3. /\ M \subseteq 1 .. n
      /\ \A i \in 1 .. n : i \in M <=> Named(list[i]) /\ list[i].etype = 18 /\ (kvno = AnyKvno \/ list[i].kvno = kvno)
  BY <1>1, <1>2 DEF MatchingEntries, EntryMatches, Named
<1>4. ASSUME NEW m \in M
      PROVE  \E i \in keys : content[i] = KeyOf(list[m])
  <2>1. m \in 1 .. n /\ Named(list[m]) /\ list[m].etype = 18 /\ (kvno = AnyKvno \/ list[m].kvno = kvno)
    BY <1>3
  <2>2. KeyOf(list[m]) \in KeytabContent(keytab)
    BY <1>1, <2>1, ContentOf
  <2>3. PICK i \in DOMAIN content : content[i] = KeyOf(list[m])
    BY <2>2
  <2>4. content[i].etype = 18 /\ content[i].kvno = list[m].kvno
    BY <2>1, <2>3 DEF KeyOf
  <2>5. i \in keys
    BY <1>1, <2>1, <2>4
  <2> QED
    BY <2>3, <2>5
<1>5. ASSUME NEW i \in keys
      PROVE  \E m \in M : content[i] = KeyOf(list[m])
  <2>1. i \in DOMAIN content /\ content[i].etype = 18 /\ kvno \in {AnyKvno, content[i].kvno}
    BY <1>1
  <2>2. content[i] \in KeytabContent(keytab)
    BY <2>1
  <2>3. PICK m \in 1 .. n : Named(list[m]) /\ content[i] = KeyOf(list[m])
    BY <1>1, <2>2, ContentOf
  <2>4. list[m].etype = 18 /\ list[m].kvno = content[i].kvno
    BY <2>1, <2>3 DEF KeyOf
  <2>5. m \in M
    BY <1>3, <2>1, <2>3, <2>4
  <2> QED
    BY <2>3, <2>5
<1>6. CASE M = {}
  <2>1. keys = {}
    BY <1>5, <1>6
  <2>2. ~ match.found
    BY <1>1, <1>6 DEF find_key, NoMatchingKey
  <2>3. KeyFound(match, content, kvno)
    BY <1>1, <2>1, <2>2 DEF KeyFound
  <2> QED
    BY <1>1, <2>3
<1>7. CASE M # {}
  <2>1. PICK s : s = Selected(list, M)
    OBVIOUS
  <2>2. Newest(list, M, s)
    BY <1>1, <1>2, <1>3, <1>7, <2>1, SelectedNewest
  <2>3. match.found /\ match.key = list[s].key /\ match.kvno = list[s].kvno
    BY <1>1, <1>7, <2>1 DEF find_key
  <2>4. s \in M
    BY <2>2 DEF Newest
  <2>5. PICK i \in keys : content[i] = KeyOf(list[s])
    BY <1>4, <2>4
  <2>6. match.key = content[i].key /\ match.kvno = content[i].kvno /\ content[i].timestamp = list[s].timestamp
    BY <2>3, <2>5 DEF KeyOf
  <2>7. ASSUME NEW j \in keys PROVE content[j].timestamp <= content[i].timestamp
    <3>1. PICK m \in M : content[j] = KeyOf(list[m])
      BY <1>5
    <3>2. content[j].timestamp = list[m].timestamp
      BY <3>1 DEF KeyOf
    <3>3. list[m].timestamp < list[s].timestamp \/ list[m].timestamp = list[s].timestamp
      BY <2>2, <3>1 DEF Newest
    <3>4. list[m].timestamp \in Int /\ list[s].timestamp \in Int
      BY <1>2, <1>3, <2>4, <3>1 DEF EntryRecords
    <3> QED
      BY <2>6, <3>2, <3>3, <3>4
  <2>8. KeyFound(match, content, kvno)
    <3>1. keys # {}
      BY <2>5
    <3> QED
      BY <1>1, <2>3, <2>5, <2>6, <2>7, <3>1 DEF KeyFound
  <2> QED
    BY <1>1, <2>8
<1> QED
  BY <1>6, <1>7

-----------------------------------------------------------------------------
(* The inductive invariant of CredentialFiles.                              *)

Pcs == {"idle", "no primary", "primary", "prepared", "writing"}
ProcessTyped(r) ==
    /\ r = [pc |-> r.pc, op |-> r.op, client |-> r.client, sessions |-> r.sessions,
            after |-> r.after, todo |-> r.todo, at |-> r.at, seen |-> r.seen]
    /\ r.pc \in Pcs /\ r.todo \in Seq(Cell) /\ r.at \in Nat /\ r.seen \in Int
    /\ r.pc # "writing" => r.at = 0
    /\ r.at = 0 \/ r.at < Len(r.todo)

FilesTyped ==
    /\ config \in Configs /\ primary \in {"absent", "", "tkt\n"} /\ file \in Seq(Cell) \cup {Nil}
    /\ tickets \in Nat /\ changes \in Nat /\ troubles \subseteq {"overlap", "damage"}
    /\ issued \subseteq CredentialRecords
    /\ process = [p \in Processes |-> process[p]]

\* The cells hold the content.
Holds(format, cells, content) ==
    IF format = "ccache" THEN Represents(cells, content) ELSE HoldsKeys(cells, content)

\* A client's own sessions.
ClientOK(r, known) ==
    /\ r.client \in Principals /\ GoodSessions(r.sessions, r.client)
    /\ {to_ccache_credential(s) : s \in r.sessions} \subseteq known

\* What is to be written.
Busy(r) == r.pc \in {"prepared", "writing"}
RecordOK(r, format, n, bad, known) ==
    /\ ProcessTyped(r) /\ r.seen <= n
    /\ format = "ccache" =>
          /\ ClientOK(r, known)
          /\ Busy(r) /\ (r.op = "save" \/ (r.seen = n /\ "overlap" \notin bad)) => Intact(r.todo, known)
    /\ Busy(r) /\ (r.op = "save" \/ (r.seen = n /\ bad = {})) => Holds(format, r.todo, r.after)

\* A writer that nobody else came in the way of.
WriterOK(r, disk, n, bad) ==
    r.pc = "writing" =>
        /\ disk \in Seq(Cell)
        /\ "overlap" \notin bad => r.seen = n
        /\ r.seen = n => disk = SubSeq(r.todo, 1, r.at)
OthersOK ==
    \A p, q \in Processes :
        Busy(process[p]) /\ process[p].seen = changes /\ p # q => process[q].pc # "writing"

\* The file as writers left it.
FileIntact(disk, known) ==
    \E cells : Intact(cells, known) /\ (disk = cells \/ StopsIn(disk, 1, cells))
Latest(format, disk, content) ==
    IF disk = Nil THEN content = (IF format = "ccache" THEN Nil ELSE <<>>) ELSE Holds(format, disk, content)

FilesInv ==
    /\ FilesTyped
    /\ \A p \in Processes : RecordOK(process[p], config.format, changes, troubles, issued)
    /\ \A p \in Processes : WriterOK(process[p], file, changes, troubles)
    /\ OthersOK
    /\ config.format = "ccache" /\ file # Nil /\ "overlap" \notin troubles => FileIntact(file, issued)
    /\ troubles = {} /\ Quiet => Latest(config.format, file, store)

\* A cache of known credentials stays one as more become known.
LEMMA IntactGrows ==
    ASSUME NEW known, NEW more, known \subseteq more, NEW cells, Intact(cells, known)
    PROVE  Intact(cells, more)
<1>1. PICK cache \in NormalCaches : cells = to_bytes(cache) /\ AllKnown(cache, known)
  BY DEF Intact
<1>2. AllKnown(cache, more)
  BY <1>1 DEF AllKnown, Known
<1> QED
  BY <1>1, <1>2 DEF Intact

\* So does a file that was cut off.
LEMMA FileIntactGrows ==
    ASSUME NEW known, NEW more, known \subseteq more, NEW disk, FileIntact(disk, known)
    PROVE  FileIntact(disk, more)
  BY IntactGrows DEF FileIntact

\* So do a process and what it is about to write.
LEMMA RecordGrows ==
    ASSUME NEW known, NEW more, known \subseteq more, NEW r, NEW format, NEW n, NEW bad,
           RecordOK(r, format, n, bad, known)
    PROVE  RecordOK(r, format, n, bad, more)
<1>1. ClientOK(r, known) => ClientOK(r, more)
  BY DEF ClientOK
<1>2. Intact(r.todo, known) => Intact(r.todo, more)
  BY IntactGrows
<1> QED
  BY <1>1, <1>2 DEF RecordOK

\* A step of one process that does not touch the file.
FileStep(p, r) ==
    /\ process' = [q \in Processes |-> IF q = p THEN r ELSE process[q]]
    /\ config' = config /\ file' = file /\ changes' = changes /\ store' = store /\ troubles' = troubles
    /\ issued \subseteq issued' /\ issued' \subseteq CredentialRecords
    /\ tickets' \in Nat /\ primary' \in {"absent", "", "tkt\n"}
    /\ process[p].pc # "writing" /\ r.pc # "writing"

\* A step of one process that leaves the file alone keeps the invariant, if its
\* record is in order.
LEMMA LocalKeeps ==
    ASSUME FilesInv, NEW p \in Processes, NEW r, FileStep(p, r),
           RecordOK(r, config.format, changes, troubles, issued'),
           Busy(r) /\ r.seen = changes => ~ Writing(p)
    PROVE  FilesInv'
<1>1. /\ process' = [q \in Processes |-> IF q = p THEN r ELSE process[q]]
      /\ config' = config /\ file' = file /\ changes' = changes /\ store' = store /\ troubles' = troubles
      /\ issued \subseteq issued' /\ process[p].pc # "writing" /\ r.pc # "writing"
  BY DEF FileStep
<1>2. \A q \in Processes : process'[q] = IF q = p THEN r ELSE process[q]
  BY <1>1
<1>3. FilesTyped'
  <2>1. process' = [q \in Processes |-> process'[q]]
    BY <1>1
  <2> QED
    BY <1>1, <2>1 DEF FilesInv, FilesTyped, FileStep
<1>4. ASSUME NEW q \in Processes PROVE RecordOK(process'[q], config'.format, changes', troubles', issued')
  <2>1. CASE q = p
    BY <1>1, <1>2, <2>1
  <2>2. CASE q # p
    <3>1. RecordOK(process[q], config.format, changes, troubles, issued)
      BY DEF FilesInv
    <3>2. RecordOK(process[q], config.format, changes, troubles, issued')
      BY <1>1, <3>1, RecordGrows
    <3> QED
      BY <1>1, <1>2, <2>2, <3>2
  <2> QED
    BY <2>1, <2>2
<1>5. ASSUME NEW q \in Processes PROVE WriterOK(process'[q], file', changes', troubles')
  <2>1. CASE q = p
    BY <1>1, <1>2, <2>1 DEF WriterOK
  <2>2. CASE q # p
    <3>1. WriterOK(process[q], file, changes, troubles)
      BY DEF FilesInv
    <3> QED
      BY <1>1, <1>2, <2>2, <3>1
  <2> QED
    BY <2>1, <2>2
<1>6. OthersOK'
  <2>1. SUFFICES ASSUME NEW x \in Processes, NEW q \in Processes,
                        Busy(process'[x]), process'[x].seen = changes', x # q
                 PROVE  process'[q].pc # "writing"
    BY DEF OthersOK
  <2>2. CASE q = p
    BY <1>1, <1>2, <2>2
  <2>3. CASE q # p /\ x # p
    BY <1>1, <1>2, <2>1, <2>3 DEF FilesInv, OthersOK
  <2>4. CASE q # p /\ x = p
    <3>1. ~ Writing(p)
      BY <1>1, <1>2, <2>1, <2>4
    <3> QED
      BY <1>2, <2>4, <3>1 DEF Writing
  <2> QED
    BY <2>2, <2>3, <2>4
<1>7. config'.format = "ccache" /\ file' # Nil /\ "overlap" \notin troubles' => FileIntact(file', issued')
  <2>1. config.format = "ccache" /\ file # Nil /\ "overlap" \notin troubles => FileIntact(file, issued)
    BY DEF FilesInv
  <2> QED
    BY <1>1, <2>1, FileIntactGrows
<1>8. Quiet' => Quiet
  BY <1>1, <1>2 DEF Quiet
<1>9. troubles' = {} /\ Quiet' => Latest(config'.format, file', store')
  <2>1. troubles = {} /\ Quiet => Latest(config.format, file, store)
    BY DEF FilesInv
  <2> QED
    BY <1>1, <1>8, <2>1
<1> QED
  BY <1>3, <1>4, <1>5, <1>6, <1>7, <1>9 DEF FilesInv

-----------------------------------------------------------------------------
(* One process at a time.                                                   *)

Others(f, S, p, r) == [q \in S |-> IF q = p THEN r ELSE f[q]]
Explicit(r) ==
    [pc |-> r.pc, op |-> r.op, client |-> r.client, sessions |-> r.sessions,
     after |-> r.after, todo |-> r.todo, at |-> r.at, seen |-> r.seen]

\* One process changed, the others as they are.
LEMMA ExceptOne ==
    ASSUME NEW S, NEW f, f = [q \in S |-> f[q]], NEW p \in S, NEW r
    PROVE  [f EXCEPT ![p] = r] = Others(f, S, p, r)
  BY DEF Others

\* Likewise when only pc changes,
LEMMA ExceptPc ==
    ASSUME NEW S, NEW f, f = [q \in S |-> f[q]], NEW p \in S, NEW x, NEW g, g = [f EXCEPT ![p].pc = x],
           f[p] = Explicit(f[p]),
           NEW new, new = [pc |-> x, op |-> f[p].op, client |-> f[p].client, sessions |-> f[p].sessions,
                                after |-> f[p].after, todo |-> f[p].todo, at |-> f[p].at, seen |-> f[p].seen]
    PROVE  g = Others(f, S, p, new)
<1>1. PICK r : r = f[p]
  OBVIOUS
<1>2. g = [f EXCEPT ![p] = [r EXCEPT !.pc = x]]
  BY <1>1
<1>3. r = [pc |-> r.pc, op |-> r.op, client |-> r.client, sessions |-> r.sessions,
           after |-> r.after, todo |-> r.todo, at |-> r.at, seen |-> r.seen]
  BY <1>1 DEF Explicit
<1>4. [r EXCEPT !.pc = x] = [pc |-> x, op |-> r.op, client |-> r.client, sessions |-> r.sessions,
                             after |-> r.after, todo |-> r.todo, at |-> r.at, seen |-> r.seen]
  BY ONLY <1>3
<1> QED
  BY <1>1, <1>2, <1>4, ExceptOne

\* when only the place in the file changes,
LEMMA ExceptAt ==
    ASSUME NEW S, NEW f, f = [q \in S |-> f[q]], NEW p \in S, NEW x, NEW g, g = [f EXCEPT ![p].at = x],
           f[p] = Explicit(f[p]),
           NEW new, new = [pc |-> f[p].pc, op |-> f[p].op, client |-> f[p].client, sessions |-> f[p].sessions,
                                after |-> f[p].after, todo |-> f[p].todo, at |-> x, seen |-> f[p].seen]
    PROVE  g = Others(f, S, p, new)
<1>1. PICK r : r = f[p]
  OBVIOUS
<1>2. g = [f EXCEPT ![p] = [r EXCEPT !.at = x]]
  BY <1>1
<1>3. r = [pc |-> r.pc, op |-> r.op, client |-> r.client, sessions |-> r.sessions,
           after |-> r.after, todo |-> r.todo, at |-> r.at, seen |-> r.seen]
  BY <1>1 DEF Explicit
<1>4. [r EXCEPT !.at = x] = [pc |-> r.pc, op |-> r.op, client |-> r.client, sessions |-> r.sessions,
                             after |-> r.after, todo |-> r.todo, at |-> x, seen |-> r.seen]
  BY ONLY <1>3
<1> QED
  BY <1>1, <1>2, <1>4, ExceptOne

\* when only the sessions change,
LEMMA ExceptSessions ==
    ASSUME NEW S, NEW f, f = [q \in S |-> f[q]], NEW p \in S, NEW s, NEW g,
           g = [f EXCEPT ![p].sessions = CacheSession(@, s)], f[p] = Explicit(f[p]),
           NEW new, new = [pc |-> f[p].pc, op |-> f[p].op, client |-> f[p].client,
                                sessions |-> CacheSession(f[p].sessions, s),
                                after |-> f[p].after, todo |-> f[p].todo, at |-> f[p].at, seen |-> f[p].seen]
    PROVE  g = Others(f, S, p, new)
<1>1. PICK r, x : r = f[p] /\ x = CacheSession(r.sessions, s)
  OBVIOUS
<1>2. g = [f EXCEPT ![p] = [r EXCEPT !.sessions = x]]
  BY <1>1
<1>3. r = [pc |-> r.pc, op |-> r.op, client |-> r.client, sessions |-> r.sessions,
           after |-> r.after, todo |-> r.todo, at |-> r.at, seen |-> r.seen]
  BY <1>1 DEF Explicit
<1>4. [r EXCEPT !.sessions = x] = [pc |-> r.pc, op |-> r.op, client |-> r.client, sessions |-> x,
                             after |-> r.after, todo |-> r.todo, at |-> r.at, seen |-> r.seen]
  BY ONLY <1>3
<1> QED
  BY <1>1, <1>2, <1>4, ExceptOne

OpenedOf(f, p, a, b) == [f EXCEPT ![p].pc = a, ![p].seen = b]

\* when the file is opened,
LEMMA ExceptOpen ==
    ASSUME NEW S, NEW f, f = [q \in S |-> f[q]], NEW p \in S, NEW x, NEW y, NEW g,
           g = OpenedOf(f, p, x, y), f[p] = Explicit(f[p]),
           NEW new, new = [pc |-> x, op |-> f[p].op, client |-> f[p].client, sessions |-> f[p].sessions,
                                after |-> f[p].after, todo |-> f[p].todo, at |-> f[p].at, seen |-> y]
    PROVE  g = Others(f, S, p, new)
<1>1. PICK r, h, v : /\ r = f[p] /\ h = [f EXCEPT ![p].pc = x]
                     /\ v = [pc |-> x, op |-> f[p].op, client |-> f[p].client, sessions |-> f[p].sessions,
                             after |-> f[p].after, todo |-> f[p].todo, at |-> f[p].at, seen |-> f[p].seen]
  OBVIOUS
<1>2. h = Others(f, S, p, v)
  BY <1>1, ExceptPc
<1>3. g = [h EXCEPT ![p].seen = y]
  BY <1>1 DEF OpenedOf
<1>4. PICK u : u = h[p]
  OBVIOUS
<1>5. /\ h = [q \in S |-> h[q]] /\ \A q \in S : q # p => h[q] = f[q]
      /\ u = [pc |-> x, op |-> r.op, client |-> r.client, sessions |-> r.sessions,
              after |-> r.after, todo |-> r.todo, at |-> r.at, seen |-> r.seen]
  BY <1>1, <1>2, <1>4 DEF Others
<1>6. [u EXCEPT !.seen = y] = [pc |-> x, op |-> r.op, client |-> r.client, sessions |-> r.sessions,
              after |-> r.after, todo |-> r.todo, at |-> r.at, seen |-> y]
  BY ONLY <1>5
<1>7. g = [h EXCEPT ![p] = [u EXCEPT !.seen = y]]
  BY <1>3, <1>4
<1>8. g = Others(h, S, p, [u EXCEPT !.seen = y])
  BY <1>5, <1>7, ExceptOne
<1>9. Others(h, S, p, [u EXCEPT !.seen = y]) = Others(f, S, p, [u EXCEPT !.seen = y])
  BY <1>5 DEF Others
<1> QED
  BY <1>1, <1>6, <1>8, <1>9

PreparedOf(f, p, a, b, c, d, e) ==
    [f EXCEPT ![p].pc = a, ![p].op = b, ![p].todo = c, ![p].after = d, ![p].seen = e]

\* and when an operation gets ready.
LEMMA ExceptPrepared ==
    ASSUME NEW S, NEW f, f = [q \in S |-> f[q]], NEW p \in S, NEW a, NEW b, NEW c, NEW d, NEW e, NEW g,
           g = PreparedOf(f, p, a, b, c, d, e), f[p] = Explicit(f[p]),
           NEW new, new = [pc |-> a, op |-> b, client |-> f[p].client, sessions |-> f[p].sessions,
                                after |-> d, todo |-> c, at |-> f[p].at, seen |-> e]
    PROVE  g = Others(f, S, p, new)
<1>1. PICK r, h1, h2, h3, h4 :
        /\ r = f[p] /\ h1 = [f EXCEPT ![p].pc = a] /\ h2 = [h1 EXCEPT ![p].op = b]
        /\ h3 = [h2 EXCEPT ![p].todo = c] /\ h4 = [h3 EXCEPT ![p].after = d]
  OBVIOUS
<1>2. g = [h4 EXCEPT ![p].seen = e]
  BY <1>1 DEF PreparedOf
<1> DEFINE Is(h) == h = [q \in S |-> h[q]] /\ \A q \in S : q # p => h[q] = f[q]
<1>3. Is(h1) /\ h1[p] = [pc |-> a, op |-> r.op, client |-> r.client, sessions |-> r.sessions,
              after |-> r.after, todo |-> r.todo, at |-> r.at, seen |-> r.seen]
  <2>0. PICK v : v = [pc |-> a, op |-> f[p].op, client |-> f[p].client, sessions |-> f[p].sessions,
                      after |-> f[p].after, todo |-> f[p].todo, at |-> f[p].at, seen |-> f[p].seen]
    OBVIOUS
  <2>1. h1 = Others(f, S, p, v)
    BY <1>1, <2>0, ExceptPc
  <2> QED
    BY <1>1, <2>0, <2>1 DEF Others
<1>4. Is(h2) /\ h2[p] = [pc |-> a, op |-> b, client |-> r.client, sessions |-> r.sessions,
              after |-> r.after, todo |-> r.todo, at |-> r.at, seen |-> r.seen]
  <2>1. PICK u : u = h1[p]
    OBVIOUS
  <2>2. h2 = Others(h1, S, p, [u EXCEPT !.op = b])
    <3>1. h2 = [h1 EXCEPT ![p] = [u EXCEPT !.op = b]]
      BY ONLY <1>1, <2>1
    <3>2. h1 = [q \in S |-> h1[q]] /\ p \in S
      BY <1>3
    <3>3. PICK x : x = [u EXCEPT !.op = b]
      OBVIOUS
    <3>4. [h1 EXCEPT ![p] = x] = Others(h1, S, p, x)
      BY ONLY <3>2, ExceptOne
    <3> QED
      BY ONLY <3>1, <3>3, <3>4
  <2>3. Is(h2) /\ h2[p] = [u EXCEPT !.op = b]
    BY <1>3, <2>2 DEF Others
  <2> QED
    BY ONLY <1>3, <2>1, <2>3
<1>5. Is(h3) /\ h3[p] = [pc |-> a, op |-> b, client |-> r.client, sessions |-> r.sessions,
              after |-> r.after, todo |-> c, at |-> r.at, seen |-> r.seen]
  <2>1. PICK u : u = h2[p]
    OBVIOUS
  <2>2. h3 = Others(h2, S, p, [u EXCEPT !.todo = c])
    <3>1. h3 = [h2 EXCEPT ![p] = [u EXCEPT !.todo = c]]
      BY ONLY <1>1, <2>1
    <3>2. h2 = [q \in S |-> h2[q]] /\ p \in S
      BY <1>4
    <3>3. PICK x : x = [u EXCEPT !.todo = c]
      OBVIOUS
    <3>4. [h2 EXCEPT ![p] = x] = Others(h2, S, p, x)
      BY ONLY <3>2, ExceptOne
    <3> QED
      BY ONLY <3>1, <3>3, <3>4
  <2>3. Is(h3) /\ h3[p] = [u EXCEPT !.todo = c]
    BY <1>4, <2>2 DEF Others
  <2> QED
    BY ONLY <1>4, <2>1, <2>3
<1>6. Is(h4) /\ h4[p] = [pc |-> a, op |-> b, client |-> r.client, sessions |-> r.sessions,
              after |-> d, todo |-> c, at |-> r.at, seen |-> r.seen]
  <2>1. PICK u : u = h3[p]
    OBVIOUS
  <2>2. h4 = Others(h3, S, p, [u EXCEPT !.after = d])
    <3>1. h4 = [h3 EXCEPT ![p] = [u EXCEPT !.after = d]]
      BY ONLY <1>1, <2>1
    <3>2. h3 = [q \in S |-> h3[q]] /\ p \in S
      BY <1>5
    <3>3. PICK x : x = [u EXCEPT !.after = d]
      OBVIOUS
    <3>4. [h3 EXCEPT ![p] = x] = Others(h3, S, p, x)
      BY ONLY <3>2, ExceptOne
    <3> QED
      BY ONLY <3>1, <3>3, <3>4
  <2>3. Is(h4) /\ h4[p] = [u EXCEPT !.after = d]
    BY <1>5, <2>2 DEF Others
  <2> QED
    BY ONLY <1>5, <2>1, <2>3
<1>7. PICK u : u = h4[p]
  OBVIOUS
<1>8. g = Others(h4, S, p, [u EXCEPT !.seen = e])
  BY <1>2, <1>6, <1>7, ExceptOne
<1>9. [u EXCEPT !.seen = e] = [pc |-> a, op |-> b, client |-> r.client, sessions |-> r.sessions,
              after |-> d, todo |-> c, at |-> r.at, seen |-> e]
  BY ONLY <1>6, <1>7
<1>10. Others(h4, S, p, [u EXCEPT !.seen = e]) = Others(f, S, p, [u EXCEPT !.seen = e])
  BY <1>6 DEF Others
<1> QED
  BY <1>1, <1>8, <1>9, <1>10

\* The records of all processes are explicit ones.
LEMMA ProcessIs ==
    ASSUME FilesInv, NEW p \in Processes
    PROVE  process = [q \in Processes |-> process[q]] /\ process[p] = Explicit(process[p])
  BY DEF FilesInv, FilesTyped, RecordOK, ProcessTyped, Explicit

-----------------------------------------------------------------------------
(* Steps that leave the file alone.                                         *)

\* A process that is not about to write has little to be in order.
LEMMA QuietRecord ==
    ASSUME NEW r, NEW format, NEW n, NEW bad, NEW known,
           ProcessTyped(r), r.seen <= n, ~ Busy(r), format = "ccache" => ClientOK(r, known)
    PROVE  RecordOK(r, format, n, bad, known)
  BY DEF RecordOK

\* What the invariant says of a process.
LEMMA RecordIs ==
    ASSUME FilesInv, NEW p \in Processes
    PROVE  /\ ProcessTyped(process[p]) /\ process[p].seen <= changes /\ changes \in Nat
           /\ config.format = "ccache" => ClientOK(process[p], issued)
  BY DEF FilesInv, RecordOK, FilesTyped

\* The steps that create the primary file of a collection keep the invariant.
LEMMA GotoKeeps ==
    ASSUME FilesInv, NEW p \in Processes, NEW pc, pc \in {"idle", "no primary", "primary"},
           process[p].pc \in {"idle", "no primary", "primary"}, Goto(p, pc),
           UNCHANGED <<config, file, tickets, changes, store, troubles, issued>>,
           primary' \in {"absent", "", "tkt\n"}
    PROVE  FilesInv'
<1>1. PICK o, r : o = process[p] /\ r = [pc |-> pc, op |-> o.op, client |-> o.client, sessions |-> o.sessions,
                                after |-> o.after, todo |-> o.todo, at |-> o.at, seen |-> o.seen]
  OBVIOUS
<1>2. process' = Others(process, Processes, p, r)
  <2>1. process' = [process EXCEPT ![p].pc = pc]
    BY DEF Goto
  <2>2. process = [q \in Processes |-> process[q]] /\ process[p] = Explicit(process[p])
    BY ProcessIs
  <2>3. r = [pc |-> pc, op |-> process[p].op, client |-> process[p].client, sessions |-> process[p].sessions,
             after |-> process[p].after, todo |-> process[p].todo, at |-> process[p].at, seen |-> process[p].seen]
    BY <1>1
  <2> QED
    BY ONLY <2>1, <2>2, <2>3, p \in Processes, ExceptPc
<1>3. ProcessTyped(o) /\ o.seen <= changes /\ (config.format = "ccache" => ClientOK(o, issued))
  BY <1>1, RecordIs
<1>4. /\ r.pc = pc /\ r.todo = o.todo /\ r.at = o.at /\ r.seen = o.seen /\ r.client = o.client
      /\ r.sessions = o.sessions /\ r.op = o.op /\ r.after = o.after
  BY <1>1
<1>5. ProcessTyped(r)
  <2>1. pc \in Pcs /\ pc # "writing" /\ o.pc # "writing"
    BY <1>1 DEF Pcs
  <2> QED
    BY <1>1, <1>3, <1>4, <2>1 DEF ProcessTyped
<1>6. ~ Busy(r) /\ r.pc # "writing"
  BY <1>4 DEF Busy
<1>7. config.format = "ccache" => ClientOK(r, issued)
  BY <1>3, <1>4 DEF ClientOK
<1>8. RecordOK(r, config.format, changes, troubles, issued')
  <2>1. RecordOK(r, config.format, changes, troubles, issued)
    BY <1>3, <1>4, <1>5, <1>6, <1>7, QuietRecord
  <2> QED
    BY <2>1
<1>9. FileStep(p, r)
  <2>1. process[p].pc # "writing"
    OBVIOUS
  <2> QED
    BY <1>2, <1>6, <2>1 DEF FileStep, Others, FilesInv, FilesTyped
<1> QED
  BY <1>6, <1>8, <1>9, LocalKeeps

\* So does a process that goes back to rest with other sessions,
LEMMA IdleKeeps ==
    ASSUME FilesInv, NEW p \in Processes, NEW client, NEW sessions,
           process[p].pc # "writing",
           process' = [process EXCEPT ![p] =
               [pc |-> "idle", op |-> Nil, client |-> client, sessions |-> sessions,
                after |-> Nil, todo |-> <<>>, at |-> 0, seen |-> 0]],
           UNCHANGED <<config, primary, file, tickets, changes, store, troubles>>,
           issued \subseteq issued', issued' \subseteq CredentialRecords,
           config.format = "ccache" => /\ client \in Principals /\ GoodSessions(sessions, client)
                                       /\ {to_ccache_credential(s) : s \in sessions} \subseteq issued'
    PROVE  FilesInv'
<1>1. PICK r : r = [pc |-> "idle", op |-> Nil, client |-> client, sessions |-> sessions,
                    after |-> Nil, todo |-> <<>>, at |-> 0, seen |-> 0]
  OBVIOUS
<1>2. process' = Others(process, Processes, p, r)
  <2>1. process = [q \in Processes |-> process[q]]
    BY ProcessIs
  <2>2. process' = [process EXCEPT ![p] = r]
    BY <1>1
  <2> QED
    BY ONLY <2>1, <2>2, p \in Processes, ExceptOne
<1>3. /\ r.pc = "idle" /\ r.todo = <<>> /\ r.at = 0 /\ r.seen = 0 /\ r.client = client /\ r.sessions = sessions
      /\ r.op = Nil /\ r.after = Nil
  BY <1>1
<1>4. ProcessTyped(r)
  <2>1. <<>> \in Seq(Cell) /\ 0 \in Nat /\ 0 \in Int /\ "idle" \in Pcs
    BY DEF Pcs
  <2> QED
    BY <1>1, <1>3, <2>1 DEF ProcessTyped
<1>5. ~ Busy(r) /\ r.pc # "writing"
  BY <1>3 DEF Busy
<1>6. config.format = "ccache" => ClientOK(r, issued')
  BY <1>3 DEF ClientOK
<1>7. r.seen <= changes
  BY <1>3, RecordIs
<1>8. RecordOK(r, config.format, changes, troubles, issued')
  BY <1>4, <1>5, <1>6, <1>7, QuietRecord
<1>9. FileStep(p, r)
  BY <1>2, <1>5 DEF FileStep, Others, FilesInv, FilesTyped
<1> QED
  BY <1>5, <1>8, <1>9, LocalKeeps

\* an operation that fails,
LEMMA RefuseKeeps ==
    ASSUME FilesInv, NEW p \in Processes, process[p].pc = "idle", Refuse(p)
    PROVE  FilesInv'
<1>1. PICK client, sessions : client = process[p].client /\ sessions = process[p].sessions
  OBVIOUS
<1>2. process' = [process EXCEPT ![p] =
               [pc |-> "idle", op |-> Nil, client |-> client, sessions |-> sessions,
                after |-> Nil, todo |-> <<>>, at |-> 0, seen |-> 0]]
  BY <1>1 DEF Refuse, Resting
<1>3. UNCHANGED <<config, primary, file, tickets, changes, store, troubles, issued>>
  BY DEF Refuse
<1>4. config.format = "ccache" => ClientOK(process[p], issued)
  BY RecordIs
<1>5. config.format = "ccache" => /\ client \in Principals /\ GoodSessions(sessions, client)
                                  /\ {to_ccache_credential(s) : s \in sessions} \subseteq issued'
  BY <1>1, <1>3, <1>4 DEF ClientOK
<1>6. issued \subseteq issued' /\ issued' \subseteq CredentialRecords /\ process[p].pc # "writing"
  BY <1>3 DEF FilesInv, FilesTyped
<1> QED
  BY <1>2, <1>3, <1>5, <1>6, IdleKeeps

\* and a new ticket.
LEMMA ObtainKeeps ==
    ASSUME FilesInv, NEW p \in Processes, NEW offer \in Offers, Obtain(p, offer)
    PROVE  FilesInv'
<1>1. PICK o, s, sessions, r :
        /\ o = process[p]
        /\ s = [client |-> process[p].client, service |-> offer.service, key |-> tickets + 1,
              ticket |-> tickets + 1, flags |-> 0, auth |-> 1, start |-> 1,
              end |-> offer.end, renew |-> offer.renew]
        /\ sessions = CacheSession(o.sessions, s)
        /\ r = [pc |-> o.pc, op |-> o.op, client |-> o.client, sessions |-> sessions,
                after |-> o.after, todo |-> o.todo, at |-> o.at, seen |-> o.seen]
  OBVIOUS
<1>2. /\ config.format = "ccache" /\ process[p].pc = "idle" /\ tickets' = tickets + 1
      /\ process' = [process EXCEPT ![p].sessions = CacheSession(@, s)]
      /\ issued' = issued \cup {to_ccache_credential(s)}
      /\ UNCHANGED <<config, primary, file, changes, store, troubles>>
  BY <1>1 DEF Obtain
<1>3. process' = Others(process, Processes, p, r)
  <2>1. process' = [process EXCEPT ![p].sessions = CacheSession(@, s)]
    BY <1>2
  <2>2. process = [q \in Processes |-> process[q]] /\ process[p] = Explicit(process[p])
    BY ProcessIs
  <2>3. r = [pc |-> process[p].pc, op |-> process[p].op, client |-> process[p].client,
             sessions |-> CacheSession(process[p].sessions, s),
             after |-> process[p].after, todo |-> process[p].todo, at |-> process[p].at, seen |-> process[p].seen]
    BY <1>1
  <2> QED
    BY ONLY <2>1, <2>2, <2>3, p \in Processes, ExceptSessions
<1>4. ProcessTyped(o) /\ o.seen <= changes /\ ClientOK(o, issued) /\ tickets \in Nat /\ issued \subseteq CredentialRecords
  BY <1>1, <1>2, RecordIs DEF FilesInv, FilesTyped
<1>5. s \in SessionRecords /\ s.client = o.client /\ s.service = offer.service
  <2>1. offer.service \in Principals /\ offer.end \in Int /\ offer.renew \in Int \cup {Nil}
    BY InputAssumption
  <2>2. o.client \in Principals /\ tickets + 1 \in Int /\ 0 \in Int /\ 1 \in Int
    BY <1>4 DEF ClientOK
  <2>3. s = [client |-> o.client, service |-> offer.service, key |-> tickets + 1,
              ticket |-> tickets + 1, flags |-> 0, auth |-> 1, start |-> 1,
              end |-> offer.end, renew |-> offer.renew]
    BY <1>1
  <2> QED
    BY ONLY <2>1, <2>2, <2>3 DEF SessionRecords
<1>6. same_principal_identity(s.client, o.client) /\ ~ is_config_credential([server |-> s.service])
  <2>1. ~ is_config_credential([server |-> offer.service])
    BY InputAssumption
  <2> QED
    BY <1>5, <2>1 DEF same_principal_identity
<1>7. GoodSessions(sessions, o.client) /\ sessions \subseteq o.sessions \cup {s}
  <2>1. GoodSessions(o.sessions, o.client)
    BY <1>4 DEF ClientOK
  <2> QED
    BY <1>1, <1>5, <1>6, <2>1, CacheSessionFacts
<1>8. /\ r.pc = "idle" /\ r.todo = o.todo /\ r.at = o.at /\ r.seen = o.seen /\ r.client = o.client
      /\ r.sessions = sessions /\ r.op = o.op /\ r.after = o.after
  BY <1>1, <1>2
<1>9. ProcessTyped(r)
  BY <1>1, <1>4, <1>8 DEF ProcessTyped
<1>10. ~ Busy(r) /\ r.pc # "writing"
  BY <1>8 DEF Busy
<1>11. ClientOK(r, issued')
  <2>1. {to_ccache_credential(x) : x \in o.sessions} \subseteq issued
    BY <1>4 DEF ClientOK
  <2>2. {to_ccache_credential(x) : x \in sessions} \subseteq issued'
    BY <1>2, <1>7, <2>1
  <2> QED
    BY <1>4, <1>7, <1>8, <2>2 DEF ClientOK
<1>12. issued' \subseteq CredentialRecords
  <2>1. to_ccache_credential(s) \in CredentialRecords
    BY <1>5, SessionCredential
  <2> QED
    BY <1>2, <1>4, <2>1
<1>13. RecordOK(r, config.format, changes, troubles, issued')
  BY <1>4, <1>8, <1>9, <1>10, <1>11, QuietRecord
<1>14. FileStep(p, r)
  <2>1. tickets' \in Nat /\ process[p].pc # "writing" /\ issued \subseteq issued'
    BY <1>2, <1>4
  <2> QED
    BY <1>2, <1>3, <1>10, <1>12, <2>1 DEF FileStep, Others, FilesInv, FilesTyped
<1> QED
  BY <1>10, <1>13, <1>14, LocalKeeps

\* The process gets ready to write.
PreparedStep(p, op, cells, after) ==
    /\ process' = [process EXCEPT ![p].pc = "prepared", ![p].op = op,
                                  ![p].todo = cells, ![p].after = after,
                                  ![p].seen = IF Writing(p) THEN 0 - 1 ELSE changes]
    /\ UNCHANGED <<config, primary, file, changes, store, troubles, issued>>
    /\ tickets' \in Nat

\* An operation that gets ready keeps the invariant, if what it is going to
\* write is in order.
LEMMA PreparedKeeps ==
    ASSUME FilesInv, NEW p \in Processes, process[p].pc = "idle", NEW op, NEW cells \in Seq(Cell), NEW after,
           PreparedStep(p, op, cells, after),
           config.format = "ccache" /\ (op = "save" \/ (~ Writing(p) /\ "overlap" \notin troubles)) => Intact(cells, issued),
           op = "save" \/ (~ Writing(p) /\ troubles = {}) => Holds(config.format, cells, after)
    PROVE  FilesInv'
<1>1. PICK o, n, r :
        /\ o = process[p] /\ n = (IF Writing(p) THEN 0 - 1 ELSE changes)
        /\ r = [pc |-> "prepared", op |-> op, client |-> o.client, sessions |-> o.sessions,
                after |-> after, todo |-> cells, at |-> o.at, seen |-> n]
  OBVIOUS
<1>2. process' = Others(process, Processes, p, r)
  <2>1. process' = PreparedOf(process, p, "prepared", op, cells, after, n)
    BY <1>1 DEF PreparedStep, PreparedOf
  <2>2. process = [q \in Processes |-> process[q]] /\ process[p] = Explicit(process[p])
    BY ProcessIs
  <2>3. r = [pc |-> "prepared", op |-> op, client |-> process[p].client, sessions |-> process[p].sessions,
             after |-> after, todo |-> cells, at |-> process[p].at, seen |-> n]
    BY <1>1
  <2> QED
    BY ONLY <2>1, <2>2, <2>3, p \in Processes, ExceptPrepared
<1>3. ProcessTyped(o) /\ o.seen <= changes /\ changes \in Nat /\ (config.format = "ccache" => ClientOK(o, issued))
  BY <1>1, RecordIs
<1>4. /\ r.pc = "prepared" /\ r.todo = cells /\ r.at = 0 /\ r.seen = n /\ r.client = o.client
      /\ r.sessions = o.sessions /\ r.op = op /\ r.after = after
  <2>1. o.at = 0
    BY <1>1, <1>3 DEF ProcessTyped
  <2> QED
    BY <1>1, <2>1
<1>5. n \in Int /\ n <= changes /\ (n = changes => ~ Writing(p))
  BY <1>1, <1>3
<1>6. ProcessTyped(r)
  <2>1. "prepared" \in Pcs /\ 0 \in Nat
    BY DEF Pcs
  <2> QED
    BY <1>1, <1>4, <1>5, <2>1 DEF ProcessTyped
<1>7. config.format = "ccache" => ClientOK(r, issued)
  BY <1>3, <1>4 DEF ClientOK
<1>8. RecordOK(r, config.format, changes, troubles, issued)
  BY <1>4, <1>5, <1>6, <1>7 DEF RecordOK
<1>9. RecordOK(r, config.format, changes, troubles, issued')
  BY <1>8 DEF PreparedStep
<1>10. FileStep(p, r)
  <2>1. process[p].pc # "writing" /\ r.pc # "writing"
    BY <1>4
  <2> QED
    BY <1>2, <2>1 DEF FileStep, Others, FilesInv, FilesTyped, PreparedStep
<1> QED
  BY <1>4, <1>5, <1>9, <1>10, LocalKeeps

\* The cache that is read from a file that represents some content.
LEMMA RepresentsCache ==
    ASSUME NEW disk, NEW content, Represents(disk, content)
    PROVE  /\ parse(disk).value \in NormalCaches /\ OneSetting(parse(disk).value)
           /\ CacheContent(parse(disk).value) = content
<1>1. PICK cache \in NormalCaches : disk = to_bytes(cache) /\ OneSetting(cache) /\ CacheContent(cache) = content
  BY DEF Represents
<1>2. parse(disk) = Value(cache, Len(disk) + 1)
  BY <1>1, CacheReadBack
<1>3. parse(disk).value = cache
  BY <1>2, OkResult
<1> QED
  BY <1>1, <1>3

\* A written cache has cells.
LEMMA IntactCells ==
    ASSUME NEW cells, NEW known, Intact(cells, known)
    PROVE  cells \in Seq(Cell) /\ Len(cells) > 0
<1>1. PICK cache \in NormalCaches : cells = to_bytes(cache)
  BY DEF Intact
<1>2. cells \in Seq(Cell) /\ parse(cells) = Value(cache, Len(cells) + 1)
  BY <1>1, CacheReadBack
<1>3. parse(cells).ok
  BY <1>2, OkResult
<1>4. CanRead(cells, 1, <<"int", "int">>)
  BY <1>3, OkResult DEF parse, CacheOf
<1>5. 1 + Len(<<"int", "int">>) - 1 <= Len(cells)
  BY <1>4 DEF CanRead
<1> QED
  BY <1>2, <1>5

\* Every credential is one of all credentials.
LEMMA AllTyped ==
    ASSUME NEW cache \in NormalCaches
    PROVE  AllKnown(cache, CredentialRecords)
<1>1. cache.version \in 1 .. 4 /\ cache.credentials \in Seq(StoredCredentials(cache.version))
  BY NormalTypes DEF Caches
<1>2. ASSUME NEW i \in DOMAIN cache.credentials
      PROVE  Known(cache.version, cache.credentials[i], CredentialRecords)
  <2>1. PICK c, v : c = cache.credentials[i] /\ v = cache.version
    OBVIOUS
  <2>2. c \in StoredCredentials(v) /\ v \in 1 .. 4
    BY <1>1, <2>1
  <2>3. StoredCredential(v, c) = c
    BY ONLY <2>2, StoredIsSame
  <2>4. c \in CredentialRecords
    BY <2>2 DEF StoredCredentials
  <2> QED
    BY <2>1, <2>3, <2>4 DEF Known
<1> QED
  BY <1>2 DEF AllKnown

\* What is known of a cache that is read.
LEMMA FileRead ==
    ASSUME FilesInv, config.format = "ccache", file # Nil, parse(file).ok
    PROVE  /\ parse(file).value \in NormalCaches
           /\ "overlap" \notin troubles => /\ AllKnown(parse(file).value, issued)
                                           /\ to_bytes(parse(file).value) = file
           /\ troubles = {} /\ Quiet => /\ OneSetting(parse(file).value) /\ store \in Stores
                                        /\ CacheContent(parse(file).value) = store
<1>1. file \in Seq(Cell)
  BY DEF FilesInv, FilesTyped
<1>2. parse(file).value \in NormalCaches
  BY <1>1, ParseTyped
<1>3. ASSUME "overlap" \notin troubles
      PROVE  AllKnown(parse(file).value, issued) /\ to_bytes(parse(file).value) = file
  <2>1. FileIntact(file, issued)
    BY <1>3 DEF FilesInv
  <2>2. PICK cells : Intact(cells, issued) /\ (file = cells \/ StopsIn(file, 1, cells))
    BY <2>1 DEF FileIntact
  <2> QED
    BY <1>1, <2>2, IntactRead
<1>4. ASSUME troubles = {}, Quiet
      PROVE  OneSetting(parse(file).value) /\ store \in Stores /\ CacheContent(parse(file).value) = store
  <2>1. Represents(file, store)
    BY <1>4 DEF FilesInv, Latest, Holds
  <2> QED
    BY <2>1, RepresentsCache, RepresentsRead
<1> QED
  BY <1>2, <1>3, <1>4

\* If the others do not write and this process is at rest, nobody writes.
LEMMA IdleQuiet ==
    ASSUME FilesInv, NEW p \in Processes, process[p].pc = "idle", ~ Writing(p)
    PROVE  Quiet
  BY DEF Writing, Quiet

\* save_ccache keeps the invariant: what it writes represents the sessions.
LEMMA SaveKeeps ==
    ASSUME FilesInv, NEW p \in Processes, save_ccache(p)
    PROVE  FilesInv'
<1>1. config.format = "ccache" /\ process[p].pc = "idle"
  BY DEF save_ccache, Resolved
<1>2. CASE Convertible(p)
  <2>1. PICK client, sessions, credentials, cells, after :
          /\ client = process[p].client /\ sessions = process[p].sessions
          /\ credentials = {to_ccache_credential(s) : s \in sessions}
          /\ cells = to_bytes(to_ccache(client, sessions)) /\ after = NewStore(p)
    OBVIOUS
  <2>2. client \in Principals /\ GoodSessions(sessions, client) /\ credentials \subseteq issued
    BY <1>1, <2>1, RecordIs DEF ClientOK
  <2>3. Represents(cells, [version |-> 4, default |-> client, entries |-> credentials, conf |-> {}])
    BY <2>1, <2>2, SaveFacts
  <2>4. Intact(cells, issued)
    BY <2>1, <2>2, SaveFacts
  <2>5. Represents(cells, after)
    BY <2>1, <2>3 DEF NewStore, Credentials
  <2>6. Prepare(p, "save", cells, after)
    BY <1>2, <2>1 DEF save_ccache
  <2>7. PreparedStep(p, "save", cells, after)
    BY <2>6 DEF Prepare, PreparedStep, FilesInv, FilesTyped
  <2>8. cells \in Seq(Cell)
    BY <2>4, IntactCells
  <2>9. Holds(config.format, cells, after)
    BY <1>1, <2>5 DEF Holds
  <2> QED
    BY <1>1, <2>4, <2>7, <2>8, <2>9, PreparedKeeps
<1>3. CASE ~ Convertible(p)
  <2>1. Refuse(p)
    BY <1>3 DEF save_ccache
  <2> QED
    BY <1>1, <2>1, RefuseKeeps
<1> QED
  BY <1>2, <1>3

\* update_ccache_file keeps it: what it writes represents the file's content
\* with the client's tickets replaced.
LEMMA UpdateKeeps ==
    ASSUME FilesInv, NEW p \in Processes, update_ccache_file(p)
    PROVE  FilesInv'
<1>1. config.format = "ccache" /\ process[p].pc = "idle"
  BY DEF update_ccache_file, Resolved
<1>a. PICK client, sessions, credentials :
          /\ client = process[p].client /\ sessions = process[p].sessions
          /\ credentials = {to_ccache_credential(s) : s \in sessions}
  OBVIOUS
<1>b. PICK read : read = (IF file = Nil THEN Value(NewCache(client), 1) ELSE parse(file))
  OBVIOUS
<1>c. PICK cache, others : 
          /\ cache = read.value
          /\ others = {c \in store.entries : c.client.realm # client.realm \/ c.client.names # client.names}
  OBVIOUS
<1>d. PICK cells, after :
          /\ cells = to_bytes(update_ccache(cache, client, sessions))
          /\ after = IF store = Nil THEN NewStore(p)
                     ELSE [store EXCEPT !.default = Stored(store.version, client),
                            !.entries = others \cup {StoredCredential(store.version, c) : c \in Credentials(p)}]
  OBVIOUS
<1>2. /\ client = process[p].client /\ sessions = process[p].sessions
      /\ credentials = {to_ccache_credential(s) : s \in sessions}
      /\ read = (IF file = Nil THEN Value(NewCache(client), 1) ELSE parse(file))
      /\ cache = read.value
      /\ cells = to_bytes(update_ccache(cache, client, sessions))
      /\ others = {c \in store.entries : c.client.realm # client.realm \/ c.client.names # client.names}
      /\ after = IF store = Nil THEN NewStore(p)
                 ELSE [store EXCEPT !.default = Stored(store.version, client),
                        !.entries = others \cup {StoredCredential(store.version, c) : c \in Credentials(p)}]
  BY <1>a, <1>b, <1>c, <1>d
<1>3. \/ read.ok /\ Prepare(p, "update", cells, after)
      \/ Refuse(p)
  BY <1>2 DEF update_ccache_file
<1>4. client \in Principals /\ GoodSessions(sessions, client) /\ credentials \subseteq issued
  BY <1>1, <1>2, RecordIs DEF ClientOK
<1>5. credentials = Credentials(p) /\ credentials \subseteq CredentialRecords
  BY <1>2, <1>4 DEF Credentials, FilesInv, FilesTyped
<1>6. CASE Refuse(p)
  BY <1>1, <1>6, RefuseKeeps
<1>7. CASE read.ok /\ Prepare(p, "update", cells, after)
  <2>1. /\ cache \in NormalCaches
        /\ "overlap" \notin troubles => AllKnown(cache, issued)
        /\ troubles = {} /\ Quiet =>
              /\ OneSetting(cache)
              /\ file = Nil => store = Nil /\ cache.version = 4 /\ TicketsIn(cache) = {} /\ SettingsIn(cache) = {}
              /\ file # Nil => store \in Stores /\ CacheContent(cache) = store
    <3>1. CASE file = Nil
      <4>1. cache = NewCache(client)
        BY <1>2, <3>1, OkResult
      <4>2. cache \in NormalCaches /\ cache.version = 4 /\ cache.credentials = <<>>
        BY <1>4, <4>1, NewCacheFacts
      <4>3. DOMAIN cache.credentials = {}
        BY <4>2
      <4>4. AllKnown(cache, issued) /\ OneSetting(cache) /\ TicketsIn(cache) = {} /\ SettingsIn(cache) = {}
        BY <4>3 DEF AllKnown, OneSetting, TicketsIn, SettingsIn, FoundIn
      <4>5. troubles = {} /\ Quiet => store = Nil
        BY <1>1, <3>1 DEF FilesInv, Latest
      <4> QED
        BY <3>1, <4>2, <4>4, <4>5
    <3>2. CASE file # Nil
      <4>1. read = parse(file) /\ parse(file).ok
        BY <1>2, <1>7, <3>2
      <4> QED
        BY <1>1, <1>2, <3>2, <4>1, FileRead
    <3> QED
      BY <3>1, <3>2
  <2>2. \A known : credentials \subseteq known /\ AllKnown(cache, known) => Intact(cells, known)
    BY <1>2, <1>4, <2>1, UpdateFacts
  <2>3. cells \in Seq(Cell)
    <3>1. Intact(cells, CredentialRecords)
      BY <1>5, <2>1, <2>2, AllTyped
    <3> QED
      BY <3>1, IntactCells
  <2>4. "overlap" \notin troubles => Intact(cells, issued)
    BY <1>4, <2>1, <2>2
  <2>5. ASSUME ~ Writing(p), troubles = {} PROVE Represents(cells, after)
    <3>1. Quiet
      BY <1>1, <2>5, IdleQuiet
    <3>2. Represents(cells, [version |-> cache.version, default |-> Stored(cache.version, client),
                        entries |-> {c \in TicketsIn(cache) : ~ same_principal_identity(c.client, client)}
                                    \cup {StoredCredential(cache.version, c) : c \in credentials},
                        conf |-> SettingsIn(cache)])
      <4>1. OneSetting(cache)
        BY <2>1, <2>5, <3>1
      <4>2. /\ cache \in NormalCaches /\ client \in Principals /\ GoodSessions(sessions, client)
            /\ credentials = {to_ccache_credential(s) : s \in sessions}
            /\ cells = to_bytes(update_ccache(cache, client, sessions))
        BY <1>2, <1>4, <2>1
      <4> QED
        BY ONLY <4>1, <4>2, UpdateFacts
    <3>3. CASE file = Nil
      <4>1. store = Nil /\ cache.version = 4 /\ TicketsIn(cache) = {} /\ SettingsIn(cache) = {}
        BY <2>1, <2>5, <3>1, <3>3
      <4>2. after = [version |-> 4, default |-> client, entries |-> credentials, conf |-> {}]
        BY <1>2, <1>5, <4>1 DEF NewStore
      <4>3. Stored(4, client) = client
        BY DEF Stored
      <4>4. {StoredCredential(4, c) : c \in credentials} = credentials
        <5>1. \A c \in credentials : StoredCredential(4, c) = c
          BY <1>5, StoredFour
        <5> QED
          BY ONLY <5>1
      <4>5. [version |-> cache.version, default |-> Stored(cache.version, client),
                        entries |-> {c \in TicketsIn(cache) : ~ same_principal_identity(c.client, client)}
                                    \cup {StoredCredential(cache.version, c) : c \in credentials},
                        conf |-> SettingsIn(cache)] = after
        <5>1. {c \in TicketsIn(cache) : ~ same_principal_identity(c.client, client)} = {}
          BY <4>1
        <5>2. {c \in TicketsIn(cache) : ~ same_principal_identity(c.client, client)}
                \cup {StoredCredential(cache.version, c) : c \in credentials} = credentials
          BY <4>1, <4>4, <5>1
        <5> QED
          BY <4>1, <4>2, <4>3, <5>2
      <4> QED
        BY <3>2, <4>5
    <3>4. CASE file # Nil
      <4>1. store \in Stores /\ CacheContent(cache) = store
        BY <2>1, <2>5, <3>1, <3>4
      <4>2. store = [version |-> cache.version, default |-> cache.default,
                     entries |-> TicketsIn(cache), conf |-> SettingsIn(cache)]
        BY <4>1, ContentIs
      <4>3. store # Nil
        BY <4>1, NilAssumption
      <4>4. PICK e : e = others \cup {StoredCredential(store.version, c) : c \in Credentials(p)}
        OBVIOUS
      <4>5. after = [store EXCEPT !.default = Stored(store.version, client), !.entries = e]
        BY <1>2, <4>3, <4>4
      <4>6. store.version = cache.version /\ store.entries = TicketsIn(cache)
        BY <4>2
      <4>7. after = [version |-> cache.version, default |-> Stored(cache.version, client),
                     entries |-> e, conf |-> SettingsIn(cache)]
        BY ONLY <4>2, <4>5, <4>6
      <4>8. others = {c \in TicketsIn(cache) : ~ same_principal_identity(c.client, client)}
        BY <1>2, <4>6 DEF same_principal_identity
      <4>9. e = {c \in TicketsIn(cache) : ~ same_principal_identity(c.client, client)}
                  \cup {StoredCredential(cache.version, c) : c \in credentials}
        BY <1>5, <4>4, <4>6, <4>8
      <4> QED
        BY <3>2, <4>7, <4>9
    <3> QED
      BY <3>3, <3>4
  <2>6. PreparedStep(p, "update", cells, after)
    BY <1>7 DEF Prepare, PreparedStep, FilesInv, FilesTyped
  <2>7. ~ Writing(p) /\ troubles = {} => Holds(config.format, cells, after)
    BY <1>1, <2>5 DEF Holds
  <2>8. "update" # "save"
    OBVIOUS
  <2> QED
    BY <1>1, <2>3, <2>4, <2>6, <2>7, <2>8, PreparedKeeps
<1> QED
  BY <1>3, <1>6, <1>7

\* The store after a configuration entry was set.
ConfigStore(content, entry) ==
    [content EXCEPT !.conf = {entry} \cup {x \in @ : x.client # entry.client \/ x.server # entry.server}]

\* The fields of that store.
LEMMA ConfigStoreIs ==
    ASSUME NEW content, NEW v, NEW d, NEW e, NEW c, content = [version |-> v, default |-> d, entries |-> e, conf |-> c],
           NEW entry, NEW conf, conf = {entry} \cup {x \in c : x.client # entry.client \/ x.server # entry.server},
           NEW new, new = ConfigStore(content, entry)
    PROVE  new = [version |-> v, default |-> d, entries |-> e, conf |-> conf]
<1>1. content.conf = c
  OBVIOUS
<1>2. ConfigStore(content, entry) = [content EXCEPT !.conf = conf]
  BY <1>1 DEF ConfigStore
<1>3. new = [content EXCEPT !.conf = conf]
  BY <1>2
<1> QED
  BY ONLY <1>3, content = [version |-> v, default |-> d, entries |-> e, conf |-> c]

\* Setting a configuration entry keeps the invariant.
LEMMA ConfigKeeps ==
    ASSUME FilesInv, NEW p \in Processes, SetConfig(p)
    PROVE  FilesInv'
<1>1. config.format = "ccache" /\ process[p].pc = "idle"
  BY DEF SetConfig, Resolved
<1>2. PICK read : read = (IF file = Nil THEN Error ELSE parse(file))
  OBVIOUS
<1>3. PICK cache, value, entry :
          /\ cache = read.value /\ value = changes + 1
          /\ entry = config_entry(store.default, ConfigKey, <<>>, value)
  OBVIOUS
<1>4. PICK cells, after :
          /\ cells = to_bytes(upsert_config_entry(cache, ConfigKey, <<>>, value))
          /\ after = IF store = Nil THEN Nil ELSE ConfigStore(store, entry)
  OBVIOUS
<1>5. \/ read.ok /\ Prepare(p, "config", cells, after)
      \/ Refuse(p)
  BY <1>2, <1>3, <1>4 DEF SetConfig, ConfigStore
<1>6. CASE Refuse(p)
  BY <1>1, <1>6, RefuseKeeps
<1>7. CASE read.ok /\ Prepare(p, "config", cells, after)
  <2>1. file # Nil /\ read = parse(file) /\ parse(file).ok
    BY <1>2, <1>7 DEF Error
  <2>2. /\ cache \in NormalCaches
        /\ "overlap" \notin troubles => AllKnown(cache, issued)
        /\ troubles = {} /\ Quiet => OneSetting(cache) /\ store \in Stores /\ CacheContent(cache) = store
    BY <1>1, <1>3, <2>1, FileRead
  <2>3. value \in Int
    <3>1. changes \in Nat
      BY DEF FilesInv, FilesTyped
    <3>2. changes + 1 \in Int
      BY ONLY <3>1
    <3> QED
      BY <1>3, <3>2
  <2>4. PICK own : own = config_entry(cache.default, ConfigKey, <<>>, value)
    OBVIOUS
  <2>5. \A known : AllKnown(cache, known) => Intact(cells, known)
    BY <1>4, <2>2, <2>3, <2>4, ConfigFacts
  <2>6. cells \in Seq(Cell)
    <3>1. Intact(cells, CredentialRecords)
      BY <2>2, <2>5, AllTyped
    <3> QED
      BY <3>1, IntactCells
  <2>7. "overlap" \notin troubles => Intact(cells, issued)
    BY <2>2, <2>5
  <2>8. ASSUME ~ Writing(p), troubles = {} PROVE Represents(cells, after)
    <3>1. Quiet
      BY <1>1, <2>8, IdleQuiet
    <3>2. OneSetting(cache) /\ store \in Stores /\ CacheContent(cache) = store
      BY <2>2, <2>8, <3>1
    <3>3. PICK conf : conf = {own} \cup {x \in SettingsIn(cache) : x.client # own.client \/ x.server # own.server}
      OBVIOUS
    <3>4. Represents(cells, [version |-> cache.version, default |-> cache.default,
                        entries |-> TicketsIn(cache),
                        conf |-> {own} \cup {x \in SettingsIn(cache) :
                                                  x.client # own.client \/ x.server # own.server}])
      BY ONLY <1>4, <2>2, <2>3, <2>4, <3>2, ConfigFacts
    <3>5. store = [version |-> cache.version, default |-> cache.default,
                   entries |-> TicketsIn(cache), conf |-> SettingsIn(cache)]
      BY <3>2, ContentIs
    <3>6. store # Nil
      BY <3>2, NilAssumption
    <3>7. store.default = cache.default
      BY <3>5
    <3>8. entry = own
      BY <1>3, <2>4, <3>7
    <3>9. ConfigStore(store, own) = [version |-> cache.version, default |-> cache.default,
                   entries |-> TicketsIn(cache), conf |-> conf]
      <4>1. PICK v, d, e, c : v = cache.version /\ d = cache.default /\ e = TicketsIn(cache) /\ c = SettingsIn(cache)
        OBVIOUS
      <4>2. /\ store = [version |-> v, default |-> d, entries |-> e, conf |-> c]
            /\ conf = {own} \cup {x \in c : x.client # own.client \/ x.server # own.server}
        BY ONLY <3>3, <3>5, <4>1
      <4>3. ConfigStore(store, own) = [version |-> v, default |-> d, entries |-> e, conf |-> conf]
        <5>1. PICK new : new = ConfigStore(store, own)
          OBVIOUS
        <5>2. new = [version |-> v, default |-> d, entries |-> e, conf |-> conf]
          BY ONLY <4>2, <5>1, ConfigStoreIs
        <5> QED
          BY ONLY <5>1, <5>2
      <4> QED
        BY ONLY <4>1, <4>3
    <3> QED
      BY <1>4, <3>3, <3>4, <3>6, <3>8, <3>9
  <2>9. PreparedStep(p, "config", cells, after)
    BY <1>7 DEF Prepare, PreparedStep, FilesInv, FilesTyped
  <2>10. ~ Writing(p) /\ troubles = {} => Holds(config.format, cells, after)
    BY <1>1, <2>8 DEF Holds
  <2>11. "config" # "save"
    OBVIOUS
  <2> QED
    BY <1>1, <2>6, <2>7, <2>9, <2>10, <2>11, PreparedKeeps
<1> QED
  BY <1>5, <1>6, <1>7

\* A process at rest with other sessions.
LEMMA IdleWith ==
    ASSUME NEW r, NEW x, NEW y, NEW c, NEW s, NEW pc, NEW none, NEW empty, NEW at,
           r = [pc |-> pc, op |-> none, client |-> x, sessions |-> y, after |-> none, todo |-> empty, at |-> at, seen |-> at],
           NEW new, new = [r EXCEPT !.client = c, !.sessions = s]
    PROVE  new = [pc |-> pc, op |-> none, client |-> c, sessions |-> s, after |-> none, todo |-> empty, at |-> at, seen |-> at]
<1>1. PICK v : v = [r EXCEPT !.client = c]
  OBVIOUS
<1>2. v = [pc |-> pc, op |-> none, client |-> c, sessions |-> y, after |-> none, todo |-> empty, at |-> at, seen |-> at]
  BY <1>1
<1>3. [r EXCEPT !.client = c, !.sessions = s] = [v EXCEPT !.sessions = s]
  BY ONLY <1>1
<1>4. [v EXCEPT !.sessions = s]
         = [pc |-> pc, op |-> none, client |-> c, sessions |-> s, after |-> none, todo |-> empty, at |-> at, seen |-> at]
  BY ONLY <1>2
<1> QED
  BY <1>3, <1>4

\* from_ccache_name keeps the invariant: the sessions it makes are good ones.
LEMMA ReloadKeeps ==
    ASSUME FilesInv, NEW p \in Processes, from_ccache_name(p)
    PROVE  FilesInv'
<1>1. config.format = "ccache" /\ process[p].pc = "idle"
  BY DEF from_ccache_name, Resolved
<1>2. PICK read : read = (IF file = Nil THEN Error ELSE parse(file))
  OBVIOUS
<1>3. PICK cache, sessions, client : cache = read.value /\ sessions = from_ccache(read.value) /\ client = read.value.default
  OBVIOUS
<1>4. \/ /\ read.ok
         /\ process' = [process EXCEPT ![p] = [Resting(p) EXCEPT !.client = client, !.sessions = sessions]]
         /\ issued' = issued \cup {to_ccache_credential(s) : s \in sessions}
         /\ UNCHANGED <<config, primary, file, tickets, changes, store, troubles>>
      \/ Refuse(p)
  BY <1>2, <1>3 DEF from_ccache_name
<1>5. CASE Refuse(p)
  BY <1>1, <1>5, RefuseKeeps
<1>6. CASE /\ read.ok
           /\ process' = [process EXCEPT ![p] = [Resting(p) EXCEPT !.client = client, !.sessions = sessions]]
           /\ issued' = issued \cup {to_ccache_credential(s) : s \in sessions}
           /\ UNCHANGED <<config, primary, file, tickets, changes, store, troubles>>
  <2>1. file # Nil /\ read = parse(file) /\ parse(file).ok
    BY <1>2, <1>6 DEF Error
  <2>2. cache \in NormalCaches
    BY <1>1, <1>3, <2>1, FileRead
  <2>3. GoodSessions(sessions, client)
    <3>1. PICK own : own = {ccache_credential_session(c) :
                    c \in {x \in TicketsIn(cache) : same_principal_identity(x.client, cache.default)}}
      OBVIOUS
    <3>2. GoodSessions(from_ccache(cache), cache.default)
      BY <2>2, <3>1, ReloadFacts
    <3> QED
      BY <1>3, <3>2
  <2>4. client \in Principals
    BY <1>3, <2>2, NormalTypes DEF Caches
  <2>5. {to_ccache_credential(s) : s \in sessions} \subseteq CredentialRecords
    BY <2>3, SessionCredential DEF GoodSessions
  <2>6. issued \subseteq issued' /\ issued' \subseteq CredentialRecords
        /\ {to_ccache_credential(s) : s \in sessions} \subseteq issued'
    BY <1>6, <2>5 DEF FilesInv, FilesTyped
  <2>7. [Resting(p) EXCEPT !.client = client, !.sessions = sessions]
          = [pc |-> "idle", op |-> Nil, client |-> client, sessions |-> sessions,
             after |-> Nil, todo |-> <<>>, at |-> 0, seen |-> 0]
    <3>1. PICK r, new, x, y, none : /\ r = Resting(p) /\ new = [r EXCEPT !.client = client, !.sessions = sessions]
                                    /\ x = process[p].client /\ y = process[p].sessions /\ none = Nil
      OBVIOUS
    <3>2. PICK pc, empty, at : pc = "idle" /\ empty = <<>> /\ at = 0
      OBVIOUS
    <3>3. r = [pc |-> pc, op |-> none, client |-> x, sessions |-> y, after |-> none, todo |-> empty, at |-> at, seen |-> at]
      BY <3>1, <3>2 DEF Resting
    <3>4. new = [r EXCEPT !.client = client, !.sessions = sessions]
      BY <3>1
    <3>5. new = [pc |-> pc, op |-> none, client |-> client, sessions |-> sessions, after |-> none, todo |-> empty, at |-> at, seen |-> at]
      BY ONLY <3>3, <3>4, IdleWith
    <3>6. new = [Resting(p) EXCEPT !.client = client, !.sessions = sessions]
      BY ONLY <3>1
    <3> QED
      BY ONLY <3>1, <3>2, <3>5, <3>6
  <2>8. process' = [process EXCEPT ![p] =
               [pc |-> "idle", op |-> Nil, client |-> client, sessions |-> sessions,
                after |-> Nil, todo |-> <<>>, at |-> 0, seen |-> 0]]
    BY <1>6, <2>7
  <2>9. process[p].pc # "writing"
    BY <1>1
  <2> QED
    BY <1>6, <2>3, <2>4, <2>6, <2>8, <2>9, IdleKeeps
<1> QED
  BY <1>4, <1>5, <1>6

\* Adding a key to a keytab keeps the invariant.
LEMMA AddKeyKeeps ==
    ASSUME FilesInv, NEW p \in Processes, NEW stamp \in Stamps, NEW kvno \in Kvnos, AddKey(p, stamp, kvno)
    PROVE  FilesInv'
<1>1. config.format = "keytab" /\ process[p].pc = "idle"
  BY DEF AddKey, Resolved
<1>2. PICK read : read = (IF file = Nil THEN Value(NewKeytab, 1) ELSE keytab_parse(file))
  OBVIOUS
<1>3. PICK keytab, number : keytab = read.value /\ number = tickets + 1
  OBVIOUS
<1>4. PICK added, key :
          /\ added = add_entry_from_password(keytab, KeytabName.principal, KeytabName.realm, number, stamp, kvno, 18)
          /\ key = [kvno |-> kvno, timestamp |-> stamp, etype |-> 18, key |-> number]
  OBVIOUS
<1>5. PICK cells, after : cells = keytab_to_bytes(added) /\ after = Append(store, key)
  OBVIOUS
<1>6. \/ read.ok /\ PreparedStep(p, "add", cells, after)
      \/ Refuse(p)
  <2>0. tickets \in Nat
    BY DEF FilesInv, FilesTyped
  <2>1. tickets + 1 \in Nat
    BY ONLY <2>0
  <2> QED
    BY <1>2, <1>3, <1>4, <1>5, <2>1 DEF AddKey, PreparedStep
<1>7. CASE Refuse(p)
  BY <1>1, <1>7, RefuseKeeps
<1>8. CASE read.ok /\ PreparedStep(p, "add", cells, after)
  <2>1. number \in Int /\ stamp \in Int /\ kvno \in Int
    <3>1. tickets \in Nat
      BY DEF FilesInv, FilesTyped
    <3>2. tickets + 1 \in Int
      BY ONLY <3>1
    <3>3. stamp \in Int /\ kvno \in Int
      BY InputAssumption
    <3> QED
      BY <1>3, <3>2, <3>3
  <2>2. keytab \in Keytabs
    <3>1. CASE file = Nil
      BY <1>2, <1>3, <3>1, OkResult, NewKeytabFacts
    <3>2. CASE file # Nil
      <4>1. file \in Seq(Cell) /\ keytab_parse(file).ok /\ keytab = keytab_parse(file).value
        BY <1>2, <1>3, <1>8, <3>2 DEF FilesInv, FilesTyped
      <4> QED
        BY <4>1, KeytabTyped
    <3> QED
      BY <3>1, <3>2
  <2>3. cells \in Seq(Cell)
    <3>1. added \in Keytabs
      BY <1>4, <2>1, <2>2, AddedKeyFacts
    <3> QED
      BY <1>5, <3>1, KeytabReadBack
  <2>4. ASSUME ~ Writing(p), troubles = {} PROVE HoldsKeys(cells, after)
    <3>1. Quiet
      BY <1>1, <2>4, IdleQuiet
    <3>2. Latest("keytab", file, store)
      BY <1>1, <2>4, <3>1 DEF FilesInv
    <3>3. store \in Seq(KeyRecords) /\ {store[i] : i \in DOMAIN store} = KeytabContent(keytab)
      <4>1. CASE file = Nil
        <5>1. store = <<>>
          BY <3>2, <4>1 DEF Latest
        <5>2. keytab = NewKeytab
          BY <1>2, <1>3, <4>1, OkResult
        <5>3. {store[i] : i \in DOMAIN store} = {}
          BY <5>1
        <5> QED
          BY <5>1, <5>2, <5>3, NewKeytabFacts
      <4>2. CASE file # Nil
        <5>1. HoldsKeys(file, store)
          BY <3>2, <4>2 DEF Latest, Holds
        <5>2. keytab = keytab_parse(file).value
          BY <1>2, <1>3, <4>2
        <5> QED
          BY <5>1, <5>2 DEF HoldsKeys
      <4> QED
        BY <4>1, <4>2
    <3>4. HoldsKeys(keytab_to_bytes(added),
                     Append(store, [kvno |-> kvno, timestamp |-> stamp, etype |-> 18, key |-> number]))
      BY ONLY <1>4, <2>1, <2>2, <3>3, AddKeyFacts
    <3> QED
      BY <1>4, <1>5, <3>4
  <2>5. ~ Writing(p) /\ troubles = {} => Holds(config.format, cells, after)
    BY <1>1, <2>4 DEF Holds
  <2>6. config.format # "ccache" /\ "add" # "save"
    BY <1>1
  <2> QED
    BY <1>1, <1>8, <2>3, <2>5, <2>6, PreparedKeeps
<1> QED
  BY <1>6, <1>7, <1>8

-----------------------------------------------------------------------------
(* Writing.                                                                 *)

\* Cells written over others from some place on.
Over(disk, cells, at) ==
    [i \in 1 .. IF Len(disk) > at + Len(cells) THEN Len(disk) ELSE at + Len(cells) |->
        IF i \in at + 1 .. at + Len(cells) THEN cells[i - at]
        ELSE IF i <= Len(disk) THEN disk[i] ELSE [part |-> 0]]

\* Overlaid writes over the file.
LEMMA OverlaidIs ==
    ASSUME NEW cells, NEW at
    PROVE  Overlaid(cells, at) = Over(file, cells, at)
  BY DEF Overlaid, Over

\* Writing over cells gives cells.
LEMMA OverTyped ==
    ASSUME NEW disk \in Seq(Cell), NEW cells \in Seq(Cell), NEW at \in Nat
    PROVE  Over(disk, cells, at) \in Seq(Cell)
<1>1. PICK m, k, n : /\ m = Len(disk) /\ k = Len(cells) /\ n = (IF m > at + k THEN m ELSE at + k)
  OBVIOUS
<1>2. m \in Nat /\ k \in Nat /\ n \in Nat /\ m <= n /\ at + k <= n
  BY <1>1
<1>3. PICK new : new = Over(disk, cells, at)
  OBVIOUS
<1>4. new = [i \in 1 .. n |-> IF i \in at + 1 .. at + k THEN cells[i - at]
                              ELSE IF i <= m THEN disk[i] ELSE [part |-> 0]]
  BY <1>1, <1>3 DEF Over
<1>5. ASSUME NEW i \in 1 .. n PROVE new[i] \in Cell
  <2>1. CASE i \in at + 1 .. at + k
    <3>1. i - at \in 1 .. k
      BY ONLY <1>2, <2>1, at \in Nat
    <3>2. cells[i - at] \in Cell
      BY <1>1, <3>1
    <3> QED
      BY <1>4, <2>1, <3>2
  <2>2. CASE ~ (i \in at + 1 .. at + k) /\ i <= m
    <3>1. i \in 1 .. m
      BY ONLY <1>2, <2>2, i \in 1 .. n
    <3>2. disk[i] \in Cell
      BY <1>1, <3>1
    <3> QED
      BY <1>4, <2>2, <3>2
  <2>3. CASE ~ (i \in at + 1 .. at + k) /\ ~ (i <= m)
    <3>1. [part |-> 0] \in Cell
      BY DEF Cell
    <3> QED
      BY <1>4, <2>3, <3>1
  <2> QED
    BY <2>1, <2>2, <2>3
<1>6. new \in [1 .. n -> Cell]
  BY <1>4, <1>5
<1> QED
  BY <1>2, <1>3, <1>6

\* Going on where the file ends makes it a longer prefix of what is written.
LEMMA OverExact ==
    ASSUME NEW todo \in Seq(Cell), NEW at \in Nat, NEW n \in Nat, at <= n, n <= Len(todo),
           NEW disk, disk = SubSeq(todo, 1, at), NEW new, new = Over(disk, SubSeq(todo, at + 1, n), at)
    PROVE  new = SubSeq(todo, 1, n)
<1>1. PICK cells : cells = SubSeq(todo, at + 1, n)
  OBVIOUS
<1>2. Len(disk) = at /\ \A i \in 1 .. at : disk[i] = todo[i]
  <2>1. Len(todo) \in Nat
    OBVIOUS
  <2>2. at <= Len(todo)
    BY <2>1
  <2> QED
    BY <2>1, <2>2
<1>3. Len(cells) = n - at /\ \A i \in 1 .. n - at : cells[i] = todo[at + i]
  <2>1. Len(todo) \in Nat /\ at + 1 \in Nat /\ at + 1 >= 1
    OBVIOUS
  <2>2. Len(cells) = n - at
    BY <1>1, <2>1
  <2>3. ASSUME NEW i \in 1 .. n - at PROVE cells[i] = todo[at + i]
    BY <1>1, <2>1, <2>2
  <2> QED
    BY <2>2, <2>3
<1>4. new = Over(disk, cells, at)
  BY <1>1
<1>5. ~ (Len(disk) > at + Len(cells)) /\ at + Len(cells) = n
  BY <1>2, <1>3
<1>6. new = [i \in 1 .. n |-> IF i \in at + 1 .. n THEN cells[i - at]
                              ELSE IF i <= at THEN disk[i] ELSE [part |-> 0]]
  BY <1>2, <1>4, <1>5 DEF Over
<1>7. ASSUME NEW i \in 1 .. n PROVE new[i] = todo[i]
  <2>1. CASE i \in at + 1 .. n
    <3>1. i - at \in 1 .. n - at /\ at + (i - at) = i
      BY ONLY <2>1, at \in Nat, n \in Nat
    <3>2. cells[i - at] = todo[at + (i - at)]
      BY ONLY <1>3, <3>1
    <3> QED
      BY <1>6, <2>1, <3>1, <3>2
  <2>2. CASE ~ (i \in at + 1 .. n)
    <3>1. i \in 1 .. at /\ i <= at
      BY ONLY <2>2, at \in Nat, n \in Nat, i \in 1 .. n
    <3>2. disk[i] = todo[i]
      BY ONLY <1>2, <3>1
    <3> QED
      BY <1>6, <2>2, <3>1, <3>2
  <2> QED
    BY <2>1, <2>2
<1>8. SubSeq(todo, 1, n) = [i \in 1 .. n |-> todo[i]]
  OBVIOUS
<1>9. new = [i \in 1 .. n |-> new[i]]
  BY <1>6
<1> QED
  BY ONLY <1>7, <1>8, <1>9

\* A prefix is a file that was cut off between two fields.
LEMMA CutStops ==
    ASSUME NEW todo \in Seq(Cell), NEW at \in Nat, at < Len(todo), NEW disk, disk = SubSeq(todo, 1, at)
    PROVE  StopsIn(disk, 1, todo)
<1>1. Len(todo) \in Nat /\ at <= Len(todo)
  OBVIOUS
<1>2. Len(disk) = at /\ \A i \in 1 .. at : disk[i] = todo[i]
  BY <1>1
<1>3. at \in 0 .. Len(todo) - 1
  BY <1>1
<1>4. /\ \A i \in 1 .. at : disk[1 + i - 1] = todo[i]
      /\ 1 + at - 1 <= Len(disk) /\ Len(disk) <= 1 + at
      /\ 1 + at <= Len(disk) => disk[1 + at] = [part |-> 0]
  <2>1. \A i \in 1 .. at : 1 + i - 1 = i
    OBVIOUS
  <2>2. \A i \in 1 .. at : disk[1 + i - 1] = todo[i]
    BY <1>2, <2>1
  <2>3. 1 + at - 1 <= Len(disk) /\ Len(disk) <= 1 + at /\ ~ (1 + at <= Len(disk))
    BY ONLY <1>2, at \in Nat
  <2> QED
    BY <2>2, <2>3
<1> QED
  BY ONLY <1>3, <1>4 DEF StopsIn

\* A prefix and a part of a cell are one that was cut off inside a field.
LEMMA PartStops ==
    ASSUME NEW todo \in Seq(Cell), NEW at \in Nat, at < Len(todo), NEW disk, disk = SubSeq(todo, 1, at),
           NEW new, new = Over(disk, <<[part |-> 0]>>, at)
    PROVE  StopsIn(new, 1, todo)
<1>1. Len(todo) \in Nat /\ at <= Len(todo)
  OBVIOUS
<1>2. Len(disk) = at /\ \A i \in 1 .. at : disk[i] = todo[i]
  BY <1>1
<1>3. at \in 0 .. Len(todo) - 1
  BY <1>1
<1>4. PICK cells : cells = <<[part |-> 0]>>
  OBVIOUS
<1>5. Len(cells) = 1 /\ cells[1] = [part |-> 0]
  BY <1>4
<1>6. ~ (Len(disk) > at + Len(cells)) /\ at + Len(cells) = at + 1
  BY <1>2, <1>5
<1>7. new = Over(disk, cells, at)
  BY <1>4
<1>8. new = [i \in 1 .. at + 1 |-> IF i \in at + 1 .. at + 1 THEN cells[i - at]
                              ELSE IF i <= at THEN disk[i] ELSE [part |-> 0]]
  BY <1>2, <1>6, <1>7 DEF Over
<1>9. Len(new) = at + 1
  <2>1. DOMAIN new = 1 .. at + 1 /\ new = [i \in 1 .. at + 1 |-> new[i]]
    BY <1>8
  <2>2. new \in [1 .. at + 1 -> {new[i] : i \in 1 .. at + 1}] /\ at + 1 \in Nat
    BY <2>1
  <2> QED
    BY <2>1, <2>2
<1>10. new[at + 1] = [part |-> 0]
  <2>1. at + 1 \in at + 1 .. at + 1 /\ at + 1 \in 1 .. at + 1 /\ (at + 1) - at = 1
    OBVIOUS
  <2>2. new[at + 1] = cells[(at + 1) - at]
    BY <1>8, <2>1
  <2> QED
    BY <1>5, <2>1, <2>2
<1>11. ASSUME NEW i \in 1 .. at PROVE new[i] = todo[i]
  <2>1. i \in 1 .. at + 1 /\ ~ (i \in at + 1 .. at + 1) /\ i <= at
    OBVIOUS
  <2>2. new[i] = disk[i]
    BY <1>8, <2>1
  <2> QED
    BY <1>2, <2>2
<1>12. /\ \A i \in 1 .. at : new[1 + i - 1] = todo[i]
       /\ 1 + at - 1 <= Len(new) /\ Len(new) <= 1 + at
       /\ 1 + at <= Len(new) => new[1 + at] = [part |-> 0]
  <2>1. \A i \in 1 .. at : 1 + i - 1 = i
    OBVIOUS
  <2>2. \A i \in 1 .. at : new[1 + i - 1] = todo[i]
    BY <1>11, <2>1
  <2>3. 1 + at - 1 <= Len(new) /\ Len(new) <= 1 + at /\ 1 + at = at + 1
    BY ONLY <1>9, at \in Nat
  <2> QED
    BY <1>10, <2>2, <2>3
<1> QED
  BY ONLY <1>3, <1>12 DEF StopsIn

\* A step of the process that writes the file.
WriterStep(p, r) ==
    /\ process' = [q \in Processes |-> IF q = p THEN r ELSE process[q]]
    /\ UNCHANGED <<config, primary, tickets, changes, issued>>
    /\ file' \in Seq(Cell) /\ troubles' \subseteq {"overlap", "damage"}

\* A step of a writer keeps the invariant, if the file that it leaves is in
\* order.
LEMMA WriterKeeps ==
    ASSUME FilesInv, NEW p \in Processes, process[p].pc = "writing", NEW r, WriterStep(p, r),
           RecordOK(r, config.format, changes, troubles', issued),
           WriterOK(r, file', changes, troubles'),
           Busy(r) /\ r.seen = changes => process[p].seen = changes,
           "overlap" \in troubles => "overlap" \in troubles' \/ process[p].seen = changes,
           config.format = "ccache" /\ "overlap" \notin troubles' => FileIntact(file', issued),
           troubles' = {} /\ Quiet' => Latest(config.format, file', store')
    PROVE  FilesInv'
<1>1. /\ process' = [q \in Processes |-> IF q = p THEN r ELSE process[q]]
      /\ config' = config /\ primary' = primary /\ tickets' = tickets /\ changes' = changes /\ issued' = issued
      /\ file' \in Seq(Cell) /\ troubles' \subseteq {"overlap", "damage"}
  BY DEF WriterStep
<1>2. \A q \in Processes : process'[q] = IF q = p THEN r ELSE process[q]
  BY <1>1
<1>3. FilesTyped'
  <2>1. process' = [q \in Processes |-> process'[q]]
    BY <1>1
  <2> QED
    BY <1>1, <2>1 DEF FilesInv, FilesTyped
<1>4. ASSUME NEW q \in Processes, q # p, Busy(process[q])
      PROVE  process[q].seen # changes
  BY <1>4 DEF FilesInv, OthersOK
<1>5. ASSUME NEW q \in Processes, q # p, process[q].pc = "writing"
      PROVE  process[p].seen # changes
  <2>1. Busy(process[p])
    BY DEF Busy
  <2> QED
    BY <1>5, <2>1 DEF FilesInv, OthersOK
<1>6. ASSUME NEW q \in Processes PROVE RecordOK(process'[q], config'.format, changes', troubles', issued')
  <2>1. CASE q = p
    BY <1>1, <1>2, <2>1
  <2>2. CASE q # p
    <3>1. RecordOK(process[q], config.format, changes, troubles, issued)
      BY DEF FilesInv
    <3>2. Busy(process[q]) => process[q].seen # changes
      BY <1>4, <2>2
    <3>3. RecordOK(process[q], config.format, changes, troubles', issued)
      BY ONLY <3>1, <3>2 DEF RecordOK
    <3> QED
      BY <1>1, <1>2, <2>2, <3>3
  <2> QED
    BY <2>1, <2>2
<1>7. ASSUME NEW q \in Processes PROVE WriterOK(process'[q], file', changes', troubles')
  <2>1. CASE q = p
    BY <1>1, <1>2, <2>1
  <2>2. CASE q # p
    <3>1. WriterOK(process[q], file, changes, troubles)
      BY DEF FilesInv
    <3>2. ASSUME process[q].pc = "writing" PROVE process[q].seen # changes /\ "overlap" \in troubles'
      <4>1. Busy(process[q])
        BY <3>2 DEF Busy
      <4>2. process[q].seen # changes
        BY <1>4, <2>2, <4>1
      <4>3. "overlap" \in troubles
        BY <3>1, <3>2, <4>2 DEF WriterOK
      <4> QED
        BY <1>5, <2>2, <3>2, <4>2, <4>3
    <3>3. WriterOK(process[q], file', changes, troubles')
      BY <1>1, <3>2 DEF WriterOK
    <3> QED
      BY <1>1, <1>2, <2>2, <3>3
  <2> QED
    BY <2>1, <2>2
<1>8. OthersOK'
  <2>1. SUFFICES ASSUME NEW x \in Processes, NEW q \in Processes,
                        Busy(process'[x]), process'[x].seen = changes', x # q
                 PROVE  process'[q].pc # "writing"
    BY DEF OthersOK
  <2>2. x = p
    BY <1>1, <1>2, <1>4, <2>1
  <2>3. process[p].seen = changes
    BY <1>1, <1>2, <2>1, <2>2
  <2> QED
    BY <1>2, <1>5, <2>1, <2>2, <2>3
<1> QED
  BY <1>1, <1>3, <1>6, <1>7, <1>8 DEF FilesInv

\* What is known of a writer.
LEMMA WriterIs ==
    ASSUME FilesInv, NEW p \in Processes, process[p].pc = "writing"
    PROVE  /\ file \in Seq(Cell) /\ ("overlap" \notin troubles => process[p].seen = changes)
           /\ process[p].seen = changes => file = SubSeq(process[p].todo, 1, process[p].at)
           /\ process[p].op = "save" \/ (process[p].seen = changes /\ troubles = {})
                => Holds(config.format, process[p].todo, process[p].after)
           /\ config.format = "ccache" =>
                 /\ ClientOK(process[p], issued)
                 /\ process[p].op = "save" \/ (process[p].seen = changes /\ "overlap" \notin troubles)
                      => Intact(process[p].todo, issued)
           /\ process[p].todo \in Seq(Cell) /\ process[p].at \in Nat /\ process[p].at <= Len(process[p].todo)
           /\ process[p].at = 0 \/ process[p].at < Len(process[p].todo)
<1>1. RecordOK(process[p], config.format, changes, troubles, issued) /\ WriterOK(process[p], file, changes, troubles)
  BY DEF FilesInv
<1>2. Busy(process[p])
  BY DEF Busy
<1>3. ProcessTyped(process[p])
  BY <1>1 DEF RecordOK
<1>4. /\ process[p].todo \in Seq(Cell) /\ process[p].at \in Nat
      /\ process[p].at = 0 \/ process[p].at < Len(process[p].todo)
  BY <1>3 DEF ProcessTyped
<1>5. process[p].at <= Len(process[p].todo)
  <2>1. Len(process[p].todo) \in Nat
    BY <1>4
  <2> QED
    BY ONLY <1>4, <2>1
<1>6. /\ process[p].op = "save" \/ (process[p].seen = changes /\ troubles = {})
                => Holds(config.format, process[p].todo, process[p].after)
      /\ config.format = "ccache" =>
                 /\ ClientOK(process[p], issued)
                 /\ process[p].op = "save" \/ (process[p].seen = changes /\ "overlap" \notin troubles)
                      => Intact(process[p].todo, issued)
  BY <1>1, <1>2 DEF RecordOK
<1>7. /\ file \in Seq(Cell) /\ ("overlap" \notin troubles => process[p].seen = changes)
      /\ process[p].seen = changes => file = SubSeq(process[p].todo, 1, process[p].at)
  BY <1>1 DEF WriterOK
<1> QED
  BY ONLY <1>4, <1>5, <1>6, <1>7

\* Writing the first part keeps the invariant: the file is cut off.
LEMMA WriteSomeKeeps ==
    ASSUME FilesInv, NEW p \in Processes, NEW n \in Cuts, WriteSome(p, n)
    PROVE  FilesInv'
<1>1. PICK o, todo : o = process[p] /\ todo = process[p].todo
  OBVIOUS
<1>2. PICK r : r = [pc |-> o.pc, op |-> o.op, client |-> o.client, sessions |-> o.sessions,
                    after |-> o.after, todo |-> o.todo, at |-> n, seen |-> o.seen]
  OBVIOUS
<1>3. /\ o.pc = "writing" /\ o.at = 0 /\ n < Len(todo) /\ file' = Overlaid(SubSeq(todo, 1, n), 0)
      /\ process' = [process EXCEPT ![p].at = n]
      /\ UNCHANGED <<config, primary, tickets, changes, store, troubles, issued>>
  BY <1>1 DEF WriteSome
<1>4. process' = Others(process, Processes, p, r)
  <2>1. process = [q \in Processes |-> process[q]] /\ process[p] = Explicit(process[p])
    BY ProcessIs
  <2>2. r = [pc |-> process[p].pc, op |-> process[p].op, client |-> process[p].client, sessions |-> process[p].sessions,
             after |-> process[p].after, todo |-> process[p].todo, at |-> n, seen |-> process[p].seen]
    BY <1>1, <1>2
  <2>3. process' = [process EXCEPT ![p].at = n]
    BY <1>3
  <2> QED
    BY ONLY <2>1, <2>2, <2>3, p \in Processes, ExceptAt
<1>5. n \in Nat
  BY InputAssumption
<1>6. /\ file \in Seq(Cell) /\ todo \in Seq(Cell) /\ ("overlap" \notin troubles => o.seen = changes)
      /\ o.seen = changes => file = SubSeq(todo, 1, 0)
      /\ config.format = "ccache" => (o.seen = changes /\ "overlap" \notin troubles => Intact(todo, issued))
  BY <1>1, <1>3, WriterIs
<1>7. file' \in Seq(Cell) /\ (o.seen = changes => file' = SubSeq(todo, 1, n))
  <2>1. file' = Over(file, SubSeq(todo, 1, n), 0)
    BY <1>3, OverlaidIs
  <2>2. n <= Len(todo) /\ Len(todo) \in Nat /\ 0 <= n /\ 0 \in Nat
    BY <1>3, <1>5, <1>6
  <2>3. SubSeq(todo, 1, n) \in Seq(Cell)
    BY <1>5, <1>6, <2>2
  <2>4. file' \in Seq(Cell)
    BY <1>6, <2>1, <2>2, <2>3, OverTyped
  <2>5. 0 + 1 = 1
    OBVIOUS
  <2>6. ASSUME o.seen = changes PROVE file' = SubSeq(todo, 1, n)
    <3>1. PICK new : new = file'
      OBVIOUS
    <3>2. new = Over(file, SubSeq(todo, 0 + 1, n), 0) /\ file = SubSeq(todo, 1, 0)
      BY <1>6, <2>1, <2>5, <2>6, <3>1
    <3>3. new = SubSeq(todo, 1, n)
      <4>1. PICK disk, at : disk = file /\ at = 0
        OBVIOUS
      <4>2. disk = SubSeq(todo, 1, at) /\ new = Over(disk, SubSeq(todo, at + 1, n), at) /\ at \in Nat /\ at <= n
        BY <2>2, <3>2, <4>1
      <4>3. todo \in Seq(Cell) /\ n \in Nat /\ n <= Len(todo)
        BY <1>5, <1>6, <2>2
      <4> QED
        BY ONLY <4>2, <4>3, OverExact
    <3> QED
      BY <3>1, <3>3
  <2> QED
    BY <2>4, <2>6
<1>8. /\ r.pc = "writing" /\ r.todo = o.todo /\ r.at = n /\ r.seen = o.seen /\ r.client = o.client
      /\ r.sessions = o.sessions /\ r.op = o.op /\ r.after = o.after
  BY <1>2, <1>3
<1>9. RecordOK(r, config.format, changes, troubles, issued)
  <2>1. RecordOK(o, config.format, changes, troubles, issued)
    BY <1>1 DEF FilesInv
  <2>2. ProcessTyped(o)
    BY <2>1 DEF RecordOK
  <2>3. ProcessTyped(r)
    <3>1. r = [pc |-> r.pc, op |-> r.op, client |-> r.client, sessions |-> r.sessions,
               after |-> r.after, todo |-> r.todo, at |-> r.at, seen |-> r.seen]
      BY <1>2
    <3>2. r.pc \in Pcs /\ r.todo \in Seq(Cell) /\ r.at \in Nat /\ r.seen \in Int /\ r.at < Len(r.todo)
      BY <1>1, <1>3, <1>5, <1>8, <2>2 DEF ProcessTyped
    <3> QED
      BY <1>8, <3>1, <3>2 DEF ProcessTyped
  <2>4. ClientOK(o, issued) => ClientOK(r, issued)
    BY <1>8 DEF ClientOK
  <2>5. Busy(o)
    BY <1>3 DEF Busy
  <2> QED
    BY <1>8, <2>1, <2>3, <2>4, <2>5 DEF RecordOK
<1>10. WriterOK(r, file', changes, troubles)
  BY <1>1, <1>6, <1>7, <1>8 DEF WriterOK
<1>11. ASSUME config.format = "ccache", "overlap" \notin troubles PROVE FileIntact(file', issued)
  <2>1. Intact(todo, issued) /\ file' = SubSeq(todo, 1, n)
    BY <1>6, <1>7, <1>11
  <2>2. StopsIn(file', 1, todo)
    BY <1>3, <1>5, <1>6, <2>1, CutStops
  <2> QED
    BY <2>1, <2>2 DEF FileIntact
<1>12. ~ Quiet'
  <2>1. process'[p] = r
    BY <1>4 DEF Others
  <2> QED
    BY <1>8, <2>1 DEF Quiet
<1>13. WriterStep(p, r)
  BY <1>3, <1>4, <1>7 DEF WriterStep, Others, FilesInv, FilesTyped
<1>14. troubles' = troubles
  BY <1>3
<1> QED
  BY <1>1, <1>3, <1>8, <1>9, <1>10, <1>11, <1>12, <1>13, <1>14, WriterKeeps

\* A writer that is done.
LEMMA IdleRecord ==
    ASSUME FilesInv, NEW p \in Processes, NEW r, r = Resting(p), NEW bad, NEW disk
    PROVE  RecordOK(r, config.format, changes, bad, issued) /\ WriterOK(r, disk, changes, bad) /\ ~ Busy(r) /\ r.pc = "idle"
<1>1. r = [pc |-> "idle", op |-> Nil, client |-> process[p].client,
            sessions |-> process[p].sessions, after |-> Nil, todo |-> <<>>, at |-> 0, seen |-> 0]
  BY DEF Resting
<1>2. /\ r.pc = "idle" /\ r.todo = <<>> /\ r.at = 0 /\ r.seen = 0 /\ r.client = process[p].client
      /\ r.sessions = process[p].sessions /\ r.op = Nil /\ r.after = Nil
  BY <1>1
<1>3. ProcessTyped(r)
  <2>1. <<>> \in Seq(Cell) /\ 0 \in Nat /\ 0 \in Int /\ "idle" \in Pcs
    BY DEF Pcs
  <2> QED
    BY <1>1, <1>2, <2>1 DEF ProcessTyped
<1>4. ~ Busy(r) /\ r.pc # "writing"
  BY <1>2 DEF Busy
<1>5. config.format = "ccache" => ClientOK(r, issued)
  BY <1>2, RecordIs DEF ClientOK
<1>6. r.seen <= changes
  BY <1>2, RecordIs
<1> QED
  BY <1>2, <1>3, <1>4, <1>5, <1>6, QuietRecord DEF WriterOK

\* Writing the rest keeps it: the file is what was to be written, unless
\* writers overlapped.
LEMMA WriteRestKeeps ==
    ASSUME FilesInv, NEW p \in Processes, WriteRest(p)
    PROVE  FilesInv'
<1>1. PICK o, todo, at : o = process[p] /\ todo = process[p].todo /\ at = process[p].at
  OBVIOUS
<1>2. PICK r : r = Resting(p)
  OBVIOUS
<1>3. /\ o.pc = "writing" /\ file' = Overlaid(SubSeq(todo, at + 1, Len(todo)), at)
      /\ process' = [process EXCEPT ![p] = r] /\ store' = o.after
      /\ troubles' = IF o.op = "save" /\ o.seen = changes THEN {} ELSE troubles
      /\ UNCHANGED <<config, primary, tickets, changes, issued>>
  BY <1>1, <1>2 DEF WriteRest
<1>4. process' = Others(process, Processes, p, r)
  <2>1. process = [q \in Processes |-> process[q]]
    BY ProcessIs
  <2> QED
    BY ONLY <1>3, <2>1, p \in Processes, ExceptOne
<1>5. /\ file \in Seq(Cell) /\ todo \in Seq(Cell) /\ at \in Nat /\ at <= Len(todo)
      /\ "overlap" \notin troubles => o.seen = changes
      /\ o.seen = changes => file = SubSeq(todo, 1, at)
      /\ o.op = "save" \/ (o.seen = changes /\ troubles = {}) => Holds(config.format, todo, o.after)
      /\ config.format = "ccache" =>
            (o.op = "save" \/ (o.seen = changes /\ "overlap" \notin troubles) => Intact(todo, issued))
  BY <1>1, <1>3, WriterIs
<1>6. file' \in Seq(Cell) /\ (o.seen = changes => file' = todo)
  <2>1. file' = Over(file, SubSeq(todo, at + 1, Len(todo)), at)
    BY <1>3, OverlaidIs
  <2>2. Len(todo) \in Nat /\ Len(todo) <= Len(todo)
    BY <1>5
  <2>3. SubSeq(todo, at + 1, Len(todo)) \in Seq(Cell)
    BY <1>5, <2>2
  <2>4. file' \in Seq(Cell)
    BY <1>5, <2>1, <2>3, OverTyped
  <2>5. ASSUME o.seen = changes PROVE file' = todo
    <3>1. PICK new, n : new = file' /\ n = Len(todo)
      OBVIOUS
    <3>2. new = Over(file, SubSeq(todo, at + 1, n), at) /\ file = SubSeq(todo, 1, at) /\ n <= Len(todo) /\ n \in Nat /\ at <= n
      BY <1>5, <2>1, <2>2, <2>5, <3>1
    <3>3. new = SubSeq(todo, 1, n)
      <4>1. PICK disk : disk = file
        OBVIOUS
      <4>2. disk = SubSeq(todo, 1, at) /\ new = Over(disk, SubSeq(todo, at + 1, n), at)
        BY <3>2, <4>1
      <4>3. todo \in Seq(Cell) /\ n \in Nat /\ n <= Len(todo) /\ at \in Nat /\ at <= n
        BY <1>5, <3>2
      <4> QED
        BY ONLY <4>2, <4>3, OverExact
    <3>4. SubSeq(todo, 1, Len(todo)) = todo
      BY <1>5
    <3> QED
      BY <3>1, <3>3, <3>4
  <2> QED
    BY <2>4, <2>5
<1>7. "overlap" \notin troubles' => o.seen = changes
  BY <1>3, <1>5
<1>8. RecordOK(r, config.format, changes, troubles', issued) /\ WriterOK(r, file', changes, troubles') /\ ~ Busy(r)
  BY <1>2, IdleRecord
<1>9. ASSUME config.format = "ccache", "overlap" \notin troubles' PROVE FileIntact(file', issued)
  <2>1. o.seen = changes /\ file' = todo
    BY <1>6, <1>7, <1>9
  <2>2. Intact(todo, issued)
    BY <1>3, <1>5, <1>9, <2>1
  <2> QED
    BY <2>1, <2>2 DEF FileIntact
<1>10. ASSUME troubles' = {} PROVE Latest(config.format, file', store')
  <2>1. o.seen = changes /\ file' = todo
    BY <1>6, <1>7, <1>10
  <2>2. Holds(config.format, todo, o.after)
    BY <1>3, <1>5, <1>10, <2>1
  <2>3. file' # Nil
    BY <1>6, NilAssumption
  <2> QED
    BY <1>3, <2>1, <2>2, <2>3 DEF Latest
<1>11. WriterStep(p, r)
  <2>1. troubles' \subseteq {"overlap", "damage"}
    BY <1>3 DEF FilesInv, FilesTyped
  <2> QED
    BY <1>3, <1>4, <1>6, <2>1 DEF WriterStep, Others
<1>12. "overlap" \in troubles => "overlap" \in troubles' \/ process[p].seen = changes
  BY <1>1, <1>3
<1> QED
  BY <1>1, <1>3, <1>8, <1>9, <1>10, <1>11, <1>12, WriterKeeps

\* A writer that fails or dies keeps it: the file stays cut off.
LEMMA DamageKeeps ==
    ASSUME FilesInv, NEW p \in Processes, NEW inside \in BOOLEAN, Damage(p, inside)
    PROVE  FilesInv'
<1>1. PICK o, todo, at : o = process[p] /\ todo = process[p].todo /\ at = process[p].at
  OBVIOUS
<1>2. PICK r : r = Resting(p)
  OBVIOUS
<1>3. /\ o.pc = "writing" /\ file' = (IF inside THEN Overlaid(<<[part |-> 0]>>, at) ELSE file)
      /\ process' = [process EXCEPT ![p] = r] /\ troubles' = troubles \cup {"damage"}
      /\ UNCHANGED <<config, primary, tickets, changes, store, issued>>
  BY <1>1, <1>2 DEF Damage
<1>4. process' = Others(process, Processes, p, r)
  <2>1. process = [q \in Processes |-> process[q]]
    BY ProcessIs
  <2> QED
    BY ONLY <1>3, <2>1, p \in Processes, ExceptOne
<1>5. /\ file \in Seq(Cell) /\ todo \in Seq(Cell) /\ at \in Nat /\ (at = 0 \/ at < Len(todo))
      /\ "overlap" \notin troubles => o.seen = changes
      /\ o.seen = changes => file = SubSeq(todo, 1, at)
      /\ config.format = "ccache" => (o.seen = changes /\ "overlap" \notin troubles => Intact(todo, issued))
  BY <1>1, <1>3, WriterIs
<1>6. file' \in Seq(Cell)
  <2>1. <<[part |-> 0]>> \in Seq(Cell)
    BY DEF Cell
  <2>2. Over(file, <<[part |-> 0]>>, at) \in Seq(Cell)
    BY <1>5, <2>1, OverTyped
  <2> QED
    BY <1>3, <1>5, <2>2, OverlaidIs
<1>7. RecordOK(r, config.format, changes, troubles', issued) /\ WriterOK(r, file', changes, troubles') /\ ~ Busy(r)
  BY <1>2, IdleRecord
<1>8. ASSUME config.format = "ccache", "overlap" \notin troubles' PROVE FileIntact(file', issued)
  <2>1. Intact(todo, issued) /\ file = SubSeq(todo, 1, at)
    BY <1>3, <1>5, <1>8
  <2>2. Len(todo) > 0 /\ Len(todo) \in Nat
    BY <2>1, IntactCells
  <2>3. at < Len(todo)
    BY ONLY <1>5, <2>2
  <2>4. StopsIn(file', 1, todo)
    <3>1. CASE inside
      <4>1. PICK new : new = file'
        OBVIOUS
      <4>2. new = Over(file, <<[part |-> 0]>>, at)
        BY <1>3, <3>1, <4>1, OverlaidIs
      <4>3. StopsIn(new, 1, todo)
        BY ONLY <1>5, <2>1, <2>3, <4>2, PartStops
      <4> QED
        BY <4>1, <4>3
    <3>2. CASE ~ inside
      <4>1. file' = file
        BY <1>3, <3>2
      <4> QED
        BY <1>5, <2>1, <2>3, <4>1, CutStops
    <3> QED
      BY <3>1, <3>2
  <2> QED
    BY <2>1, <2>4 DEF FileIntact
<1>9. troubles' # {} /\ troubles' \subseteq {"overlap", "damage"} /\ ("overlap" \in troubles => "overlap" \in troubles')
  BY <1>3 DEF FilesInv, FilesTyped
<1>10. WriterStep(p, r)
  BY <1>3, <1>4, <1>6, <1>9 DEF WriterStep, Others
<1> QED
  BY <1>1, <1>3, <1>7, <1>8, <1>9, <1>10, WriterKeeps

-----------------------------------------------------------------------------
(* The theorems.                                                            *)

\* An empty file is one that was cut off.
LEMMA EmptyStops ==
    ASSUME NEW todo \in Seq(Cell), Len(todo) > 0
    PROVE  StopsIn(<<>>, 1, todo)
<1>1. <<>> = SubSeq(todo, 1, 0)
  OBVIOUS
<1> QED
  BY <1>1, CutStops

\* Truncating the file keeps the invariant: writers that overlap with this one
\* are noticed in troubles.
LEMMA OpenKeeps ==
    ASSUME FilesInv, NEW p \in Processes, Open(p)
    PROVE  FilesInv'
<1>1. PICK o, n, seen : /\ o = process[p] /\ n = changes + 1 /\ seen = IF Writing(p) THEN 0 - 1 ELSE changes + 1
  OBVIOUS
<1>2. PICK r : r = [pc |-> "writing", op |-> o.op, client |-> o.client, sessions |-> o.sessions,
                    after |-> o.after, todo |-> o.todo, at |-> o.at, seen |-> seen]
  OBVIOUS
<1>3. /\ o.pc = "prepared" /\ file' = <<>> /\ changes' = n
      /\ process' = [process EXCEPT ![p].pc = "writing", ![p].seen = seen]
      /\ troubles' = IF Writing(p) \/ (o.op # "save" /\ o.seen # changes) THEN troubles \cup {"overlap"} ELSE troubles
      /\ UNCHANGED <<config, primary, tickets, store, issued>>
  BY <1>1 DEF Open
<1>4. process' = Others(process, Processes, p, r)
  <2>1. process = [q \in Processes |-> process[q]] /\ process[p] = Explicit(process[p])
    BY ProcessIs
  <2>2. r = [pc |-> "writing", op |-> process[p].op, client |-> process[p].client, sessions |-> process[p].sessions,
             after |-> process[p].after, todo |-> process[p].todo, at |-> process[p].at, seen |-> seen]
    BY <1>1, <1>2
  <2>3. process' = OpenedOf(process, p, "writing", seen)
    BY <1>3 DEF OpenedOf
  <2> QED
    BY ONLY <2>1, <2>2, <2>3, p \in Processes, ExceptOpen
<1>5. process' = [q \in Processes |-> IF q = p THEN r ELSE process[q]]
  BY <1>4 DEF Others
<1>6. \A q \in Processes : process'[q] = IF q = p THEN r ELSE process[q]
  BY <1>5
<1>7. changes \in Nat /\ n \in Nat /\ changes < n /\ seen \in Int /\ seen <= n /\ (seen = n <=> ~ Writing(p))
  <2>1. changes \in Nat
    BY DEF FilesInv, FilesTyped
  <2> QED
    BY ONLY <1>1, <2>1
<1>8. FilesTyped'
  <2>1. process' = [q \in Processes |-> process'[q]]
    BY <1>5
  <2>2. troubles' \subseteq {"overlap", "damage"}
    BY <1>3 DEF FilesInv, FilesTyped
  <2>3. file' \in Seq(Cell) \cup {Nil} /\ changes' \in Nat
    BY <1>3, <1>7
  <2> QED
    BY <1>3, <2>1, <2>2, <2>3 DEF FilesInv, FilesTyped
<1>9. RecordOK(o, config.format, changes, troubles, issued) /\ Busy(o)
  BY <1>1, <1>3 DEF FilesInv, Busy
<1>10. /\ r.pc = "writing" /\ r.todo = o.todo /\ r.at = 0 /\ r.seen = seen /\ r.client = o.client
       /\ r.sessions = o.sessions /\ r.op = o.op /\ r.after = o.after /\ r.todo \in Seq(Cell)
  <2>1. o.at = 0 /\ o.todo \in Seq(Cell)
    BY <1>3, <1>9 DEF RecordOK, ProcessTyped
  <2> QED
    BY <1>2, <2>1
<1>11. "overlap" \notin troubles' => ~ Writing(p) /\ troubles' = troubles /\ (o.op = "save" \/ o.seen = changes)
  BY <1>3
<1>12. RecordOK(r, config.format, n, troubles', issued)
  <2>1. ProcessTyped(r)
    <3>1. "writing" \in Pcs /\ 0 \in Nat
      BY DEF Pcs
    <3>2. r = [pc |-> r.pc, op |-> r.op, client |-> r.client, sessions |-> r.sessions,
               after |-> r.after, todo |-> r.todo, at |-> r.at, seen |-> r.seen]
      BY <1>2
    <3> QED
      BY ONLY <1>7, <1>10, <3>1, <3>2 DEF ProcessTyped
  <2>2. config.format = "ccache" => ClientOK(r, issued)
    BY <1>9, <1>10 DEF RecordOK, ClientOK
  <2>3. troubles' = {} => "overlap" \notin troubles'
    OBVIOUS
  <2>4. ASSUME config.format = "ccache", r.op = "save" \/ (r.seen = n /\ "overlap" \notin troubles')
        PROVE  Intact(r.todo, issued)
    BY <1>9, <1>10, <1>11, <2>4 DEF RecordOK
  <2>5. ASSUME r.op = "save" \/ (r.seen = n /\ troubles' = {})
        PROVE  Holds(config.format, r.todo, r.after)
    BY <1>9, <1>10, <1>11, <2>3, <2>5 DEF RecordOK
  <2> QED
    BY <1>7, <1>10, <2>1, <2>2, <2>4, <2>5 DEF RecordOK
<1>13. ASSUME NEW q \in Processes, q # p
       PROVE  process'[q] = process[q] /\ process[q].seen <= changes /\ process[q].seen \in Int /\ process[q].seen # n
  <2>1. process'[q] = process[q]
    BY <1>6, <1>13
  <2>2. ProcessTyped(process[q]) /\ process[q].seen <= changes
    BY RecordIs
  <2>3. process[q].seen \in Int
    BY <2>2 DEF ProcessTyped
  <2>4. process[q].seen # n
    BY ONLY <1>7, <2>2, <2>3
  <2> QED
    BY <2>1, <2>2, <2>3, <2>4
<1>14. ASSUME NEW q \in Processes PROVE RecordOK(process'[q], config'.format, changes', troubles', issued')
  <2>1. CASE q = p
    BY <1>3, <1>6, <1>12, <2>1
  <2>2. CASE q # p
    <3>1. RecordOK(process[q], config.format, changes, troubles, issued)
      BY DEF FilesInv
    <3>2. process[q].seen # n /\ process[q].seen <= n
      BY <1>7, <1>13, <2>2
    <3>3. RecordOK(process[q], config.format, n, troubles', issued)
      BY ONLY <3>1, <3>2 DEF RecordOK
    <3> QED
      BY <1>3, <1>13, <2>2, <3>3
  <2> QED
    BY <2>1, <2>2
<1>15. ASSUME NEW q \in Processes PROVE WriterOK(process'[q], file', changes', troubles')
  <2>1. <<>> \in Seq(Cell)
    OBVIOUS
  <2>2. CASE q = p
    <3>1. <<>> = SubSeq(r.todo, 1, r.at)
      BY <1>10
    <3>2. "overlap" \notin troubles' => r.seen = n
      BY <1>7, <1>10, <1>11
    <3> QED
      BY <1>3, <1>6, <2>1, <2>2, <3>1, <3>2 DEF WriterOK
  <2>3. CASE q # p
    <3>1. process[q].pc = "writing" => "overlap" \in troubles'
      BY <1>11, <2>3 DEF Writing
    <3> QED
      BY <1>3, <1>13, <2>1, <2>3, <3>1 DEF WriterOK
  <2> QED
    BY <2>2, <2>3
<1>16. OthersOK'
  <2>1. SUFFICES ASSUME NEW x \in Processes, NEW q \in Processes,
                        Busy(process'[x]), process'[x].seen = changes', x # q
                 PROVE  process'[q].pc # "writing"
    BY DEF OthersOK
  <2>2. x = p
    BY <1>3, <1>13, <2>1
  <2>3. ~ Writing(p)
    BY <1>3, <1>6, <1>7, <1>10, <2>1, <2>2
  <2> QED
    BY <1>13, <2>1, <2>2, <2>3 DEF Writing
<1>17. ASSUME config'.format = "ccache", "overlap" \notin troubles' PROVE FileIntact(file', issued')
  <2>1. Intact(o.todo, issued)
    BY <1>3, <1>9, <1>11, <1>17 DEF RecordOK
  <2>2. StopsIn(<<>>, 1, o.todo)
    BY <2>1, IntactCells, EmptyStops
  <2> QED
    BY <1>3, <2>1, <2>2 DEF FileIntact
<1>18. ~ Quiet'
  BY <1>6, <1>10 DEF Quiet
<1> QED
  BY <1>8, <1>14, <1>15, <1>16, <1>17, <1>18 DEF FilesInv

\* Who is at rest has done nothing.
LEMMA FilesInitInv ==
    ASSUME FilesInit
    PROVE  FilesInv
<1>1. PICK old, content, format : old = config.initial.file /\ content = config.initial.store /\ format = config.format
  OBVIOUS
<1>2. /\ config \in Configs /\ primary = "absent" /\ file = old /\ tickets = 0 /\ changes = 0 /\ store = content
      /\ troubles = {} /\ issued = (IF format = "ccache" /\ content # Nil THEN content.entries ELSE {})
      /\ process = [p \in Processes |->
            [pc |-> "idle", op |-> Nil, client |-> config.client[p], sessions |-> {},
             after |-> Nil, todo |-> <<>>, at |-> 0, seen |-> 0]]
  BY <1>1 DEF FilesInit
<1>3. \/ format = "ccache" /\ old = Nil /\ content = Nil
      \/ format = "keytab" /\ old = Nil /\ content = <<>>
      \/ /\ format = "ccache" /\ old \in Seq(Cell) /\ parse(old).ok
         /\ old = to_bytes(parse(old).value) /\ OneSetting(parse(old).value)
         /\ content = CacheContent(parse(old).value)
      \/ /\ format = "keytab" /\ old \in Seq(Cell) /\ keytab_parse(old).ok
         /\ content \in Seq([kvno : Int, timestamp : Int, etype : Int, key : Int])
         /\ {content[i] : i \in DOMAIN content} = KeytabContent(keytab_parse(old).value)
  BY <1>1, <1>2, ConfigAssumption
<1>4. ASSUME format = "ccache", old # Nil
      PROVE  /\ Represents(old, content) /\ Intact(old, content.entries) /\ content # Nil
             /\ content.entries \subseteq CredentialRecords
  <2>1. /\ old \in Seq(Cell) /\ parse(old).ok
        /\ old = to_bytes(parse(old).value) /\ OneSetting(parse(old).value)
        /\ content = CacheContent(parse(old).value)
    BY <1>3, <1>4
  <2>2. PICK cache : cache = parse(old).value
    OBVIOUS
  <2>3. cache \in NormalCaches
    BY <2>1, <2>2, ParseTyped
  <2>4. Represents(old, content)
    BY <2>1, <2>2, <2>3 DEF Represents
  <2>5. content \in Stores
    BY <2>4, RepresentsRead
  <2>6. content.entries = TicketsIn(cache)
    <3>1. content = [version |-> cache.version, default |-> cache.default,
                     entries |-> TicketsIn(cache), conf |-> SettingsIn(cache)]
      BY <2>1, <2>2, ContentIs
    <3> QED
      BY <3>1
  <2>7. AllKnown(cache, content.entries)
    <3>1. ASSUME NEW i \in DOMAIN cache.credentials
          PROVE  Known(cache.version, cache.credentials[i], content.entries)
      <4>1. PICK c, v : c = cache.credentials[i] /\ v = cache.version
        OBVIOUS
      <4>2. c \in StoredCredentials(v) /\ v \in 1 .. 4
        BY <2>3, <4>1, NormalTypes
      <4>3. StoredCredential(v, c) = c
        BY ONLY <4>2, StoredIsSame
      <4>4. ~ is_config_credential(c) => c \in content.entries
        BY <2>6, <4>1 DEF TicketsIn, FoundIn
      <4> QED
        BY <4>1, <4>3, <4>4 DEF Known
    <3> QED
      BY <3>1 DEF AllKnown
  <2>8. Intact(old, content.entries)
    BY <2>1, <2>2, <2>3, <2>7 DEF Intact
  <2> QED
    BY <2>4, <2>5, <2>8, NilAssumption DEF Stores
<1>5. issued \subseteq CredentialRecords
  <2>1. CASE format = "ccache" /\ old = Nil
    <3>1. content = Nil
      BY <1>3, <2>1, NilAssumption
    <3> QED
      BY <1>2, <3>1
  <2>2. CASE format = "ccache" /\ old # Nil
    <3>1. content # Nil /\ content.entries \subseteq CredentialRecords
      BY <1>4, <2>2
    <3> QED
      BY <1>2, <2>2, <3>1
  <2>3. CASE format # "ccache"
    BY <1>2, <2>3
  <2> QED
    BY <2>1, <2>2, <2>3
<1>6. FilesTyped
  <2>1. old \in Seq(Cell) \cup {Nil}
    BY <1>3
  <2> QED
    BY <1>2, <1>5, <2>1 DEF FilesTyped
<1>7. ASSUME NEW p \in Processes
      PROVE  /\ process[p].pc = "idle" /\ ~ Busy(process[p])
             /\ RecordOK(process[p], config.format, changes, troubles, issued)
  <2>1. PICK r : r = process[p]
    OBVIOUS
  <2>2. r = [pc |-> "idle", op |-> Nil, client |-> config.client[p], sessions |-> {},
             after |-> Nil, todo |-> <<>>, at |-> 0, seen |-> 0]
    BY <1>2, <2>1
  <2>3. /\ r.pc = "idle" /\ r.todo = <<>> /\ r.at = 0 /\ r.seen = 0 /\ r.client = config.client[p]
        /\ r.sessions = {} /\ r.op = Nil /\ r.after = Nil
    BY <2>2
  <2>4. ProcessTyped(r)
    <3>1. <<>> \in Seq(Cell) /\ 0 \in Nat /\ 0 \in Int /\ "idle" \in Pcs
      BY DEF Pcs
    <3> QED
      BY <2>2, <2>3, <3>1 DEF ProcessTyped
  <2>5. ~ Busy(r)
    BY <2>3 DEF Busy
  <2>6. config.format = "ccache" => ClientOK(r, issued)
    <3>1. config.format = "ccache" => config.client[p] \in Principals
      BY <1>2, ClientAssumption
    <3>2. GoodSessions({}, config.client[p])
      BY FS_EmptySet DEF GoodSessions
    <3>3. {to_ccache_credential(s) : s \in {}} \subseteq issued
      OBVIOUS
    <3> QED
      BY <2>3, <3>1, <3>2, <3>3 DEF ClientOK
  <2>7. r.seen <= changes
    BY <1>2, <2>3
  <2>8. RecordOK(r, config.format, changes, troubles, issued)
    BY <2>4, <2>5, <2>6, <2>7, QuietRecord
  <2> QED
    BY <2>1, <2>3, <2>5, <2>8
<1>8. \A p \in Processes : WriterOK(process[p], file, changes, troubles)
  BY <1>7 DEF WriterOK
<1>9. OthersOK
  BY <1>7 DEF OthersOK
<1>10. config.format = "ccache" /\ file # Nil => FileIntact(file, issued)
  <2>1. ASSUME format = "ccache", old # Nil PROVE FileIntact(old, issued)
    BY <1>2, <1>4, <2>1 DEF FileIntact
  <2> QED
    BY <1>1, <1>2, <2>1
<1>11. Latest(config.format, file, store)
  <2>1. CASE old = Nil
    <3>1. old \notin Seq(Cell)
      BY <2>1, NilAssumption
    <3> QED
      BY <1>1, <1>2, <1>3, <2>1, <3>1 DEF Latest
  <2>2. CASE old # Nil /\ format = "ccache"
    BY <1>1, <1>2, <1>4, <2>2 DEF Latest, Holds
  <2>3. CASE old # Nil /\ format # "ccache"
    <3>1. HoldsKeys(old, content)
      BY <1>3, <2>3 DEF HoldsKeys, KeyRecords
    <3> QED
      BY <1>1, <1>2, <2>3, <3>1 DEF Latest, Holds
  <2> QED
    BY <2>1, <2>2, <2>3
<1> QED
  BY <1>6, <1>7, <1>8, <1>9, <1>10, <1>11 DEF FilesInv

\* Every step keeps the invariant.
LEMMA FilesNextInv ==
    ASSUME FilesInv, [FilesNext]_fileVars
    PROVE  FilesInv'
<1>1. CASE UNCHANGED fileVars
  <2>1. /\ config' = config /\ primary' = primary /\ file' = file /\ process' = process /\ tickets' = tickets
        /\ changes' = changes /\ store' = store /\ troubles' = troubles /\ issued' = issued
    BY <1>1 DEF fileVars
  <2>2. FilesTyped' /\ OthersOK' /\ (Quiet' = Quiet)
    BY <2>1 DEF FilesInv, FilesTyped, OthersOK, Quiet
  <2> QED
    BY <2>1, <2>2 DEF FilesInv
<1>2. CASE FilesNext
  <2>1. PICK p \in Processes :
        \/ \E offer \in Offers : Obtain(p, offer)
        \/ FindNoPrimary(p) \/ CreatePrimary(p) \/ WritePrimary(p)
        \/ save_ccache(p) \/ update_ccache_file(p) \/ SetConfig(p) \/ from_ccache_name(p)
        \/ \E stamp \in Stamps, kvno \in Kvnos : AddKey(p, stamp, kvno)
        \/ Open(p)
        \/ \E n \in Cuts : WriteSome(p, n)
        \/ WriteRest(p)
        \/ \E inside \in BOOLEAN : Damage(p, inside)
    BY <1>2 DEF FilesNext
  <2>2. CASE \E offer \in Offers : Obtain(p, offer)
    BY <2>2, ObtainKeeps
  <2>3. CASE FindNoPrimary(p)
    <3>1. primary' \in {"absent", "", "tkt\n"}
      BY <2>3 DEF FindNoPrimary, FilesInv, FilesTyped
    <3> QED
      BY <2>3, <3>1, GotoKeeps DEF FindNoPrimary
  <2>4. CASE CreatePrimary(p)
    BY <2>4, GotoKeeps DEF CreatePrimary
  <2>5. CASE WritePrimary(p)
    BY <2>5, GotoKeeps DEF WritePrimary
  <2>6. CASE save_ccache(p)
    BY <2>6, SaveKeeps
  <2>7. CASE update_ccache_file(p)
    BY <2>7, UpdateKeeps
  <2>8. CASE SetConfig(p)
    BY <2>8, ConfigKeeps
  <2>9. CASE from_ccache_name(p)
    BY <2>9, ReloadKeeps
  <2>10. CASE \E stamp \in Stamps, kvno \in Kvnos : AddKey(p, stamp, kvno)
    BY <2>10, AddKeyKeeps
  <2>11. CASE Open(p)
    BY <2>11, OpenKeeps
  <2>12. CASE \E n \in Cuts : WriteSome(p, n)
    BY <2>12, WriteSomeKeeps
  <2>13. CASE WriteRest(p)
    BY <2>13, WriteRestKeeps
  <2>14. CASE \E inside \in BOOLEAN : Damage(p, inside)
    BY <2>14, DamageKeeps
  <2> QED
    BY <2>1, <2>2, <2>3, <2>4, <2>5, <2>6, <2>7, <2>8, <2>9, <2>10, <2>11, <2>12, <2>13, <2>14
<1> QED
  BY <1>1, <1>2

\* FilesInv holds in every state, for any processes, names, files, keys and
\* tickets.
THEOREM FilesInvariance == FilesSpec => []FilesInv
  BY FilesInitInv, FilesNextInv, PTL DEF FilesSpec

\* The type invariant of CredentialFiles.
THEOREM FilesTyping == FilesSpec => []FilesTypeOK
<1>1. FilesInv => FilesTypeOK
  BY DEF FilesInv, FilesTyped, RecordOK, ProcessTyped, Pcs, FilesTypeOK
<1> QED
  BY <1>1, FilesInvariance, PTL

\* Saves, updates and settings that do not overlap lose nothing, for caches of
\* every version and content.
THEOREM UpdatesLoseNothing == FilesSpec => []FileIsLatest
<1>1. ASSUME FilesInv PROVE FileIsLatest
  <2>1. SUFFICES ASSUME config.format = "ccache", troubles = {}, Quiet
                 PROVE  IF store = Nil THEN file = Nil
                        ELSE LET cache == parse(file)
                             IN  /\ file # Nil /\ cache.ok
                                 /\ CacheContent(cache.value) = store
                                 /\ \A x \in store.conf :
                                        {y \in store.conf : Tail(y.server.names) = <<ConfigKey>>} = {x} =>
                                        config_entry_value(cache.value, ConfigKey, <<>>, Nil) = x.ticket
    BY DEF FileIsLatest
  <2>2. Latest("ccache", file, store)
    BY <1>1, <2>1 DEF FilesInv
  <2>3. CASE file = Nil
    <3>1. store = Nil
      BY <2>2, <2>3 DEF Latest
    <3> QED
      BY <2>3, <3>1
  <2>4. CASE file # Nil
    <3>1. Represents(file, store)
      BY <2>2, <2>4 DEF Latest, Holds
    <3>2. store # Nil
      BY <3>1, RepresentsRead, NilAssumption
    <3> QED
      BY <2>4, <3>1, <3>2, RepresentsRead
  <2> QED
    BY <2>3, <2>4
<1> QED
  BY <1>1, FilesInvariance, PTL

\* A cache that was cut off anywhere is refused or read as a prefix of what was
\* written.
THEOREM DamageIsSeen == FilesSpec => []DamageIsNoticed
<1>1. ASSUME FilesInv PROVE DamageIsNoticed
  <2>1. SUFFICES ASSUME config.format = "ccache", file # Nil, "overlap" \notin troubles, parse(file).ok
                 PROVE  /\ to_bytes(parse(file).value) = file
                        /\ \A i \in DOMAIN parse(file).value.credentials :
                             LET c == parse(file).value.credentials[i]
                             IN  is_config_credential(c) \/
                                 c \in {StoredCredential(parse(file).value.version, x) : x \in issued}
    BY DEF DamageIsNoticed
  <2>2. AllKnown(parse(file).value, issued) /\ to_bytes(parse(file).value) = file
    BY <1>1, <2>1, FileRead
  <2> QED
    BY <2>2 DEF AllKnown, Known
<1> QED
  BY <1>1, FilesInvariance, PTL

\* Every key that was added to a keytab one after another is found, by version
\* and as the newest.
THEOREM KeysAreFound == FilesSpec => []KeysFound
<1>1. ASSUME FilesInv PROVE KeysFound
  <2>1. SUFFICES ASSUME config.format = "keytab", troubles = {}, Quiet, file # Nil
                 PROVE  /\ keytab_parse(file).ok
                        /\ \A kvno : KeyFound(find_key(keytab_parse(file).value.entries, KeytabName.principal,
                                                       KeytabName.realm, kvno, 18), store, kvno)
    BY DEF KeysFound, KeyFound
  <2>2. HoldsKeys(file, store)
    BY <1>1, <2>1 DEF FilesInv, Latest, Holds
  <2>3. file \in Seq(Cell) /\ keytab_parse(file).ok /\ store \in Seq(KeyRecords)
        /\ {store[i] : i \in DOMAIN store} = KeytabContent(keytab_parse(file).value)
    BY <2>2 DEF HoldsKeys
  <2>4. keytab_parse(file).value \in Keytabs
    BY <2>3, KeytabTyped
  <2> QED
    BY <2>3, <2>4, LookupFinds
<1> QED
  BY <1>1, FilesInvariance, PTL

\* There is one session for a key.
LEMMA OneSession ==
    ASSUME NEW sessions, NEW client, GoodSessions(sessions, client), NEW s, NEW x \in sessions,
           SessionKey(x) = SessionKey(s)
    PROVE  Cardinality({y \in sessions : SessionKey(y) = SessionKey(s)}) = 1
<1>1. {y \in sessions : SessionKey(y) = SessionKey(s)} = {x}
  BY DEF GoodSessions
<1> QED
  BY <1>1, FS_Singleton

\* A client made from a file has the best of the sessions that were saved
\* there, one for each key.
THEOREM ReloadsAreSaved == FilesSpec => ReloadedIsSaved
<1>1. ASSUME FilesInv, NEW p \in Processes, troubles = {}, Quiet, store # Nil, from_ccache_name(p)
      PROVE  Reloads(p)
  <2>1. config.format = "ccache" /\ process[p].pc = "idle"
    BY <1>1 DEF from_ccache_name, Resolved
  <2>2. Latest("ccache", file, store)
    BY <1>1, <2>1 DEF FilesInv
  <2>3. file # Nil
    BY <1>1, <2>2 DEF Latest
  <2>4. Represents(file, store)
    BY <2>2, <2>3 DEF Latest, Holds
  <2>5. PICK cache : cache = parse(file).value
    OBVIOUS
  <2>6. cache \in NormalCaches /\ CacheContent(cache) = store /\ parse(file).ok
    BY <2>4, <2>5, RepresentsCache, RepresentsRead
  <2>7. store = [version |-> cache.version, default |-> cache.default,
                 entries |-> TicketsIn(cache), conf |-> SettingsIn(cache)]
    BY <2>6, ContentIs
  <2>8. store.default = cache.default /\ store.entries = TicketsIn(cache)
    BY <2>7
  <2>9. PICK own, sessions :
          /\ own = {ccache_credential_session(c) :
                      c \in {x \in store.entries : same_principal_identity(x.client, store.default)}}
          /\ sessions = from_ccache(cache)
    OBVIOUS
  <2>10. own = {ccache_credential_session(c) :
                  c \in {x \in TicketsIn(cache) : same_principal_identity(x.client, cache.default)}}
    BY <2>8, <2>9
  <2>11. /\ GoodSessions(sessions, cache.default) /\ sessions \subseteq own
         /\ \A s \in own : \E x \in sessions : SessionKey(x) = SessionKey(s) /\ Better(x, s)
    BY <2>6, <2>9, <2>10, ReloadFacts
  <2>12. process'[p].client = cache.default /\ process'[p].sessions = sessions
    <3>1. process' = [process EXCEPT ![p] = [Resting(p) EXCEPT !.client = cache.default, !.sessions = sessions]]
      BY <1>1, <2>3, <2>5, <2>6, <2>9 DEF from_ccache_name
    <3>2. p \in DOMAIN process
      BY <1>1 DEF FilesInv, FilesTyped
    <3>3. process'[p] = [Resting(p) EXCEPT !.client = cache.default, !.sessions = sessions]
      BY <3>1, <3>2
    <3> QED
      BY <3>3 DEF Resting
  <2>13. ASSUME NEW s \in own PROVE Cardinality({x \in sessions : SessionKey(x) = SessionKey(s)}) = 1
    BY <2>11, OneSession
  <2>14. ASSUME NEW s \in own, NEW x \in sessions, SessionKey(x) = SessionKey(s)
         PROVE  Better(x, s)
    <3>1. PICK y \in sessions : SessionKey(y) = SessionKey(s) /\ Better(y, s)
      BY <2>11
    <3>2. y = x
      BY <2>11, <2>14, <3>1 DEF GoodSessions
    <3> QED
      BY <3>1, <3>2
  <2> QED
    BY <2>8, <2>9, <2>11, <2>12, <2>13, <2>14 DEF Reloads, Better
<1>2. ASSUME FilesInv PROVE [\A p \in Processes :
            troubles = {} /\ Quiet /\ store # Nil /\ from_ccache_name(p) => Reloads(p)]_fileVars
  BY <1>1, <1>2
<1> QED
  BY <1>2, FilesInvariance, PTL DEF ReloadedIsSaved

=============================================================================
