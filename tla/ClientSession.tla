---------------------------- MODULE ClientSession ----------------------------
(***************************************************************************)
(* TokioClient's session state (src/client.rs): live credentials, the       *)
(* primary TGT, the TGTs by realm and the cached service tickets, together  *)
(* with the background task started by spawn_auto_renewal.                  *)
(*                                                                          *)
(* Every method takes &mut self and the task takes the client's mutex, so   *)
(* one call is in progress at a time; a call is cut at its awaits, each a   *)
(* KDC exchange that may succeed, fail, or be dropped with its future.      *)
(* Sessions read before an await are carried in `call` and used after it.   *)
(*                                                                          *)
(* A session is [auth, start, end, renew]; keys and names play no part.     *)
(* The KDC is external: it issues, renews and refuses.                      *)
(***************************************************************************)
EXTENDS Integers, FiniteSets

CONSTANTS Realms, Home,     \* realms, the client's realm
          Services,         \* service principals
          RealmOf,          \* realm of each service
          NoSession,        \* None
          S4U, NoGoal,      \* what a call needs the TGT for, besides Services
          Life,             \* lifetime the KDC gives
          RenewLife,        \* renewable lifetime the KDC gives, 0 for none
          KdcAhead,         \* how far the KDC's clock may be ahead
          RetryDelay,       \* retry_delay of the renewal task
          MaxExchange,      \* ticks counted per exchange: the longest one of
                            \* PromptSpec; 0 where durations do not matter
          OtherLogins,      \* logins of other processes whose sessions this
                            \* client may be handed: <<when, renewable>>
          Instants          \* readings of the clock that are told apart

ASSUME RealmAssumption ==
    /\ Home \in Realms
    /\ RealmOf \in [Services -> Realms]
    /\ S4U \notin Services /\ NoGoal \notin Services /\ S4U # NoGoal

ASSUME LifeAssumption ==
    /\ Life \in Nat \ {0} /\ RenewLife \in Nat /\ KdcAhead \in Nat
    /\ RetryDelay \in Nat \ {0} /\ MaxExchange \in Nat
    /\ Instants \subseteq Nat /\ OtherLogins \subseteq Nat \X BOOLEAN

\* A KDC that makes tickets renewable does so for longer than they last.
ASSUME RenewAssumption == RenewLife = 0 \/ RenewLife >= Life

VARIABLES now,              \* SystemTime::now
          creds,            \* credentials.is_some()
          tgt,              \* the primary TGT
          tgt_sessions,     \* TGT per realm
          service_tickets,  \* ticket per service
          call,             \* method in progress, cut at an await
          task              \* the renewal task, [phase, wake]

caches == <<tgt, tgt_sessions, service_tickets>>
vars == <<now, creds, tgt, tgt_sessions, service_tickets, call, task>>

NoRenew == -1
Session == [auth : Nat, start : Nat, end : Nat, renew : Nat \cup {NoRenew}]

ASSUME SessionAssumption == NoSession \notin Session

-----------------------------------------------------------------------------
(* Time checks on sessions.                                                 *)

SESSION_REFRESH_DIVISOR == 6

session_valid_at(s, t) == s.start <= t /\ t < s.end

session_renewable_at(s, t) == s.renew # NoRenew /\ t < s.renew

session_usable_at(s, t) == session_valid_at(s, t) \/ session_renewable_at(s, t)

\* remaining <= lifetime / SESSION_REFRESH_DIVISOR, without rounding.
session_refresh_due_at(s, t) ==
    \/ t >= s.end
    \/ s.end <= s.auth
    \/ SESSION_REFRESH_DIVISOR * (s.end - t) <= s.end - s.auth

\* A bug: the task sleeps until the session ends.
RefreshAtEnd(s) == s.end

\* The first instant of the clock at which the session is due: the delay of
\* session_refresh_delay_at ends there.
RefreshAt(s) == s.end - ((s.end - s.auth) \div SESSION_REFRESH_DIVISOR)

\* A bug: any valid candidate replaces the current session.
prefer_current_sessionNever(current, candidate, t) ==
    session_valid_at(current, t) /\ ~ session_valid_at(candidate, t)

prefer_current_session_at(current, candidate, t) ==
    IF session_valid_at(current, t) = session_valid_at(candidate, t)
    THEN current.end >= candidate.end
    ELSE session_valid_at(current, t)

preferred_session_at(current, candidate, t) ==
    IF current # NoSession /\ prefer_current_session_at(current, candidate, t)
    THEN current
    ELSE candidate

Have(s) == s # NoSession
Valid(s) == Have(s) /\ session_valid_at(s, now)
Renewable(s) == Have(s) /\ session_renewable_at(s, now)
Due(s) == Have(s) => session_refresh_due_at(s, now)

-----------------------------------------------------------------------------
(* The KDC (external).                                                      *)

KdcMin(a, b) == IF a <= b THEN a ELSE b

\* An initial ticket issued when the KDC's clock shows t.
AsTicket(t) == [auth |-> t, start |-> t, end |-> t + Life,
                renew |-> IF RenewLife = 0 THEN NoRenew ELSE t + RenewLife]

\* A ticket derived from a TGT, within its lifetime.
TgsTicket(s, t) == [s EXCEPT !.start = t, !.end = KdcMin(t + Life, s.end)]

\* A renewed ticket: it keeps its authentication time and renewal limit.
RenewedTicket(s, t) == [s EXCEPT !.start = t, !.end = KdcMin(t + Life, s.renew)]

\* The KDC's clock while the exchange completes.
KdcTimes == now .. now + KdcAhead

\* The KDC honours a TGT that has not ended, and renews within the limit.
KdcHonours(s, t) == s.start <= t /\ t < s.end
KdcRenews(s, t) == KdcHonours(s, t) /\ s.renew # NoRenew /\ t < s.renew

-----------------------------------------------------------------------------
(* Calls.                                                                   *)

Idle == [by |-> "none", method |-> "none", kind |-> "idle", realm |-> Home,
         goal |-> NoGoal, session |-> NoSession, waited |-> 0]

\* The call reaches an await: a KDC exchange of the given kind.
Await(by, method, kind, realm, goal, session) ==
    /\ call' = [by |-> by, method |-> method, kind |-> kind, realm |-> realm,
                goal |-> goal, session |-> session, waited |-> 0]
    /\ task' = IF by = "task" THEN [phase |-> "refreshing", wake |-> 0] ELSE task

\* The call returns; the renewal task plans again or backs off.
Return(by, outcome) ==
    /\ call' = Idle
    /\ task' = IF by # "task" THEN task
               ELSE IF outcome = "ok" THEN [phase |-> "plan", wake |-> 0]
               ELSE [phase |-> "retry", wake |-> now + RetryDelay]

\* A TGT has been obtained: go on to what the call wants it for.
WithTgt(by, method, goal, session) ==
    \/ /\ goal = NoGoal
       /\ Return(by, "ok")
    \/ /\ goal = S4U
       /\ Await(by, method, "s4u", Home, goal, session)
    \/ /\ goal \in Services
       /\ Await(by, method, "tgs", Home, goal, session)

\* A bug: login goes to the KDC without credentials.
login_nextUnchecked == IF Valid(tgt) /\ ~ creds THEN "have" ELSE "login"

\* What login does, without and with live credentials.
login_next ==
    IF creds THEN "login"
    ELSE IF Valid(tgt) THEN "have"
    ELSE IF Renewable(tgt) THEN "renew"
    ELSE "error"

affirm_login_next ==
    IF Valid(tgt) THEN "have"
    ELSE IF Renewable(tgt) THEN "renew"
    ELSE login_next

\* Bugs: without credentials any TGT will do; the window is not looked at.
ensure_tgt_nextLapsed ==
    IF Valid(tgt) /\ ~ Due(tgt) THEN "have"
    ELSE IF Renewable(tgt) THEN "renew"
    ELSE IF Have(tgt) /\ ~ creds THEN "have"
    ELSE IF ~ creds THEN "error"
    ELSE "login"
ensure_tgt_nextNoWindow ==
    IF Valid(tgt) THEN "have"
    ELSE IF Renewable(tgt) THEN "renew"
    ELSE IF ~ creds THEN "error"
    ELSE "login"

ensure_tgt_next ==
    IF Valid(tgt) /\ ~ Due(tgt) THEN "have"
    ELSE IF Renewable(tgt) THEN "renew"
    ELSE IF Valid(tgt) /\ ~ creds THEN "have"
    ELSE IF ~ creds THEN "error"
    ELSE "login"

\* Carry out one of these decisions.
Proceed(by, method, goal, next) ==
    \/ next = "have" /\ WithTgt(by, method, goal, tgt)
    \/ next = "renew" /\ Await(by, method, "renew", Home, goal, tgt)
    \/ next = "login" /\ Await(by, method, "login", Home, goal, NoSession)
    \/ next = "error" /\ Return(by, "error")

\* The TGT get_service_ticket uses for service s: a valid one of its realm,
\* a renewed one of its foreign realm, or the primary TGT.
TgtFor(by, method, s) ==
    LET cached == tgt_sessions[RealmOf[s]] IN
    \/ /\ Valid(cached)
       /\ Await(by, method, "tgs", RealmOf[s], s, cached)
    \/ /\ ~ Valid(cached) /\ RealmOf[s] # Home /\ Renewable(cached)
       /\ Await(by, method, "renewCached", RealmOf[s], s, cached)
    \/ /\ ~ Valid(cached) /\ ~ (RealmOf[s] # Home /\ Renewable(cached))
       /\ Proceed(by, method, s, ensure_tgt_next)

\* The application may call when no call holds the client.
Free == call = Idle

affirm_login ==
    /\ Free
    /\ Proceed("app", "affirm_login", NoGoal, affirm_login_next)
    /\ UNCHANGED <<now, creds, caches>>

login ==
    /\ Free
    /\ Proceed("app", "login", NoGoal, login_next)
    /\ UNCHANGED <<now, creds, caches>>

refresh_tgt_if_needed ==
    /\ Free
    /\ Proceed("app", "refresh_tgt_if_needed", NoGoal, ensure_tgt_next)
    /\ UNCHANGED <<now, creds, caches>>

\* s4u2self and s4u2proxy: the result is not cached.
s4u ==
    /\ Free
    /\ Proceed("app", "s4u", S4U, ensure_tgt_next)
    /\ UNCHANGED <<now, creds, caches>>

\* renew_tgt when realm is the client's.
renew_tgt_session_for_realm(realm) ==
    LET s == IF realm = Home /\ Have(tgt) THEN tgt ELSE tgt_sessions[realm] IN
    /\ Free
    /\ \/ Have(s) /\ Await("app", "renew_tgt", "renew", realm, NoGoal, s)
       \/ ~ Have(s) /\ Return("app", "error")
    /\ UNCHANGED <<now, creds, caches>>

get_service_ticket(s) ==
    LET cached == service_tickets[s] IN
    /\ Free
    /\ \/ /\ Valid(cached)
          /\ Return("app", "ok")
       \/ /\ ~ Valid(cached) /\ Renewable(cached)
          /\ Await("app", "get_service_ticket", "renewTicket", RealmOf[s], s, cached)
       \/ /\ ~ Valid(cached) /\ ~ Renewable(cached)
          /\ TgtFor("app", "get_service_ticket", s)
    /\ UNCHANGED <<now, creds, caches>>

-----------------------------------------------------------------------------
(* Exchanges complete.                                                      *)

\* cache_tgt_session_at on realm map T and primary P.
cache_tgt_session_at(T, P, realm, s) ==
    LET selected == preferred_session_at(T[realm], s, now)
        primary  == preferred_session_at(P, selected, now)
    IN  IF realm = Home
        THEN [tgt |-> primary, sessions |-> [T EXCEPT ![Home] = primary]]
        ELSE [tgt |-> P, sessions |-> [T EXCEPT ![realm] = selected]]

NoTgts == [r \in Realms |-> NoSession]
NoTickets == [s \in Services |-> NoSession]

\* login: the realm map is emptied before the new TGT competes with the old
\* primary TGT, and the call goes on with the winner.
LoginReply(t) ==
    LET cached == cache_tgt_session_at(NoTgts, tgt, Home, AsTicket(t)) IN
    /\ call.kind = "login"
    /\ tgt' = cached.tgt
    /\ tgt_sessions' = cached.sessions
    /\ service_tickets' = NoTickets
    /\ WithTgt(call.by, call.method, call.goal, cached.tgt)

\* A bug: the renewed TGT only reaches the realm map.
RenewReplyMapOnly(t) ==
    LET renewed == RenewedTicket(call.session, t) IN
    /\ call.kind = "renew"
    /\ KdcRenews(call.session, t)
    /\ tgt_sessions' = [tgt_sessions EXCEPT ![call.realm] = renewed]
    /\ UNCHANGED <<tgt, service_tickets>>
    /\ WithTgt(call.by, call.method, call.goal, renewed)

\* renew_tgt_session_for_realm: the renewed TGT replaces the old one.
RenewReply(t) ==
    LET renewed == RenewedTicket(call.session, t) IN
    /\ call.kind = "renew"
    /\ KdcRenews(call.session, t)
    /\ tgt_sessions' = [tgt_sessions EXCEPT ![call.realm] = renewed]
    /\ \/ /\ call.realm = Home
          /\ tgt' = renewed
          /\ service_tickets' = NoTickets
       \/ /\ call.realm # Home
          /\ UNCHANGED <<tgt, service_tickets>>
    /\ WithTgt(call.by, call.method, call.goal, renewed)

\* renew_cached_tgt_session_for_realm, for a foreign realm.
RenewCachedReply(t) ==
    LET renewed == RenewedTicket(call.session, t) IN
    /\ call.kind = "renewCached"
    /\ KdcRenews(call.session, t)
    /\ tgt_sessions' = [tgt_sessions EXCEPT ![call.realm] = renewed]
    /\ Await(call.by, call.method, "tgs", call.realm, call.goal, renewed)
    /\ UNCHANGED <<tgt, service_tickets>>

\* cache_service_ticket.
CacheTicket(s, ticket) ==
    service_tickets' = [service_tickets EXCEPT ![s] =
                           preferred_session_at(service_tickets[s], ticket, now)]

\* The renewal of a cached service ticket in get_service_ticket.
RenewTicketReply(t) ==
    /\ call.kind = "renewTicket"
    /\ KdcRenews(call.session, t)
    /\ CacheTicket(call.goal, RenewedTicket(call.session, t))
    /\ Return(call.by, "ok")
    /\ UNCHANGED <<tgt, tgt_sessions>>

\* The referral trace of get_service_ticket, with the service realm's TGT or
\* through a referral TGT that is cached before the ticket.
TgsReply(t) ==
    LET realm    == RealmOf[call.goal]
        referral == TgsTicket(call.session, t)
        cached   == cache_tgt_session_at(tgt_sessions, tgt, realm, referral)
    IN  /\ call.kind = "tgs"
        /\ KdcHonours(call.session, t)
        /\ \/ call.realm = realm /\ UNCHANGED <<tgt, tgt_sessions>>
           \/ call.realm # realm /\ tgt' = cached.tgt /\ tgt_sessions' = cached.sessions
        /\ CacheTicket(call.goal, TgsTicket(call.session, t))
        /\ Return(call.by, "ok")

S4UReply(t) ==
    /\ call.kind = "s4u"
    /\ KdcHonours(call.session, t)
    /\ Return(call.by, "ok")
    /\ UNCHANGED caches

KdcReply ==
    /\ \E t \in KdcTimes :
          \/ LoginReply(t) \/ RenewReply(t) \/ RenewCachedReply(t)
          \/ RenewTicketReply(t) \/ TgsReply(t) \/ S4UReply(t)
    /\ UNCHANGED <<now, creds>>

\* A bug: after a failed renewal the TGT is looked for from the start.
KdcFailureRetries ==
    /\ \/ /\ call.kind \in {"login", "renew", "tgs", "s4u"}
          /\ Return(call.by, "error")
       \/ /\ call.kind \in {"renewTicket", "renewCached"}
          /\ TgtFor(call.by, call.method, call.goal)
    /\ UNCHANGED <<now, creds, caches>>

\* An exchange fails: the KDC refuses, cannot be reached or times out, or the
\* reply is rejected.  The renewals inside get_service_ticket are optional,
\* everything else is the caller's error.
KdcFailure ==
    /\ \/ /\ call.kind \in {"login", "renew", "tgs", "s4u"}
          /\ Return(call.by, "error")
       \/ /\ call.kind = "renewTicket"
          /\ TgtFor(call.by, call.method, call.goal)
       \/ /\ call.kind = "renewCached"
          /\ Proceed(call.by, call.method, call.goal, ensure_tgt_next)
    /\ UNCHANGED <<now, creds, caches>>

\* The application drops the future of its call.
CancelCall ==
    /\ call.by = "app"
    /\ call' = Idle
    /\ UNCHANGED <<now, creds, caches, task>>

-----------------------------------------------------------------------------
(* Methods that do not wait.                                                *)

\* cache_tgt_session, and from_ccache entry by entry.
cache_tgt_session(realm, s) ==
    LET cached == cache_tgt_session_at(tgt_sessions, tgt, realm, s) IN
    /\ Free
    /\ tgt' = cached.tgt
    /\ tgt_sessions' = cached.sessions
    /\ UNCHANGED <<now, creds, service_tickets, call, task>>

cache_service_ticket(svc, s) ==
    /\ Free
    /\ CacheTicket(svc, s)
    /\ UNCHANGED <<now, creds, tgt, tgt_sessions, call, task>>

remove_tgt_session_for_realm(realm) ==
    /\ Free
    /\ tgt_sessions' = [tgt_sessions EXCEPT ![realm] = NoSession]
    /\ tgt' = IF realm = Home THEN NoSession ELSE tgt
    /\ UNCHANGED <<now, creds, service_tickets, call, task>>

remove_cached_service_ticket(svc) ==
    /\ Free
    /\ service_tickets' = [service_tickets EXCEPT ![svc] = NoSession]
    /\ UNCHANGED <<now, creds, tgt, tgt_sessions, call, task>>

clear_service_ticket_cache ==
    /\ Free
    /\ service_tickets' = NoTickets
    /\ UNCHANGED <<now, creds, tgt, tgt_sessions, call, task>>

\* A session prune_unusable_sessions_at keeps.
Kept(s) == IF Have(s) /\ session_usable_at(s, now) THEN s ELSE NoSession

prune_unusable_sessions ==
    /\ Free
    /\ tgt' = Kept(tgt)
    /\ tgt_sessions' = [r \in Realms |-> Kept(tgt_sessions[r])]
    /\ service_tickets' = [s \in Services |-> Kept(service_tickets[s])]
    /\ UNCHANGED <<now, creds, call, task>>

destroy ==
    /\ Free
    /\ creds' = FALSE
    /\ tgt' = NoSession
    /\ tgt_sessions' = NoTgts
    /\ service_tickets' = NoTickets
    /\ UNCHANGED <<now, call, task>>

-----------------------------------------------------------------------------
(* The renewal task.                                                        *)

spawn_auto_renewal ==
    /\ task.phase = "none"
    /\ task' = [phase |-> "plan", wake |-> 0]
    /\ UNCHANGED <<now, creds, caches, call>>

\* Under the lock, how long to sleep.
TaskPlan ==
    /\ task.phase = "plan" /\ Free
    /\ task' = IF Have(tgt) /\ ~ Due(tgt)
               THEN [phase |-> "sleep", wake |-> RefreshAt(tgt)]
               ELSE [phase |-> "ready", wake |-> 0]
    /\ UNCHANGED <<now, creds, caches, call>>

TaskWake ==
    /\ task.phase \in {"sleep", "retry"} /\ now >= task.wake
    /\ task' = [phase |-> IF task.phase = "sleep" THEN "ready" ELSE "plan",
                wake |-> 0]
    /\ UNCHANGED <<now, creds, caches, call>>

\* A bug: with nothing left to refresh the task continues its loop.
TaskRefreshContinues ==
    /\ task.phase = "ready" /\ Free
    /\ \/ /\ ~ creds /\ ~ Have(tgt)
          /\ task' = [phase |-> "plan", wake |-> 0]
          /\ UNCHANGED call
       \/ /\ creds \/ Have(tgt)
          /\ Proceed("task", "refresh_tgt_if_needed", NoGoal, ensure_tgt_next)
    /\ UNCHANGED <<now, creds, caches>>

\* Under the lock again: stop when there is nothing left to refresh.
TaskRefresh ==
    /\ task.phase = "ready" /\ Free
    /\ \/ /\ ~ creds /\ ~ Have(tgt)
          /\ task' = [phase |-> "done", wake |-> 0]
          /\ UNCHANGED call
       \/ /\ creds \/ Have(tgt)
          /\ Proceed("task", "refresh_tgt_if_needed", NoGoal, ensure_tgt_next)
    /\ UNCHANGED <<now, creds, caches>>

\* The handle is aborted or dropped: the task ends at its await.
abort ==
    /\ task.phase \notin {"none", "done", "aborted"}
    /\ task' = [phase |-> "aborted", wake |-> 0]
    /\ call' = IF call.by = "task" THEN Idle ELSE call
    /\ UNCHANGED <<now, creds, caches>>
-----------------------------------------------------------------------------
\* Nothing is left of the client's state.
Destroyed ==
    /\ ~ creds /\ ~ Have(tgt)
    /\ \A r \in Realms : ~ Have(tgt_sessions[r])
    /\ \A s \in Services : ~ Have(service_tickets[s])

Later == {n \in Instants : n > now}

\* Beyond the last instant the clock only runs for a task that sleeps on.
Tick ==
    /\ \/ now' \in Later /\ \A n \in Later : now' <= n
       \/ /\ Later = {} /\ now' = now + 1
          /\ Destroyed /\ task.phase \in {"sleep", "retry"} /\ now < task.wake
    /\ call' = IF Free \/ call.waited = MaxExchange THEN call
               ELSE [call EXCEPT !.waited = @ + 1]
    /\ UNCHANGED <<creds, caches, task>>

InitWith(credsChoices, phase) ==
    /\ now = 0
    /\ creds \in credsChoices
    /\ tgt = NoSession
    /\ tgt_sessions = NoTgts
    /\ service_tickets = NoTickets
    /\ call = Idle
    /\ task = [phase |-> phase, wake |-> 0]

Init == InitWith(BOOLEAN, "none")

\* Sessions another process obtained from the same KDC, now or before, and
\* this client is handed through a ccache; the other process may not have asked
\* for renewable ones.
OtherSessions ==
    {[AsTicket(l[1]) EXCEPT !.renew = IF l[2] THEN @ ELSE NoRenew] :
        l \in {l \in OtherLogins : l[1] <= now + KdcAhead}}

\* Calls that may wait for the KDC.
AppCall ==
    \/ affirm_login
    \/ login
    \/ refresh_tgt_if_needed
    \/ s4u
    \/ \E r \in Realms : renew_tgt_session_for_realm(r)
    \/ \E s \in Services : get_service_ticket(s)

AppInsert ==
    /\ now \in Instants
    /\ \/ \E r \in Realms, s \in OtherSessions : cache_tgt_session(r, s)
       \/ \E svc \in Services, s \in OtherSessions : cache_service_ticket(svc, s)

AppRemove ==
    \/ \E r \in Realms : remove_tgt_session_for_realm(r)
    \/ \E svc \in Services : remove_cached_service_ticket(svc)
    \/ clear_service_ticket_cache
    \/ destroy

Task == TaskPlan \/ TaskWake \/ TaskRefresh

Next ==
    \/ AppCall
    \/ AppInsert
    \/ AppRemove
    \/ prune_unusable_sessions
    \/ KdcReply
    \/ KdcFailure
    \/ CancelCall
    \/ spawn_auto_renewal
    \/ Task
    \/ abort
    \/ Tick

Spec == Init /\ [][Next]_vars

\* Every exchange ends (each send has a timeout), the task is scheduled and
\* time passes.
FairSpec ==
    /\ Spec
    /\ WF_vars(KdcReply \/ KdcFailure)
    /\ WF_vars(Task)
    /\ WF_vars(Tick)

(* A healthy environment: a client with credentials whose task runs from    *)
(* the start and whenever it can, a KDC that answers within MaxExchange and *)
(* refuses only what it must, and tokio's mutex, which is first come first  *)
(* served and does not let the application overtake a waiting task.         *)

\* No clock reading of the KDC lets it grant the exchange in progress.
MustRefuse ==
    \A t \in KdcTimes :
        \/ call.kind \in {"tgs", "s4u"} /\ ~ KdcHonours(call.session, t)
        \/ call.kind \in {"renew", "renewCached", "renewTicket"}
              /\ ~ KdcRenews(call.session, t)

TaskWaiting ==
    \/ task.phase \in {"plan", "ready"}
    \/ task.phase \in {"sleep", "retry"} /\ now >= task.wake

PromptTick ==
    /\ TaskWaiting => ~ Free /\ task.phase \in {"plan", "ready"}
    /\ ~ Free => call.waited < MaxExchange
    /\ Tick

PromptNext ==
    \/ ~ TaskWaiting /\ AppCall
    \/ ~ TaskWaiting /\ prune_unusable_sessions
    \/ KdcReply
    \/ MustRefuse /\ KdcFailure
    \/ Task
    \/ PromptTick

PromptSpec == InitWith({TRUE}, "plan") /\ [][PromptNext]_vars

-----------------------------------------------------------------------------
(* Properties.                                                              *)

Methods == {"none", "affirm_login", "login", "refresh_tgt_if_needed", "s4u",
            "renew_tgt", "get_service_ticket"}
Kinds == {"idle", "login", "renew", "renewCached", "renewTicket", "tgs", "s4u"}
Phases == {"none", "plan", "sleep", "ready", "refreshing", "retry", "done", "aborted"}

MaybeSession == Session \cup {NoSession}

Goals == Services \cup {S4U, NoGoal}
Calls == [by : {"none", "app", "task"}, method : Methods, kind : Kinds,
          realm : Realms, goal : Goals, session : MaybeSession,
          waited : 0 .. MaxExchange]

TypeOK ==
    /\ now \in Nat
    /\ creds \in BOOLEAN
    /\ tgt \in MaybeSession
    /\ tgt_sessions \in [Realms -> MaybeSession]
    /\ service_tickets \in [Services -> MaybeSession]
    /\ call \in Calls
    /\ task \in [phase : Phases, wake : Int]

\* The primary TGT is the home realm's entry of the realm map, in every state
\* in which another task could look: login, renewals, referrals, removal and
\* pruning all keep the two fields together, also when the call is dropped.
PrimaryMirrored == tgt = tgt_sessions[Home]

\* While it is valid the primary TGT is only replaced by one that lasts at
\* least as long, although renewal overwrites it without comparing.
PrimaryNeverDowngraded ==
    [][Valid(tgt) /\ Have(tgt') => tgt'.end >= tgt.end]_vars

\* A TGT taken for a TGS exchange is the one the client holds for that realm,
\* not one that was superseded while an earlier exchange of the call ran, and it
\* has not lapsed: no path through get_service_ticket or s4u, with or without
\* credentials, presents such a one.  It has started, too, unless the call just
\* had a reply from a KDC whose clock is ahead: login and renewal go on with
\* what they obtained without looking at its start.
ExchangesStartValid ==
    [][call'.kind \in {"tgs", "s4u"} /\ call.kind \notin {"tgs", "s4u"}
          => /\ call'.session = tgt_sessions'[call'.realm]
             /\ now < call'.session.end
             /\ \/ call'.session.start <= now
                \/ /\ call.kind \in {"login", "renew", "renewCached"}
                   /\ call'.session.start <= now + KdcAhead]_vars

\* What a call in progress carries across its await fits the exchange.
CallWellFormed ==
    /\ call.by = "none" <=> call = Idle
    /\ call.kind = "idle" <=> call = Idle
    /\ call.kind \notin {"idle", "login"} => call.session \in Session
    /\ call.kind \in {"renewCached", "renewTicket", "tgs"} => call.goal \in Services
    /\ call.kind = "renewCached" => call.realm # Home

\* The mutex is held exactly while the task refreshes: an aborted task never
\* leaves the client locked, and no exchange outlives the task that began it.
TaskOwnsItsCall == call.by = "task" <=> task.phase = "refreshing"

\* After destroy nothing is obtained from the KDC any more, whatever was in
\* progress or asleep: state only comes back by inserting a session.
DestroyIsFinal ==
    [][Destroyed /\ ~ AppInsert => call' = Idle /\ Destroyed']_vars

\* The inductive invariant: a call in progress has something to work with.
IInv ==
    /\ TypeOK
    /\ PrimaryMirrored
    /\ CallWellFormed
    /\ TaskOwnsItsCall
    /\ Destroyed => call = Idle

\* Destroying the client ends its renewal task, which wakes, finds nothing to
\* refresh and returns, instead of retrying for ever.
TaskActive == task.phase \notin {"none", "done", "aborted"}
DestroyStopsTask == []<>(~ Destroyed \/ ~ TaskActive)

\* Every call returns and gives the client back, however its exchanges fail:
\* the fallbacks inside get_service_ticket do not go round in circles.
CallsReturn == (call # Idle) ~> (call = Idle)

\* In a healthy environment a running renewal task never lets the primary TGT
\* lapse: it is replaced while still valid, however the application's own
\* calls contend for the lock.
KeptAlive == [][TaskActive /\ Valid(tgt) => Valid(tgt)']_vars

\* A refresh of the renewal task that succeeds and leaves the TGT within the
\* refresh window makes the task go round at once.  It does so in three cases:
\* there was nothing to refresh a valid TGT with, until it ends; the new TGT of
\* a login has not started by the client's clock and loses to the old one; a
\* renewal reached the renewal limit, or its lifetime counted from the first
\* login is so long that a whole ticket fits in the window.
StuckWithTicket == ~ creds /\ Valid(tgt) /\ ~ Renewable(tgt) /\ tgt' = tgt
LoginNotStarted == call.kind = "login" /\ KdcAhead > 0 /\ Valid(tgt) /\ tgt' = tgt
RenewedToLimit  ==
    /\ call.kind = "renew"
    /\ \/ tgt'.end = tgt'.renew
       \/ tgt'.end - tgt'.auth >= SESSION_REFRESH_DIVISOR * Life

\* Otherwise the task goes back to sleep: it does not spin.
RefreshLeavesWindow ==
    [][task.phase \in {"ready", "refreshing"} /\ task'.phase = "plan"
          => ~ Due(tgt)' \/ StuckWithTicket \/ LoginNotStarted \/ RenewedToLimit]_vars

=============================================================================
