-------------------------- MODULE AsExchangeProofs --------------------------
(***************************************************************************)
(* What find_key returns for keytabs of any length, and the sessions that   *)
(* logins return for any account, credentials, enctypes and answers of the  *)
(* KDCs.                                                                    *)
(***************************************************************************)
EXTENDS AsExchange, SequenceTheorems, FiniteSetTheorems, WellFoundedInduction, TLAPS

-----------------------------------------------------------------------------
(* Keytabs.                                                                 *)

\* A set of natural numbers that is not empty has a least member.
LEMMA Least ==
    ASSUME NEW T \in SUBSET Nat, T # {}
    PROVE  \E x \in T : \A y \in T : x <= y
<1> DEFINE Less == {ss \in Nat \X Nat : ss[1] < ss[2]}
<1>1. IsWellFoundedOn(Less, Nat)
  BY NatLessThanWellFounded DEF OpToRel
<1> HIDE DEF Less
<1>2. PICK x \in T : \A y \in T : ~ (<<y, x>> \in Less)
  BY <1>1, WFMin, Zenon
<1>3. ASSUME NEW y \in T PROVE x <= y
  <2>1. x \in Nat /\ y \in Nat
    OBVIOUS
  <2>2. <<y, x>> \in Nat \X Nat
    BY <2>1
  <2>3. ~ (y < x)
    BY <1>2, <2>1, <2>2 DEF Less
  <2> QED
    BY <2>1, <2>3
<1> QED
  BY <1>2, <1>3

\* A set of positions is one of natural numbers between its bounds.
LEMMA PrefixBounds ==
    ASSUME NEW n \in Nat, NEW M \in SUBSET (1 .. n)
    PROVE  \A j \in M : j \in Nat /\ 1 <= j /\ j <= n
<1> TAKE j \in M
<1>1. j \in 1 .. n
  BY Zenon
<1> QED
  BY <1>1

\* A position k that no member of a set precedes, and some member does not
\* exceed, is the first of the set.
LEMMA FirstMember ==
    ASSUME NEW M \in SUBSET Nat, NEW k \in Nat,
           \E i \in M : i <= k,
           ~ \E i \in M : i <= k - 1
    PROVE  k \in M /\ \A j \in M : j <= k => j = k
<1>1. ASSUME NEW j \in M, j <= k PROVE j = k
  <2>1. j \in Nat /\ ~ (j <= k - 1)
    OBVIOUS
  <2> QED
    BY <1>1, <2>1
<1>2. PICK i \in M : i <= k
  OBVIOUS
<1>3. i = k
  BY <1>1, <1>2, Zenon
<1> QED
  BY <1>1, <1>2, <1>3, Zenon

\* Among any matching entries one is the newest, the first of equally new
\* ones: the induction over the prefixes of the keytab that find_key's loop
\* goes through, by the least prefix without such an entry.
LEMMA SelectedIsNewest ==
    ASSUME NEW entries, NEW n \in Nat, DOMAIN entries = 1 .. n,
           \A i \in 1 .. n : entries[i].timestamp \in Nat,
           NEW M \in SUBSET (1 .. n), M # {}
    PROVE  /\ Selected(entries, M) \in M
           /\ \A j \in M : \/ entries[j].timestamp < entries[Selected(entries, M)].timestamp
                           \/ /\ entries[j].timestamp = entries[Selected(entries, M)].timestamp
                              /\ Selected(entries, M) <= j
<1>0. \A j \in M : j \in Nat /\ 1 <= j /\ j <= n
  BY PrefixBounds, Zenon
<1> DEFINE Newest(i, k) ==
        \A j \in M : j <= k =>
            \/ entries[j].timestamp < entries[i].timestamp
            \/ entries[j].timestamp = entries[i].timestamp /\ i <= j
       Bad == {k \in Nat : /\ k <= n /\ (\E i \in M : i <= k)
                           /\ ~ \E i \in M : i <= k /\ Newest(i, k)}
<1>1. Bad = {}
  <2> SUFFICES ASSUME Bad # {} PROVE FALSE
    OBVIOUS
  <2>1. Bad \in SUBSET Nat
    OBVIOUS
  <2> HIDE DEF Bad
  <2>2. PICK k \in Bad : \A y \in Bad : k <= y
    BY <2>1, Least
  <2>3. /\ k \in Nat /\ k <= n
        /\ \E i \in M : i <= k
        /\ ~ \E i \in M : i <= k /\ Newest(i, k)
    BY <2>2 DEF Bad
  <2>4. k \in 1 .. n
    BY <2>3
  <2>5. k - 1 \in Nat /\ k - 1 <= n /\ k - 1 \notin Bad
    BY <2>1, <2>2, <2>4
  <2>6. CASE \E i \in M : i <= k - 1
    <3>1. PICK i \in M : i <= k - 1 /\ Newest(i, k - 1)
      BY <2>5, <2>6 DEF Bad
    <3>2. \A j \in M : j <= k => j <= k - 1 \/ j = k
      BY <2>4
    <3>3. CASE k \in M /\ entries[i].timestamp < entries[k].timestamp
      <4>1. Newest(k, k)
        <5> SUFFICES ASSUME NEW j \in M, j <= k
                     PROVE  \/ entries[j].timestamp < entries[k].timestamp
                            \/ entries[j].timestamp = entries[k].timestamp /\ k <= j
          OBVIOUS
        <5>1. /\ entries[j].timestamp \in Nat /\ entries[k].timestamp \in Nat
              /\ entries[i].timestamp \in Nat
          BY <2>4
        <5>2. CASE j = k
          BY <2>4, <5>2
        <5>3. CASE j <= k - 1
          <6>1. \/ entries[j].timestamp < entries[i].timestamp
                \/ entries[j].timestamp = entries[i].timestamp
            BY <3>1, <5>3
          <6> QED BY <3>3, <5>1, <6>1
        <5> QED BY <3>2, <5>2, <5>3
      <4>2. k <= k
        BY <2>4
      <4> HIDE DEF Newest
      <4> QED
        BY <4>1, <4>2, <3>3, <2>3, Zenon
    <3>4. CASE ~ (k \in M /\ entries[i].timestamp < entries[k].timestamp)
      <4>1. i \in 1 .. n /\ i <= k
        BY <3>1, <2>4
      <4>2. ASSUME NEW j \in M, j <= k
            PROVE  \/ entries[j].timestamp < entries[i].timestamp
                   \/ entries[j].timestamp = entries[i].timestamp /\ i <= j
        <5>1. CASE j <= k - 1
          BY <3>1, <4>2, <5>1
        <5>2. CASE j = k
          <6>1. k \in M /\ entries[i].timestamp \in Nat /\ entries[k].timestamp \in Nat
            BY <2>4, <4>1, <4>2, <5>2
          <6> QED
            BY <3>4, <4>1, <5>2, <6>1
        <5> QED
          BY <3>2, <4>2, <5>1, <5>2
      <4>3. Newest(i, k)
        BY <4>2
      <4> HIDE DEF Newest
      <4> QED
        BY <4>1, <4>3, <2>3, Zenon
    <3> QED
      BY <3>3, <3>4
  <2>7. CASE ~ \E i \in M : i <= k - 1
    <3>1. k \in M /\ \A j \in M : j <= k => j = k
      <4>1. M \in SUBSET Nat
        BY <1>0, Zenon
      <4> QED
        BY <2>3, <2>7, <4>1, FirstMember, Zenon
    <3>2. Newest(k, k) /\ k <= k
      BY <2>4, <3>1
    <3> HIDE DEF Newest
    <3> QED
      BY <3>1, <3>2, <2>3, Zenon
  <2> QED
    BY <2>6, <2>7
<1>2. PICK i \in M : Newest(i, n)
  <2>1. n \notin Bad
    BY <1>1, Zenon
  <2>2. \E i \in M : i <= n
    BY <1>0
  <2> QED
    BY <2>1, <2>2
<1>3. \E s \in M : \A j \in M : \/ entries[j].timestamp < entries[s].timestamp
                                \/ entries[j].timestamp = entries[s].timestamp /\ s <= j
  BY <1>0, <1>2
<1> QED
  BY <1>3 DEF Selected

\* What find_key returns is the key and the version of a matching entry, and
\* no matching entry is newer; it fails only where nothing matches.
THEOREM FindKeySelects ==
    ASSUME NEW entries, NEW n \in Nat, DOMAIN entries = 1 .. n,
           \A i \in 1 .. n : entries[i].timestamp \in Nat,
           NEW principal, NEW realm, NEW kvno, NEW etype
    PROVE  LET match == find_key(entries, principal, realm, kvno, etype)
               M == MatchingEntries(entries, principal, realm, kvno, etype)
           IN  \/ M = {} /\ match = NoMatchingKey
               \/ \E i \in M : /\ match = [found |-> TRUE, key |-> entries[i].key,
                                           kvno |-> entries[i].kvno]
                               /\ \A j \in M : entries[j].timestamp <= entries[i].timestamp
<1> DEFINE M == MatchingEntries(entries, principal, realm, kvno, etype)
<1>1. M \in SUBSET (1 .. n)
  BY DEF MatchingEntries
<1> HIDE DEF M
<1>2. CASE M = {}
  BY <1>2 DEF find_key, M
<1>3. CASE M # {}
  <2> DEFINE i == Selected(entries, M)
  <2>1. i \in M /\ \A j \in M : entries[j].timestamp <= entries[i].timestamp
    <3>1. /\ i \in M
          /\ \A j \in M : \/ entries[j].timestamp < entries[i].timestamp
                          \/ entries[j].timestamp = entries[i].timestamp /\ i <= j
      BY <1>1, <1>3, SelectedIsNewest
    <3> HIDE DEF i
    <3> QED
      BY <3>1, <1>1
  <2>2. find_key(entries, principal, realm, kvno, etype) =
            [found |-> TRUE, key |-> entries[i].key, kvno |-> entries[i].kvno]
    BY <1>3 DEF find_key, M
  <2> HIDE DEF i
  <2> QED
    BY <2>1, <2>2 DEF M
<1> QED
  BY <1>2, <1>3

-----------------------------------------------------------------------------
(* Keys.                                                                    *)

\* A key chosen for a login is one of its credentials' own.
LEMMA KeyForHolds ==
    ASSUME NEW credentials \in Credentials, NEW etype, NEW salt, NEW kvno,
           KeyFor(credentials, etype, salt, kvno) # NoKey
    PROVE  HoldsKey(credentials, KeyFor(credentials, etype, salt, kvno))
<1>1. CASE credentials.kind = "password"
  BY <1>1 DEF KeyFor, PasswordKey, HoldsKey, Key
<1>2. CASE credentials.kind # "password"
  <2> DEFINE entries == credentials.entries
             match == find_key(entries, Client, "R", kvno, etype)
             M == MatchingEntries(entries, Client, "R", kvno, etype)
  <2>1. entries \in Keytabs
    BY <1>2 DEF Credentials
  <2>2. /\ Len(entries) \in Nat /\ DOMAIN entries = 1 .. Len(entries)
        /\ \A i \in 1 .. Len(entries) : entries[i].timestamp \in Nat
    BY <2>1, KeytabAssumption
  <2>3. KeyFor(credentials, etype, salt, kvno) = match.key /\ match.found
    BY <1>2 DEF KeyFor, KeytabKey
  <2> HIDE DEF entries
  <2>4. \/ M = {} /\ match = NoMatchingKey
        \/ \E i \in M : match = [found |-> TRUE, key |-> entries[i].key,
                                 kvno |-> entries[i].kvno]
    <3> DEFINE n == Len(entries)
    <3>1. n \in Nat /\ DOMAIN entries = 1 .. n /\ \A i \in 1 .. n : entries[i].timestamp \in Nat
      BY <2>2
    <3> HIDE DEF n
    <3> QED
      BY <3>1, FindKeySelects
  <2>5. PICK i \in M : match = [found |-> TRUE, key |-> entries[i].key,
                                kvno |-> entries[i].kvno]
    BY <2>3, <2>4 DEF NoMatchingKey
  <2>6. i \in DOMAIN entries
    BY <2>5 DEF MatchingEntries
  <2>7. match.key = entries[i].key
    BY <2>5
  <2> QED
    BY <1>2, <2>3, <2>6, <2>7 DEF HoldsKey, entries
<1> QED
  BY <1>1, <1>2

-----------------------------------------------------------------------------
(* The KDC.                                                                 *)

\* Whatever a KDC answers, oddly or not, it answers a request.
LEMMA AnswersGenuine ==
    ASSUME NEW request, NEW reply \in Answers(request) \cup Oddities(request)
    PROVE  /\ reply.request = request
           /\ reply.type = "as-rep" => /\ reply.nonce = request.nonce
                                       /\ reply.checksum_of = request
<1> DEFINE Good(r) == /\ r.request = request
                      /\ r.type = "as-rep" => /\ r.nonce = request.nonce
                                              /\ r.checksum_of = request
<1>1. ASSUME NEW r \in Answers(request)
      PROVE  Good(r) /\ (r.type = "as-rep" =>
                \E key, kvno, flag : r = AsRep(request, key, kvno, flag))
  <2>1. \/ \E code, info2, info : r = ErrorReply(request, code, info2, info)
        \/ \E key, kvno, flag : r = AsRep(request, key, kvno, flag)
    BY DEF Answers
  <2>2. CASE \E code, info2, info : r = ErrorReply(request, code, info2, info)
    BY <2>2 DEF ErrorReply
  <2>3. CASE \E key, kvno, flag : r = AsRep(request, key, kvno, flag)
    <3>1. Good(r)
      BY <2>3 DEF AsRep
    <3> QED
      BY <2>3, <3>1, Zenon
  <2> QED
    BY <2>1, <2>2, <2>3
<1>2. CASE reply \in Answers(request)
  BY <1>1, <1>2
<1>3. CASE reply \in Oddities(request)
  <2>1. CASE reply = ErrorReply(request, PREAUTH_REQUIRED, NoHints, NoHints)
    BY <2>1 DEF ErrorReply
  <2>2. CASE \E r \in Answers(request) :
               r.type = "as-rep" /\ reply \in {[r EXCEPT !.client = "alias"],
                   [r EXCEPT !.service = "alias"], [r EXCEPT !.ticket = "alias"],
                   [r EXCEPT !.padata = FALSE]}
    <3>1. PICK r \in Answers(request) :
               r.type = "as-rep" /\ reply \in {[r EXCEPT !.client = "alias"],
                   [r EXCEPT !.service = "alias"], [r EXCEPT !.ticket = "alias"],
                   [r EXCEPT !.padata = FALSE]}
      BY <2>2
    <3>2. PICK key, kvno, flag : r = AsRep(request, key, kvno, flag)
      BY <1>1, <3>1
    <3> QED
      BY <3>1, <3>2 DEF AsRep
  <2> QED
    BY <1>3, <2>1, <2>2 DEF Oddities
<1> QED
  BY <1>2, <1>3

-----------------------------------------------------------------------------
(* Pieces that actions share.                                               *)

\* A login that ends in an error leaves nothing to be shown.
LEMMA ErrorStep ==
    ASSUME IInv, Return("error", NoReply), UNCHANGED <<case, nonce, requests, replies>>
    PROVE  IInv'
<1>1. call'.phase = "idle" /\ result'.status = "error"
  BY DEF Return, Idle
<1> QED
  BY <1>1 DEF IInv, Genuine, CallInv, SessionIsOurs, AnswerIsBound

\* A reply that ends a login, with the key that the login chose for it.
LEMMA FinishStep ==
    ASSUME IInv, NEW reply, Genuine(reply), call.phase # "idle",
           NEW reply_key, reply_key # NoKey => HoldsKey(call.login.credentials, reply_key),
           Finish(reply, reply_key), UNCHANGED <<case, nonce, replies>>
    PROVE  IInv'
<1>1. CASE Return("error", NoReply)
  BY <1>1, ErrorStep DEF Finish
<1>2. CASE process_as_rep(call.request, reply, reply_key) /\ Return("ok", reply)
  <2>1. /\ call'.phase = "idle" /\ requests' = requests
        /\ result'.status = "ok" /\ result'.login = call.login
        /\ result'.request = call.request /\ result'.reply = reply
    BY <1>2 DEF Return, Idle, Finish
  <2>2. /\ call.request.nonce = nonce /\ call.request.service = call.login.service
    BY DEF IInv, CallInv
  <2>3. SessionIsOurs'
    BY <1>2, <2>1, <2>2 DEF SessionIsOurs, process_as_rep, Genuine, HoldsKey
  <2>4. AnswerIsBound'
    BY <1>2, <2>1 DEF AnswerIsBound, process_as_rep, Genuine
  <2> QED
    BY <2>1, <2>3, <2>4 DEF IInv, CallInv, Genuine
<1> QED
  BY <1>1, <1>2 DEF Finish

\* A request goes out and the login waits.
LEMMA SendStep ==
    ASSUME IInv, NEW c, Send(c), UNCHANGED <<case, replies>>,
           c.phase \in {"probe", "preauth"}, DOMAIN c = DOMAIN Idle, c.login \in Login,
           c.request.nonce = nonce', c.request.service = c.login.service,
           c.phase = "preauth" => HoldsKey(c.login.credentials, c.reply_key)
    PROVE  IInv'
<1>1. call' = c /\ requests' = requests \cup {c.request} /\ result'.status = "none"
  BY DEF Send, NoResult
<1>2. CallInv'
  BY <1>1 DEF CallInv, HoldsKey
<1> QED
  BY <1>1, <1>2 DEF IInv, Genuine, SessionIsOurs, AnswerIsBound

LEMMA BuildAsReq ==
    ASSUME NEW login, NEW n, NEW attempt, NEW key
    PROVE  /\ build_as_req(login, n, attempt).nonce = n
           /\ build_as_req(login, n, attempt).service = login.service
           /\ build_preauthenticated_as_req(login, n, attempt, key).nonce = n
           /\ build_preauthenticated_as_req(login, n, attempt, key).service = login.service
BY DEF build_as_req, build_preauthenticated_as_req

-----------------------------------------------------------------------------
(* The actions.                                                             *)

LEMMA LoginStep ==
    ASSUME IInv, NEW login \in Login, login_as_service(login)
    PROVE  IInv'
<1>1. CASE call' = Idle /\ result' = [NoResult EXCEPT !.status = "error", !.login = login]
           /\ UNCHANGED <<requests, case, replies>>
  <2>1. call'.phase = "idle" /\ result'.status = "error"
    BY <1>1 DEF Idle, NoResult
  <2> QED
    BY <1>1, <2>1 DEF IInv, Genuine, CallInv, SessionIsOurs, AnswerIsBound
<1> DEFINE c == [Idle EXCEPT !.phase = "probe", !.login = login,
                             !.request = initial_as_req(login, nonce')]
<1>2. CASE Send(c) /\ UNCHANGED <<case, replies>>
  <2>1. /\ c.phase = "probe" /\ c.login = login /\ DOMAIN c = DOMAIN Idle
        /\ c.request = initial_as_req(login, nonce')
    BY DEF Idle
  <2>2. c.request.nonce = nonce' /\ c.request.service = login.service
    BY <2>1, BuildAsReq DEF initial_as_req
  <2> HIDE DEF c
  <2> QED
    BY <1>2, <2>1, <2>2, SendStep
<1> QED
  BY <1>1, <1>2 DEF login_as_service

LEMMA PreauthStep ==
    ASSUME IInv, NEW reply, call.phase = "probe", PreauthRequest(reply),
           UNCHANGED <<case, nonce, replies>>
    PROVE  IInv'
<1> DEFINE info == select_preauth_key_info(preauth_key_info(reply), call.login.etypes)
           key == KeyFor(call.login.credentials, info.etype, info.salt, AnyKvno)
           c == [call EXCEPT !.phase = "preauth", !.reply_key = key,
                             !.request =
                                build_preauthenticated_as_req(call.login, nonce, 2, key)]
<1>1. CASE Return("error", NoReply) /\ UNCHANGED requests
  BY <1>1, ErrorStep
<1>2. CASE key # NoKey /\ Send(c)
  <2>1. call.login \in Login /\ call.login.credentials \in Credentials
    BY DEF IInv, CallInv, Login
  <2>2. HoldsKey(call.login.credentials, key)
    BY <1>2, <2>1, KeyForHolds
  <2>3. DOMAIN call = DOMAIN Idle
    BY DEF IInv, CallInv
  <2> HIDE DEF key
  <2>4. /\ c.phase = "preauth" /\ c.login = call.login /\ c.reply_key = key
        /\ c.request = build_preauthenticated_as_req(call.login, nonce, 2, key)
        /\ DOMAIN c = DOMAIN Idle
    BY <2>3 DEF Idle
  <2>5. c.request.nonce = nonce' /\ c.request.service = c.login.service
    BY <2>4, BuildAsReq
  <2> HIDE DEF c
  <2> QED
    BY <1>2, <2>1, <2>2, <2>4, <2>5, SendStep
<1> QED
  BY <1>1, <1>2 DEF PreauthRequest

\* Any answer, be it late, repeated, odd or right.
LEMMA ReceiveStep ==
    ASSUME IInv, NEW reply, Genuine(reply), Receive(reply)
    PROVE  IInv'
<1>1. CASE call.phase = "probe" /\ Finish(reply, InitialReplyKey(reply))
  <2>1. call.login.credentials \in Credentials
    BY <1>1 DEF IInv, CallInv, Login
  <2>2. InitialReplyKey(reply) # NoKey =>
            HoldsKey(call.login.credentials, InitialReplyKey(reply))
    BY <2>1, KeyForHolds DEF InitialReplyKey
  <2> QED
    BY <1>1, <2>2, FinishStep DEF Receive
<1>2. CASE call.phase = "probe" /\ PreauthRequest(reply)
  BY <1>2, PreauthStep DEF Receive
<1>3. CASE call.phase = "preauth" /\ Finish(reply, call.reply_key)
  <2>1. HoldsKey(call.login.credentials, call.reply_key)
    BY <1>3 DEF IInv, CallInv
  <2> QED
    BY <1>3, <2>1, FinishStep DEF Receive
<1> QED
  BY <1>1, <1>2, <1>3 DEF Receive

LEMMA ServeStep ==
    ASSUME IInv, Serve
    PROVE  IInv'
<1>1. PICK request \in requests : \E reply \in Answers(request) \cup Oddities(request) :
          replies' = replies \cup {reply}
  BY DEF Serve
<1>2. PICK reply \in Answers(request) \cup Oddities(request) :
          replies' = replies \cup {reply}
  BY <1>1
<1>3. Genuine(reply)
  BY <1>1, <1>2, AnswersGenuine DEF Genuine
<1> QED
  BY <1>2, <1>3 DEF IInv, Serve, Genuine, CallInv, SessionIsOurs, AnswerIsBound

\* IInv is inductive.
LEMMA StepIInv ==
    ASSUME IInv, [Next]_vars
    PROVE  IInv'
<1>1. CASE \E login \in case.logins : login_as_service(login)
  <2>1. case.logins \subseteq Login
    BY CasesAssumption DEF IInv, Case
  <2> QED
    BY <1>1, <2>1, LoginStep
<1>2. CASE call.phase # "idle" /\ \E reply \in Answers(call.request) : Receive(reply)
  <2>1. PICK reply \in Answers(call.request) : Receive(reply)
    BY <1>2
  <2>2. Genuine(reply)
    BY <1>2, AnswersGenuine DEF IInv, CallInv, Genuine
  <2> QED
    BY <2>1, <2>2, ReceiveStep
<1>3. CASE \E reply \in replies : Receive(reply)
  BY <1>3, ReceiveStep DEF IInv
<1>4. CASE Fail
  BY <1>4, ErrorStep DEF Fail
<1>5. CASE Serve
  BY <1>5, ServeStep
<1>6. CASE ChangePassword
  BY <1>6 DEF ChangePassword, IInv, Genuine, CallInv, SessionIsOurs, AnswerIsBound
<1>7. CASE UNCHANGED vars
  BY <1>7 DEF vars, IInv, Genuine, CallInv, SessionIsOurs, AnswerIsBound
<1> QED
  BY <1>1, <1>2, <1>3, <1>4, <1>5, <1>6, <1>7 DEF Next

\* The inductive invariant holds in every reachable state: replies are what
\* KDCs made of requests, and a login waits with a key of its own.
THEOREM Invariance == Spec => []IInv
<1>1. Init => IInv
  BY DEF Init, IInv, CallInv, Idle, NoResult, SessionIsOurs, AnswerIsBound
<1>2. IInv /\ [Next]_vars => IInv'
  BY StepIInv
<1> QED
  BY <1>1, <1>2, PTL DEF Spec

\* A session that a login returns was issued in answer to this very login, for
\* its client and service, under a key of its credentials, whatever other
\* answers arrive (client.rs, process_as_rep).
THEOREM SessionsAreOurs == Spec => []SessionIsOurs
<1>1. IInv => SessionIsOurs
  BY DEF IInv
<1> QED
  BY <1>1, Invariance, PTL

\* A protected answer is to the request that the client sent last, not to the
\* probe before it (client.rs, validate_as_rep_encrypted_padata).
THEOREM ProtectedAnswersAreBound == Spec => []AnswerIsBound
<1>1. IInv => AnswerIsBound
  BY DEF IInv
<1> QED
  BY <1>1, Invariance, PTL

-----------------------------------------------------------------------------
(* The first of a list, and hints.                                          *)

LEMMA FirstIs ==
    ASSUME NEW list \in Seq(Nat), NEW S, NEW i \in DOMAIN list, list[i] \in S,
           \A j \in DOMAIN list : list[j] \in S => i <= j
    PROVE  First(list, S) = list[i]
<1>1. DOMAIN list = 1 .. Len(list) /\ Len(list) \in Nat
  OBVIOUS
<1>2. PICK k : k = CHOOSE m \in DOMAIN list :
                      list[m] \in S /\ \A j \in DOMAIN list : list[j] \in S => m <= j
  OBVIOUS
<1>3. k \in DOMAIN list /\ list[k] \in S /\ \A j \in DOMAIN list : list[j] \in S => k <= j
  BY <1>2
<1>4. k = i
  BY <1>1, <1>3
<1> QED
  BY <1>2, <1>4 DEF First

LEMMA FirstExists ==
    ASSUME NEW list \in Seq(Nat), NEW S, ToSet(list) \cap S # {}
    PROVE  \E i \in DOMAIN list : /\ list[i] \in S /\ First(list, S) = list[i]
                                  /\ \A j \in DOMAIN list : list[j] \in S => i <= j
<1> DEFINE T == {i \in DOMAIN list : list[i] \in S}
<1>1. T \in SUBSET Nat /\ T # {}
  BY DEF ToSet
<1>2. PICK i \in T : \A j \in T : i <= j
  <2> HIDE DEF T
  <2> QED
    BY <1>1, Least
<1>3. i \in DOMAIN list /\ list[i] \in S /\ \A j \in DOMAIN list : list[j] \in S => i <= j
  BY <1>2
<1>4. First(list, S) = list[i]
  BY <1>3, FirstIs
<1> QED
  BY <1>3, <1>4

\* The first of a larger set that is in the smaller one is the first of that.
LEMMA FirstWithin ==
    ASSUME NEW list \in Seq(Nat), NEW S, NEW T, ToSet(list) \cap S # {},
           First(list, S) \in T, T \cap ToSet(list) \subseteq S
    PROVE  First(list, T) = First(list, S)
<1>1. PICK i \in DOMAIN list : /\ list[i] \in S /\ First(list, S) = list[i]
                               /\ \A j \in DOMAIN list : list[j] \in S => i <= j
  BY FirstExists
<1>2. \A j \in DOMAIN list : list[j] \in T => i <= j
  BY <1>1 DEF ToSet
<1>3. First(list, T) = list[i]
  BY <1>1, <1>2, FirstIs
<1> QED
  BY <1>1, <1>3

\* The hints of a KDC name the enctypes that were requested and that the
\* account has, all with its salt.
LEMMA HintFacts ==
    ASSUME case \in Cases, NEW request, NEW hints \in Hints(request)
    PROVE  LET offered == ToSet(request.etypes) \cap account.etypes
           IN  /\ {hints[i].etype : i \in DOMAIN hints} = offered
               /\ \A i \in DOMAIN hints : hints[i].salt = account.salt
               /\ hints \o <<>> = hints /\ <<>> \o hints = hints
               /\ offered # {} => hints # <<>>
               /\ DOMAIN hints \subseteq Nat
<1>0. PICK offered : offered = ToSet(request.etypes) \cap account.etypes
  OBVIOUS
<1>1. PICK n : n = Cardinality(offered)
  OBVIOUS
<1>2. n \in Nat
  <2>1. account \in Accounts
    BY CasesAssumption DEF account, Case
  <2>2. IsFiniteSet(account.etypes)
    BY <2>1, AsAssumption
  <2>3. IsFiniteSet(offered)
    BY <1>0, <2>2, FS_Intersection
  <2> QED
    BY <1>1, <2>3, FS_CardinalityType
<1>3. PICK list \in [1 .. n -> offered] :
         /\ \A e \in offered : \E i \in 1 .. n : list[i] = e
         /\ hints = [i \in 1 .. n |-> [etype |-> list[i], salt |-> account.salt]]
  <2> DEFINE orders == {list \in [1 .. n -> offered] :
                           \A e \in offered : \E i \in DOMAIN list : list[i] = e}
             HintsOf(list) == [i \in DOMAIN list |-> [etype |-> list[i], salt |-> account.salt]]
  <2>1. hints \in {HintsOf(list) : list \in orders}
    BY <1>0, <1>1 DEF Hints
  <2>2. PICK list \in orders : hints = HintsOf(list)
    BY <2>1
  <2>3. list \in [1 .. n -> offered] /\ DOMAIN list = 1 .. n
    OBVIOUS
  <2>4. \A e \in offered : \E i \in 1 .. n : list[i] = e
    BY <2>3
  <2>5. hints = [i \in 1 .. n |-> [etype |-> list[i], salt |-> account.salt]]
    BY <2>2, <2>3
  <2> QED
    BY <2>3, <2>4, <2>5
<1>4. /\ DOMAIN hints = 1 .. n
      /\ \A i \in 1 .. n : hints[i].etype = list[i] /\ hints[i].salt = account.salt
  BY <1>3
<1>5. {hints[i].etype : i \in DOMAIN hints} = offered
  BY <1>3, <1>4
<1>6. hints \in Seq([etype : offered, salt : {account.salt}])
  BY <1>2, <1>3
<1>7. hints \o <<>> = hints /\ <<>> \o hints = hints
  BY <1>6, ConcatEmptySeq
<1>8. offered # {} => hints # <<>>
  BY <1>5
<1> QED
  BY <1>0, <1>2, <1>4, <1>5, <1>7, <1>8

HintsFor(hints, etypes, theirs, salt) ==
    /\ {hints[i].etype : i \in DOMAIN hints} = ToSet(etypes) \cap theirs
    /\ \A i \in DOMAIN hints : hints[i].salt = salt
    /\ hints # <<>> /\ DOMAIN hints \subseteq Nat

Selection(info, etypes, theirs, salt) ==
    IF ToSet(etypes) \cap (Supported \cap theirs) # {}
    THEN info.etype = First(etypes, Supported \cap theirs) /\ info.salt = salt
    ELSE info.etype = 0

\* From such hints the client takes its first enctype that both sides have.
LEMMA SelectsFirst ==
    ASSUME NEW etypes \in Seq(Nat), NEW hints, NEW theirs, NEW salt,
           HintsFor(hints, etypes, theirs, salt),
           NEW info, info = select_preauth_key_info(hints, etypes)
    PROVE  Selection(info, etypes, theirs, salt)
<1> DEFINE hinted == {hints[i].etype : i \in DOMAIN hints}
<1> USE DEF HintsFor, Selection
<1>1. CASE ToSet(etypes) \cap (Supported \cap theirs) = {}
  <2>1. ToSet(etypes) \cap Supported \cap hinted = {}
    BY <1>1
  <2> QED
    BY <1>1, <2>1 DEF select_preauth_key_info, NoHints
<1>2. CASE ToSet(etypes) \cap (Supported \cap theirs) # {}
  <2>1. ToSet(etypes) \cap Supported \cap hinted # {} /\ ToSet(etypes) \cap (Supported \cap hinted) # {}
    BY <1>2
  <2>2. PICK etype : etype = First(etypes, Supported \cap hinted)
    OBVIOUS
  <2>3. etype \in Supported \cap hinted
    BY <2>1, <2>2, FirstExists
  <2>4. etype = First(etypes, Supported \cap theirs)
    <3>1. /\ First(etypes, Supported \cap hinted) \in Supported \cap theirs
          /\ (Supported \cap theirs) \cap ToSet(etypes) \subseteq Supported \cap hinted
      BY <2>2, <2>3
    <3> HIDE DEF hinted
    <3> QED
      BY <2>1, <2>2, <3>1, FirstWithin
  <2>5. PICK i : i = CHOOSE m \in DOMAIN hints :
                        /\ hints[m].etype = etype
                        /\ \A j \in DOMAIN hints : hints[j].etype = etype => m <= j
    OBVIOUS
  <2>6. i \in DOMAIN hints /\ hints[i].etype = etype
    <3> DEFINE T == {j \in DOMAIN hints : hints[j].etype = etype}
    <3>1. T \in SUBSET Nat /\ T # {}
      BY <2>3
    <3>2. PICK k \in T : \A j \in T : k <= j
      <4> HIDE DEF T
      <4> QED
        BY <3>1, Least
    <3>3. k \in DOMAIN hints /\ hints[k].etype = etype
          /\ \A j \in DOMAIN hints : hints[j].etype = etype => k <= j
      BY <3>2
    <3> QED
      BY <2>5, <3>3
  <2>7. info = hints[i]
    BY <2>1, <2>2, <2>5 DEF select_preauth_key_info
  <2> QED
    BY <1>2, <2>4, <2>6, <2>7
<1> QED
  BY <1>1, <1>2

-----------------------------------------------------------------------------
(* A KDC in order.                                                          *)

\* The first enctype of a login that both sides have.
Common(login) == First(login.etypes, Supported \cap account.etypes)

\* Before the second request the key is the assumed one or none; with it, it is
\* that of the first common enctype.
OrderedCall ==
    /\ call.request.etypes = call.login.etypes
    /\ call.phase = "probe" =>
          IF call.login.assume_preauthentication
          THEN /\ AssumedKey(call.login) # NoKey
               /\ call.request.timestamp_key = AssumedKey(call.login)
          ELSE call.request.timestamp_key = NoKey
    /\ call.phase = "preauth" =>
          /\ call.request.timestamp_key = call.reply_key /\ call.reply_key # NoKey
          /\ call.login.credentials.kind = "password" =>
                call.reply_key.etype = Common(call.login)
          /\ CanLogin(call.login) => call.reply_key = AccountKey(Common(call.login))

OInv ==
    /\ version \in 1 .. MaxVersion
    /\ case.in_order => /\ call.phase = "idle" \/ OrderedCall
                        /\ NoDowngrade /\ LoginSucceeds

\* Keys of a password, and of the account.
LEMMA PasswordKeys ==
    ASSUME NEW credentials \in Credentials, credentials.kind = "password",
           NEW etype, NEW salt, NEW kvno
    PROVE  LET key == KeyFor(credentials, etype, salt, kvno)
           IN  /\ key # NoKey => etype \in Supported /\ key.etype = etype
               /\ etype \in Supported /\ salt = DefaultSalt => key # NoKey
<1>1. PICK v : v = credentials.version
  OBVIOUS
<1>2. v \in Nat
  BY <1>1, AsAssumption DEF Credentials
<1>3. KeyFor(credentials, etype, salt, kvno) =
         IF etype \in Supported THEN Key(etype, salt, v) ELSE NoKey
  BY <1>1 DEF KeyFor, PasswordKey
<1>4. Key(etype, salt, v).etype = etype
  BY DEF Key
<1>5. ASSUME etype \in Supported, salt = DefaultSalt
      PROVE  Key(etype, salt, v) # NoKey
  <2>1. PICK S : S = {a.salt : a \in Accounts} \cup {DefaultSalt}
    OBVIOUS
  <2>2. etype \in Nat /\ salt \in S
    BY <1>5, <2>1, AsAssumption
  <2>3. Key(etype, salt, v) \in [etype : Nat, salt : S, version : Nat]
    BY <1>2, <2>2 DEF Key
  <2>4. NoKey \notin [etype : Nat, salt : S, version : Nat]
    BY <2>1, AsAssumption
  <2> QED
    BY <2>3, <2>4
<1> QED
  BY <1>3, <1>4, <1>5

LEMMA AccountKeys ==
    ASSUME case \in Cases, version \in 1 .. MaxVersion, NEW etype \in Nat
    PROVE  /\ AccountKey(etype) # NoKey /\ AccountKey(etype).etype = etype
           /\ AccountKey(etype).version = version /\ version # AnyKvno
<1>1. account \in Accounts
  BY CasesAssumption DEF account, Case
<1>2. version \in Nat /\ version # 0
  BY AsAssumption
<1>3. PICK salt : salt = account.salt
  OBVIOUS
<1>4. Key(etype, salt, version) # NoKey
  BY <1>1, <1>2, <1>3, AsAssumption DEF Key
<1> QED
  BY <1>2, <1>3, <1>4 DEF AccountKey, Key, AnyKvno

\* The assumed key of a password is of the first supported enctype.
LEMMA AssumedEtype ==
    ASSUME NEW login \in Login, login.credentials.kind = "password", AssumedKey(login) # NoKey
    PROVE  /\ ToSet(login.etypes) \cap Supported # {}
           /\ AssumedKey(login).etype = First(login.etypes, Supported)
<1>1. PICK credentials : credentials = login.credentials
  OBVIOUS
<1>2. credentials \in Credentials /\ credentials.kind = "password"
  BY <1>1 DEF Login
<1>3. {e \in Supported : KeyFor(credentials, e, DefaultSalt, AnyKvno) # NoKey} = Supported
  BY <1>2, PasswordKeys
<1>4. /\ ToSet(login.etypes) \cap Supported # {}
      /\ AssumedKey(login) = KeyFor(credentials, First(login.etypes, Supported), DefaultSalt, AnyKvno)
  BY <1>1, <1>3 DEF AssumedKey
<1> QED
  BY <1>2, <1>4, PasswordKeys

\* The selection with the version of the entry that any version selects is the
\* same.
LEMMA SameEntry ==
    ASSUME NEW entries \in Keytabs, NEW etype, NEW v,
           find_key(entries, Client, "R", AnyKvno, etype).found,
           find_key(entries, Client, "R", AnyKvno, etype).key.version = v, v # AnyKvno
    PROVE  find_key(entries, Client, "R", v, etype) = find_key(entries, Client, "R", AnyKvno, etype)
<1> DEFINE M == MatchingEntries(entries, Client, "R", AnyKvno, etype)
           N == MatchingEntries(entries, Client, "R", v, etype)
<1>1. PICK n : n = Len(entries)
  OBVIOUS
<1>2. /\ n \in Nat /\ DOMAIN entries = 1 .. n
      /\ \A i \in 1 .. n : entries[i].timestamp \in Nat /\ entries[i].kvno = entries[i].key.version
  BY <1>1, KeytabAssumption
<1>3. M # {} /\ find_key(entries, Client, "R", AnyKvno, etype) =
          [found |-> TRUE, key |-> entries[Selected(entries, M)].key,
           kvno |-> entries[Selected(entries, M)].kvno]
  BY DEF find_key, NoMatchingKey
<1>4. M \in SUBSET (1 .. n) /\ N = {i \in M : entries[i].kvno = v}
  BY <1>2 DEF MatchingEntries, EntryMatches
<1>5. N = {} \/ find_key(entries, Client, "R", v, etype) =
          [found |-> TRUE, key |-> entries[Selected(entries, N)].key,
           kvno |-> entries[Selected(entries, N)].kvno]
  BY DEF find_key
<1> HIDE DEF M, N
<1>6. PICK s : s = Selected(entries, M)
  OBVIOUS
<1>7. /\ s \in M
      /\ \A j \in M : \/ entries[j].timestamp < entries[s].timestamp
                      \/ entries[j].timestamp = entries[s].timestamp /\ s <= j
  BY <1>2, <1>3, <1>4, <1>6, SelectedIsNewest
<1>8. s \in N
  BY <1>2, <1>3, <1>4, <1>6, <1>7
<1>9. PICK t : t = Selected(entries, N)
  OBVIOUS
<1>10. /\ t \in N
       /\ \A j \in N : \/ entries[j].timestamp < entries[t].timestamp
                       \/ entries[j].timestamp = entries[t].timestamp /\ t <= j
  <2>1. N \in SUBSET (1 .. n) /\ N # {}
    BY <1>4, <1>8
  <2> QED
    BY <1>2, <1>9, <2>1, SelectedIsNewest
<1>11. s \in 1 .. n /\ t \in 1 .. n /\ t \in M
  BY <1>4, <1>7, <1>10
<1>12. s = t
  <2>1. \/ entries[t].timestamp < entries[s].timestamp
        \/ entries[t].timestamp = entries[s].timestamp /\ s <= t
    BY <1>7, <1>11
  <2>2. \/ entries[s].timestamp < entries[t].timestamp
        \/ entries[s].timestamp = entries[t].timestamp /\ t <= s
    BY <1>8, <1>10
  <2>3. entries[s].timestamp \in Nat /\ entries[t].timestamp \in Nat
    BY <1>2, <1>11
  <2> QED
    BY <1>11, <2>1, <2>2, <2>3
<1> QED
  BY <1>3, <1>5, <1>6, <1>8, <1>9, <1>12

AsRepWith(reply, request, key) ==
    \E kvno \in {AnyKvno, version}, flag \in BOOLEAN : reply = AsRep(request, key, kvno, flag)

\* What the KDC answers.
LEMMA AnswerCases ==
    ASSUME case \in Cases, NEW request, NEW reply \in Answers(request),
           NEW offered, offered = ToSet(request.etypes) \cap account.etypes,
           NEW key, key = request.timestamp_key
    PROVE  \/ offered = {} /\ reply.type = "error" /\ reply.code = ETYPE_NOSUPP
           \/ /\ offered # {} /\ key = NoKey /\ account.preauth
              /\ reply.type = "error" /\ reply.code = PREAUTH_REQUIRED
              /\ preauth_key_info(reply) \in Hints(request)
           \/ /\ offered # {} /\ key # NoKey
              /\ key.etype \notin offered \/ key # AccountKey(key.etype)
              /\ reply.type = "error" /\ reply.code = PREAUTH_FAILED
           \/ /\ offered # {} /\ key = NoKey /\ ~ account.preauth
              /\ AsRepWith(reply, request, AccountKey(First(request.etypes, offered)))
           \/ /\ key # NoKey /\ key.etype \in offered /\ key = AccountKey(key.etype)
              /\ AsRepWith(reply, request, key)
<1>1. CASE offered = {}
  <2>1. reply = ErrorReply(request, ETYPE_NOSUPP, NoHints, NoHints)
    BY <1>1 DEF Answers
  <2> QED
    BY <1>1, <2>1 DEF ErrorReply
<1>2. CASE offered # {} /\ key = NoKey /\ account.preauth
  <2>1. \E hints \in Hints(request) :
           \/ reply = ErrorReply(request, PREAUTH_REQUIRED, hints, NoHints)
           \/ reply = ErrorReply(request, PREAUTH_REQUIRED, NoHints, hints)
    BY <1>2 DEF Answers
  <2>2. PICK hints \in Hints(request) :
           \/ reply = ErrorReply(request, PREAUTH_REQUIRED, hints, NoHints)
           \/ reply = ErrorReply(request, PREAUTH_REQUIRED, NoHints, hints)
    BY <2>1
  <2>3. hints \o <<>> = hints /\ <<>> \o hints = hints
    BY HintFacts
  <2>4. /\ reply.type = "error" /\ reply.code = PREAUTH_REQUIRED
        /\ \/ reply.info2 = hints /\ reply.info = <<>>
           \/ reply.info2 = <<>> /\ reply.info = hints
    BY <2>2 DEF ErrorReply, NoHints
  <2>5. preauth_key_info(reply) = reply.info2 \o reply.info
    BY <2>4 DEF preauth_key_info
  <2>6. preauth_key_info(reply) = hints
    BY <2>3, <2>4, <2>5
  <2> QED
    BY <1>2, <2>4, <2>6
<1>3. CASE offered # {} /\ key # NoKey /\ (key.etype \notin offered \/ key # AccountKey(key.etype))
  <2>1. reply = ErrorReply(request, PREAUTH_FAILED, NoHints, NoHints)
    BY <1>3 DEF Answers
  <2> QED
    BY <1>3, <2>1 DEF ErrorReply
<1>4. CASE offered # {} /\ key = NoKey /\ ~ account.preauth
  BY <1>4 DEF Answers, AsRepWith
<1>5. CASE key # NoKey /\ key.etype \in offered /\ key = AccountKey(key.etype)
  BY <1>5 DEF Answers, AsRepWith
<1> QED
  BY <1>1, <1>2, <1>3, <1>4, <1>5

\* An AS-REP is taken with the key it is sealed with, and with no other.
LEMMA AsRepTaken ==
    ASSUME NEW request, NEW key, NEW kvno, NEW flag \in BOOLEAN, NEW reply,
           reply = AsRep(request, key, kvno, flag)
    PROVE  /\ reply.type = "as-rep" /\ reply.sealed = key
           /\ reply.etype = key.etype /\ reply.kvno = kvno
           /\ \A reply_key : process_as_rep(request, reply, reply_key)
                                <=> reply_key = key /\ key # NoKey /\ key.etype \in Supported
  BY DEF AsRep, process_as_rep

\* What a login that can succeed has in common with the account.
LEMMA CommonFacts ==
    ASSUME case \in Cases, version \in 1 .. MaxVersion, NEW login \in Login, CanLogin(login)
    PROVE  /\ Common(login) \in Supported \cap account.etypes \cap ToSet(login.etypes)
           /\ Common(login) \in Nat \ {0}
           /\ AccountKey(Common(login)) # NoKey
           /\ AccountKey(Common(login)).etype = Common(login)
<1>1. login.etypes \in Seq(Nat)
  BY AsAssumption DEF Login
<1>2. ToSet(login.etypes) \cap (Supported \cap account.etypes) # {}
  BY DEF CanLogin
<1>3. Common(login) \in Supported \cap account.etypes \cap ToSet(login.etypes)
  BY <1>1, <1>2, FirstExists DEF Common, ToSet
<1>4. Common(login) \in Nat \ {0}
  BY <1>3, AsAssumption
<1> QED
  BY <1>3, <1>4, AccountKeys

\* The client finds the key of an answer to its probe, which may name the
\* version of the key or not.
LEMMA ReplyKeyIsRight ==
    ASSUME case \in Cases, version \in 1 .. MaxVersion, NEW login \in Login, CanLogin(login),
           ~ account.preauth \/ login.assume_preauthentication,
           NEW kvno \in {AnyKvno, version}
    PROVE  KeyFor(login.credentials, Common(login), DefaultSalt, kvno) =
              AccountKey(Common(login))
<1>1. PICK credentials : credentials = login.credentials
  OBVIOUS
<1>2. PICK etype : etype = Common(login)
  OBVIOUS
<1>3. PICK key : key = AccountKey(etype)
  OBVIOUS
<1>4. key # NoKey /\ key.version = version /\ version # AnyKvno
  BY <1>2, <1>3, CommonFacts, AccountKeys
<1>5. KeyFor(credentials, etype, account.salt, AnyKvno) = key
  BY <1>1, <1>2, <1>3 DEF CanLogin, Common
<1>6. CASE credentials.kind = "password"
  <2>1. account.salt = DefaultSalt
    BY <1>1, <1>6 DEF CanLogin
  <2> QED
    BY <1>1, <1>2, <1>3, <1>5, <1>6, <2>1 DEF KeyFor
<1>7. CASE credentials.kind # "password"
  <2>1. PICK entries : entries = credentials.entries
    OBVIOUS
  <2>2. entries \in Keytabs
    BY <1>1, <1>7, <2>1 DEF Login, Credentials
  <2>3. /\ find_key(entries, Client, "R", AnyKvno, etype).found
        /\ find_key(entries, Client, "R", AnyKvno, etype).key = key
    BY <1>4, <1>5, <1>7, <2>1 DEF KeyFor, KeytabKey
  <2>4. find_key(entries, Client, "R", kvno, etype) =
           find_key(entries, Client, "R", AnyKvno, etype)
    BY <1>4, <2>2, <2>3, SameEntry
  <2> QED
    BY <1>1, <1>2, <1>3, <1>7, <2>1, <2>3, <2>4 DEF KeyFor, KeytabKey
<1> QED
  BY <1>6, <1>7

\* What a login needs depends on the environment and the password only.
LEMMA CanLoginStays ==
    ASSUME UNCHANGED <<case, version>>, NEW login
    PROVE  /\ CanLogin(login)' <=> CanLogin(login)
           /\ Common(login)' = Common(login)
           /\ \A etype : AccountKey(etype)' = AccountKey(etype)
<1>1. account' = account
  BY DEF account
<1> QED
  BY <1>1 DEF CanLogin, Common, AccountKey

\* A login ends in an error, or with an answer.
LEMMA OrderedError ==
    ASSUME OInv, UNCHANGED <<case, version>>, NEW login, ~ CanLogin(login),
           call' = Idle, result'.status = "error", result'.login = login
    PROVE  OInv'
<1>1. call'.phase = "idle"
  BY DEF Idle
<1>2. ~ CanLogin(login)'
  BY CanLoginStays
<1>3. LoginSucceeds'
  BY <1>2 DEF LoginSucceeds, CanLogin
<1>4. NoDowngrade'
  BY DEF NoDowngrade
<1> QED
  BY <1>1, <1>3, <1>4 DEF OInv

LEMMA OrderedOk ==
    ASSUME OInv, UNCHANGED <<case, version>>, NEW login, login = call.login, NEW reply,
           Return("ok", reply),
           login.credentials.kind = "password" => reply.sealed.etype = Common(login)
    PROVE  OInv'
<1>1. /\ call'.phase = "idle" /\ result'.status = "ok" /\ result'.login = login
      /\ result'.reply = reply
  BY DEF Return, Idle
<1>2. Common(login)' = Common(login)
  BY CanLoginStays
<1>3. NoDowngrade'
  BY <1>1, <1>2 DEF NoDowngrade, Common
<1>4. LoginSucceeds'
  BY <1>1 DEF LoginSucceeds
<1> QED
  BY <1>1, <1>3, <1>4 DEF OInv

LEMMA OrderedFinish ==
    ASSUME OInv, UNCHANGED <<case, version>>, NEW login, login = call.login,
           NEW reply, NEW reply_key, Finish(reply, reply_key),
           CanLogin(login) => process_as_rep(call.request, reply, reply_key),
           process_as_rep(call.request, reply, reply_key) =>
              (login.credentials.kind = "password" => reply.sealed.etype = Common(login))
    PROVE  OInv'
<1>1. CASE process_as_rep(call.request, reply, reply_key) /\ Return("ok", reply)
  BY <1>1, OrderedOk
<1>2. CASE ~ process_as_rep(call.request, reply, reply_key) /\ Return("error", NoReply)
  <2>1. call' = Idle /\ result'.status = "error" /\ result'.login = login
    BY <1>2 DEF Return
  <2> QED
    BY <1>2, <2>1, OrderedError
<1> QED
  BY <1>1, <1>2 DEF Finish

-----------------------------------------------------------------------------
(* The actions, with a KDC in order.                                        *)

LEMMA OrderedLogin ==
    ASSUME IInv, OInv, NEW login \in Login, login_as_service(login)
    PROVE  OInv'
<1>1. UNCHANGED <<case, version>> /\ case \in Cases /\ version \in 1 .. MaxVersion
  BY DEF login_as_service, IInv, OInv
<1>2. CASE /\ ~ (/\ login.etypes # <<>>
                 /\ login.assume_preauthentication => AssumedKey(login) # NoKey)
           /\ call' = Idle
           /\ result' = [NoResult EXCEPT !.status = "error", !.login = login]
  <2>1. ASSUME CanLogin(login) PROVE FALSE
    <3>1. AccountKey(Common(login)) # NoKey /\ Common(login) \in ToSet(login.etypes)
      BY <1>1, <2>1, CommonFacts
    <3>2. login.etypes # <<>>
      BY <3>1 DEF ToSet
    <3>3. login.assume_preauthentication => AssumedKey(login) # NoKey
      BY <2>1, <3>1 DEF CanLogin, Common
    <3> QED
      BY <1>2, <3>2, <3>3
  <2>2. result'.status = "error" /\ result'.login = login
    BY <1>2 DEF NoResult
  <2> QED
    BY <1>1, <1>2, <2>1, <2>2, OrderedError
<1> DEFINE c == [Idle EXCEPT !.phase = "probe", !.login = login,
                             !.request = initial_as_req(login, nonce')]
<1>3. CASE /\ login.assume_preauthentication => AssumedKey(login) # NoKey
           /\ Send(c)
  <2>1. call' = c /\ result' = NoResult
    BY <1>3 DEF Send
  <2>2. c.phase = "probe" /\ c.login = login /\ c.request = initial_as_req(login, nonce')
    BY DEF Idle
  <2> HIDE DEF c
  <2>3. /\ initial_as_req(login, nonce').etypes = login.etypes
        /\ initial_as_req(login, nonce').timestamp_key =
              IF login.assume_preauthentication THEN AssumedKey(login) ELSE NoKey
    BY DEF initial_as_req, build_as_req, build_preauthenticated_as_req
  <2>4. /\ call'.phase = "probe" /\ call'.login = login
        /\ call'.request.etypes = login.etypes
        /\ call'.request.timestamp_key =
              IF login.assume_preauthentication THEN AssumedKey(login) ELSE NoKey
    BY <2>1, <2>2, <2>3
  <2>5. OrderedCall'
    BY <1>3, <2>4 DEF OrderedCall
  <2>6. result'.status = "none"
    BY <2>1 DEF NoResult
  <2> QED
    BY <1>1, <2>5, <2>6 DEF OInv, NoDowngrade, LoginSucceeds
<1> QED
  BY <1>2, <1>3 DEF login_as_service

\* An answer to the probe that is an AS-REP.
LEMMA OrderedProbe ==
    ASSUME IInv, OInv, OrderedCall, UNCHANGED <<case, version>>, call.phase = "probe",
           NEW reply \in Answers(call.request), reply.type = "as-rep",
           Finish(reply, InitialReplyKey(reply))
    PROVE  OInv'
<1>1. PICK login : login = call.login
  OBVIOUS
<1>2. PICK request : request = call.request
  OBVIOUS
<1>3. PICK offered : offered = ToSet(request.etypes) \cap account.etypes
  OBVIOUS
<1>4. PICK key : key = request.timestamp_key
  OBVIOUS
<1>5. /\ case \in Cases /\ version \in 1 .. MaxVersion /\ login \in Login
      /\ login.etypes \in Seq(Nat) /\ request.etypes = login.etypes
  BY <1>1, <1>2, AsAssumption DEF IInv, CallInv, OInv, OrderedCall, Login
<1>6. IF login.assume_preauthentication THEN AssumedKey(login) # NoKey /\ key = AssumedKey(login)
      ELSE key = NoKey
  BY <1>1, <1>2, <1>4 DEF OrderedCall
<1>7. InitialReplyKey(reply) = KeyFor(login.credentials, reply.etype, DefaultSalt, reply.kvno)
  BY <1>1 DEF InitialReplyKey
<1>8. ASSUME NEW kvno \in {AnyKvno, version}, NEW flag \in BOOLEAN,
             offered # {}, key = NoKey, ~ account.preauth,
             reply = AsRep(request, AccountKey(First(request.etypes, offered)), kvno, flag)
      PROVE  OInv'
  <2>1. PICK etype : etype = First(request.etypes, offered)
    OBVIOUS
  <2>2. ToSet(login.etypes) \cap offered # {}
    BY <1>3, <1>5, <1>8
  <2>3. etype \in offered /\ etype \in Nat
    BY <1>5, <2>1, <2>2, FirstExists
  <2>4. First(login.etypes, account.etypes) = etype
    <3>1. etype \in account.etypes /\ account.etypes \cap ToSet(login.etypes) \subseteq offered
      BY <1>3, <1>5, <2>3
    <3> QED
      BY <1>5, <2>1, <2>2, <3>1, FirstWithin
  <2>5. AccountKey(etype) # NoKey /\ AccountKey(etype).etype = etype
    BY <1>5, <2>3, AccountKeys
  <2>6. /\ reply.etype = etype /\ reply.kvno = kvno /\ reply.sealed = AccountKey(etype)
        /\ \A k : process_as_rep(request, reply, k) <=> k = AccountKey(etype) /\ etype \in Supported
    BY <1>8, <2>1, <2>5, AsRepTaken
  <2>7. CanLogin(login) => process_as_rep(request, reply, InitialReplyKey(reply))
    <3>1. SUFFICES ASSUME CanLogin(login)
                   PROVE  process_as_rep(request, reply, InitialReplyKey(reply))
      OBVIOUS
    <3>2. Common(login) = etype
      BY <1>8, <2>4, <3>1 DEF CanLogin, Common
    <3>3. etype \in Supported
      BY <1>5, <3>1, <3>2, CommonFacts
    <3>4. KeyFor(login.credentials, etype, DefaultSalt, kvno) = AccountKey(etype)
      BY <1>5, <1>8, <3>1, <3>2, ReplyKeyIsRight
    <3> QED
      BY <1>7, <2>6, <3>3, <3>4
  <2>8. process_as_rep(request, reply, InitialReplyKey(reply)) =>
           reply.sealed.etype = Common(login)
    <3>1. SUFFICES ASSUME etype \in Supported PROVE etype = Common(login)
      BY <2>5, <2>6
    <3>2. /\ First(login.etypes, account.etypes) \in Supported \cap account.etypes
          /\ (Supported \cap account.etypes) \cap ToSet(login.etypes) \subseteq account.etypes
          /\ ToSet(login.etypes) \cap account.etypes # {}
      BY <1>3, <1>5, <1>8, <2>3, <2>4, <3>1
    <3> QED
      BY <1>5, <2>4, <3>2, FirstWithin DEF Common
  <2> QED
    BY <1>1, <1>2, <2>7, <2>8, OrderedFinish
<1>9. ASSUME NEW kvno \in {AnyKvno, version}, NEW flag \in BOOLEAN,
             key # NoKey, key.etype \in offered, key = AccountKey(key.etype),
             reply = AsRep(request, key, kvno, flag)
      PROVE  OInv'
  <2>1. login.assume_preauthentication /\ key = AssumedKey(login)
    BY <1>6, <1>9
  <2>2. PICK etype : etype = key.etype
    OBVIOUS
  <2>3. /\ reply.etype = etype /\ reply.kvno = kvno /\ reply.sealed = key
        /\ \A k : process_as_rep(request, reply, k) <=> k = key /\ etype \in Supported
    BY <1>9, <2>2, AsRepTaken
  <2>4. CanLogin(login) => process_as_rep(request, reply, InitialReplyKey(reply))
    <3>1. SUFFICES ASSUME CanLogin(login)
                   PROVE  process_as_rep(request, reply, InitialReplyKey(reply))
      OBVIOUS
    <3>2. key = AccountKey(Common(login))
      BY <2>1, <3>1 DEF CanLogin, Common
    <3>3. etype = Common(login) /\ etype \in Supported
      BY <1>5, <2>2, <3>1, <3>2, CommonFacts
    <3>4. KeyFor(login.credentials, etype, DefaultSalt, kvno) = key
      BY <1>5, <2>1, <3>1, <3>2, <3>3, ReplyKeyIsRight
    <3> QED
      BY <1>7, <2>3, <3>3, <3>4
  <2>5. login.credentials.kind = "password" => reply.sealed.etype = Common(login)
    <3>1. SUFFICES ASSUME login.credentials.kind = "password" PROVE etype = Common(login)
      BY <2>2, <2>3
    <3>2. ToSet(login.etypes) \cap Supported # {} /\ etype = First(login.etypes, Supported)
      BY <1>5, <1>9, <2>1, <2>2, <3>1, AssumedEtype
    <3>3. etype \in Supported
      BY <1>5, <3>2, FirstExists
    <3>4. /\ First(login.etypes, Supported) \in Supported \cap account.etypes
          /\ (Supported \cap account.etypes) \cap ToSet(login.etypes) \subseteq Supported
      BY <1>3, <1>9, <2>2, <3>2, <3>3
    <3> QED
      BY <1>5, <3>2, <3>4, FirstWithin DEF Common
  <2> QED
    BY <1>1, <1>2, <2>4, <2>5, OrderedFinish
<1>10. reply \in Answers(request) /\ reply.type # "error"
  BY <1>2
<1>11. \/ /\ offered # {} /\ key = NoKey /\ ~ account.preauth
          /\ AsRepWith(reply, request, AccountKey(First(request.etypes, offered)))
       \/ /\ key # NoKey /\ key.etype \in offered /\ key = AccountKey(key.etype)
          /\ AsRepWith(reply, request, key)
  BY ONLY <1>3, <1>4, <1>5, <1>10, AnswerCases
<1>12. CASE /\ offered # {} /\ key = NoKey /\ ~ account.preauth
            /\ AsRepWith(reply, request, AccountKey(First(request.etypes, offered)))
  BY <1>8, <1>12 DEF AsRepWith
<1>13. CASE /\ key # NoKey /\ key.etype \in offered /\ key = AccountKey(key.etype)
            /\ AsRepWith(reply, request, key)
  BY <1>9, <1>13 DEF AsRepWith
<1> QED
  BY <1>11, <1>12, <1>13

\* An answer that is an error means that the login lacks something, unless it
\* asks for preauthentication.
LEMMA RefusalIsDue ==
    ASSUME case \in Cases, version \in 1 .. MaxVersion, NEW login \in Login,
           NEW request, request.etypes = login.etypes,
           NEW key, key = request.timestamp_key,
           CanLogin(login) /\ key # NoKey => key = AccountKey(Common(login)),
           NEW reply \in Answers(request), reply.type = "error",
           reply.code # PREAUTH_REQUIRED
    PROVE  ~ CanLogin(login)
<1>1. SUFFICES ASSUME CanLogin(login) PROVE FALSE
  OBVIOUS
<1>2. PICK offered : offered = ToSet(request.etypes) \cap account.etypes
  OBVIOUS
<1>3. Common(login) \in offered /\ AccountKey(Common(login)).etype = Common(login)
  BY <1>1, <1>2, CommonFacts
<1>4. \A k, kvno, flag : AsRep(request, k, kvno, flag).type = "as-rep"
  BY DEF AsRep
<1>5. \A k : ~ AsRepWith(reply, request, k)
  BY <1>4 DEF AsRepWith
<1>6. key # NoKey /\ (key.etype \notin offered \/ key # AccountKey(key.etype))
  BY <1>2, <1>3, <1>5, AnswerCases
<1> QED
  BY <1>1, <1>3, <1>6

\* An answer to the probe that is an error.
LEMMA OrderedPreauth ==
    ASSUME IInv, OInv, OrderedCall, UNCHANGED <<case, version>>, call.phase = "probe",
           NEW reply \in Answers(call.request), reply.type = "error", PreauthRequest(reply)
    PROVE  OInv'
<1>1. PICK login : login = call.login
  OBVIOUS
<1>2. PICK request : request = call.request
  OBVIOUS
<1>3. PICK offered : offered = ToSet(request.etypes) \cap account.etypes
  OBVIOUS
<1>4. PICK hints : hints = preauth_key_info(reply)
  OBVIOUS
<1>5. PICK info : info = select_preauth_key_info(hints, login.etypes)
  OBVIOUS
<1>6. PICK key : key = KeyFor(login.credentials, info.etype, info.salt, AnyKvno)
  OBVIOUS
<1>7. /\ case \in Cases /\ version \in 1 .. MaxVersion /\ login \in Login
      /\ login.credentials \in Credentials
      /\ login.etypes \in Seq(Nat) /\ request.etypes = login.etypes
      /\ DOMAIN call = DOMAIN Idle
  BY <1>1, <1>2, AsAssumption DEF IInv, CallInv, OInv, OrderedCall, Login
<1>8. IF login.assume_preauthentication
      THEN AssumedKey(login) # NoKey /\ request.timestamp_key = AssumedKey(login)
      ELSE request.timestamp_key = NoKey
  BY <1>1, <1>2 DEF OrderedCall
<1>9. CanLogin(login) /\ request.timestamp_key # NoKey =>
         request.timestamp_key = AccountKey(Common(login))
  BY <1>8 DEF CanLogin, Common
<1>10. reply.code # PREAUTH_REQUIRED => ~ CanLogin(login)
  BY <1>2, <1>7, <1>9, RefusalIsDue
<1>11. ASSUME reply.code = PREAUTH_REQUIRED
       PROVE  IF ToSet(login.etypes) \cap (Supported \cap account.etypes) # {}
              THEN info.etype = Common(login) /\ info.salt = account.salt
              ELSE info.etype = 0
  <2>1. offered # {} /\ hints \in Hints(request)
    <3>1. \A k, kvno, flag : AsRep(request, k, kvno, flag).type = "as-rep"
      BY DEF AsRep
    <3>2. \A k : ~ AsRepWith(reply, request, k)
      BY <3>1 DEF AsRepWith
    <3>3. ETYPE_NOSUPP # PREAUTH_REQUIRED /\ PREAUTH_FAILED # PREAUTH_REQUIRED
      BY DEF ETYPE_NOSUPP, PREAUTH_FAILED, PREAUTH_REQUIRED
    <3>4. PICK k : k = request.timestamp_key
      OBVIOUS
    <3> QED
      BY <1>2, <1>3, <1>4, <1>7, <1>11, <3>2, <3>3, <3>4, AnswerCases
  <2>2. /\ {hints[i].etype : i \in DOMAIN hints} = offered
        /\ \A i \in DOMAIN hints : hints[i].salt = account.salt
        /\ hints # <<>> /\ DOMAIN hints \subseteq Nat
    BY <1>3, <1>7, <2>1, HintFacts
  <2>3. PICK theirs : theirs = account.etypes
    OBVIOUS
  <2>4. PICK salt : salt = account.salt
    OBVIOUS
  <2>5. {hints[i].etype : i \in DOMAIN hints} = ToSet(login.etypes) \cap theirs
    BY <1>3, <1>7, <2>2, <2>3
  <2>6. \A i \in DOMAIN hints : hints[i].salt = salt
    BY <2>2, <2>4
  <2>7. HintsFor(hints, login.etypes, theirs, salt)
    BY <2>2, <2>5, <2>6 DEF HintsFor
  <2>8. Selection(info, login.etypes, theirs, salt)
    BY <1>5, <1>7, <2>7, SelectsFirst
  <2> QED
    BY <2>3, <2>4, <2>8 DEF Selection, Common
<1>12. ASSUME reply.code = PREAUTH_REQUIRED, CanLogin(login)
       PROVE  info.etype # 0 /\ key # NoKey /\ key = AccountKey(Common(login))
  <2>1. ToSet(login.etypes) \cap (Supported \cap account.etypes) # {}
    BY <1>12 DEF CanLogin
  <2>2. info.etype = Common(login) /\ info.salt = account.salt
    BY <1>11, <1>12, <2>1
  <2>3. key = AccountKey(Common(login))
    BY <1>6, <1>12, <2>2 DEF CanLogin, Common
  <2>4. Common(login) # 0 /\ AccountKey(Common(login)) # NoKey
    BY <1>7, <1>12, CommonFacts
  <2> QED
    BY <2>2, <2>3, <2>4
<1> DEFINE c == [call EXCEPT !.phase = "preauth", !.reply_key = key,
                             !.request =
                                build_preauthenticated_as_req(call.login, nonce, 2, key)]
<1>13. \/ /\ reply.code # PREAUTH_REQUIRED \/ info.etype = 0 \/ key = NoKey
          /\ Return("error", NoReply)
       \/ reply.code = PREAUTH_REQUIRED /\ info.etype # 0 /\ key # NoKey /\ Send(c)
  BY <1>1, <1>4, <1>5, <1>6 DEF PreauthRequest
<1>14. CASE /\ reply.code # PREAUTH_REQUIRED \/ info.etype = 0 \/ key = NoKey
            /\ Return("error", NoReply)
  <2>1. ~ CanLogin(login)
    BY <1>10, <1>12, <1>14
  <2>2. call' = Idle /\ result'.status = "error" /\ result'.login = login
    BY <1>1, <1>14 DEF Return
  <2> QED
    BY <2>1, <2>2, OrderedError
<1>15. CASE reply.code = PREAUTH_REQUIRED /\ info.etype # 0 /\ key # NoKey /\ Send(c)
  <2>1. call' = c /\ result' = NoResult
    BY <1>15 DEF Send
  <2>2. /\ c.phase = "preauth" /\ c.login = login /\ c.reply_key = key
        /\ c.request = build_preauthenticated_as_req(login, nonce, 2, key)
    BY <1>1, <1>7 DEF Idle
  <2> HIDE DEF c
  <2>3. /\ build_preauthenticated_as_req(login, nonce, 2, key).etypes = login.etypes
        /\ build_preauthenticated_as_req(login, nonce, 2, key).timestamp_key = key
    BY DEF build_as_req, build_preauthenticated_as_req
  <2>4. /\ call'.phase = "preauth" /\ call'.login = login /\ call'.reply_key = key
        /\ call'.request.etypes = login.etypes /\ call'.request.timestamp_key = key
    BY <2>1, <2>2, <2>3
  <2>5. login.credentials.kind = "password" => key.etype = Common(login)
    <3>1. info.etype = Common(login)
      BY <1>11, <1>15
    <3> QED
      BY <1>6, <1>7, <1>15, <3>1, PasswordKeys
  <2>6. CanLogin(login)' => key = AccountKey(Common(login))'
    <3>1. CanLogin(login) => key = AccountKey(Common(login))
      BY <1>12, <1>15
    <3>2. PICK etype : etype = Common(login)
      OBVIOUS
    <3> QED
      BY <3>1, <3>2, CanLoginStays
  <2>7. login.credentials.kind = "password" => key.etype = Common(login)'
    BY <2>5, CanLoginStays
  <2>8. OrderedCall'
    BY <1>15, <2>4, <2>6, <2>7 DEF OrderedCall
  <2>9. result'.status = "none"
    BY <2>1 DEF NoResult
  <2> QED
    BY <1>7, <2>8, <2>9 DEF OInv, NoDowngrade, LoginSucceeds
<1> QED
  BY <1>13, <1>14, <1>15

\* An answer to the preauthenticated request.
LEMMA OrderedAnswer ==
    ASSUME IInv, OInv, OrderedCall, UNCHANGED <<case, version>>, call.phase = "preauth",
           NEW reply \in Answers(call.request), Finish(reply, call.reply_key)
    PROVE  OInv'
<1>1. PICK login : login = call.login
  OBVIOUS
<1>2. PICK request : request = call.request
  OBVIOUS
<1>3. PICK offered : offered = ToSet(request.etypes) \cap account.etypes
  OBVIOUS
<1>4. PICK key : key = call.reply_key
  OBVIOUS
<1>5. /\ case \in Cases /\ version \in 1 .. MaxVersion /\ login \in Login
      /\ request.etypes = login.etypes
  BY <1>1, <1>2 DEF IInv, CallInv, OInv, OrderedCall
<1>6. /\ request.timestamp_key = key /\ key # NoKey
      /\ login.credentials.kind = "password" => key.etype = Common(login)
      /\ CanLogin(login) => key = AccountKey(Common(login))
  BY <1>1, <1>2, <1>4 DEF OrderedCall
<1>7. \/ reply.type = "error" /\ reply.code # PREAUTH_REQUIRED
      \/ AsRepWith(reply, request, key)
  <2>1. ETYPE_NOSUPP # PREAUTH_REQUIRED /\ PREAUTH_FAILED # PREAUTH_REQUIRED
    BY DEF ETYPE_NOSUPP, PREAUTH_FAILED, PREAUTH_REQUIRED
  <2> QED
    BY <1>2, <1>3, <1>5, <1>6, <2>1, AnswerCases
<1>8. CASE reply.type = "error" /\ reply.code # PREAUTH_REQUIRED
  <2>1. ~ CanLogin(login)
    BY <1>2, <1>5, <1>6, <1>8, RefusalIsDue
  <2>2. ~ process_as_rep(call.request, reply, call.reply_key)
    BY <1>8 DEF process_as_rep
  <2> QED
    BY <1>1, <2>1, <2>2, OrderedFinish
<1>9. CASE AsRepWith(reply, request, key)
  <2>1. PICK kvno \in {AnyKvno, version}, flag \in BOOLEAN : reply = AsRep(request, key, kvno, flag)
    BY <1>9 DEF AsRepWith
  <2>2. /\ reply.sealed = key
        /\ process_as_rep(request, reply, key) <=> key # NoKey /\ key.etype \in Supported
    BY <2>1, AsRepTaken
  <2>3. CanLogin(login) => key.etype \in Supported
    BY <1>5, <1>6, CommonFacts
  <2> QED
    BY <1>1, <1>2, <1>4, <1>6, <2>2, <2>3, OrderedFinish
<1> QED
  BY <1>7, <1>8, <1>9

\* OInv is inductive, next to IInv.
LEMMA StepOInv ==
    ASSUME IInv, OInv, [Next]_vars
    PROVE  OInv'
<1>1. CASE \E login \in case.logins : login_as_service(login)
  <2>1. case.logins \subseteq Login
    BY CasesAssumption DEF IInv, Case
  <2> QED
    BY <1>1, <2>1, OrderedLogin
<1>2. CASE /\ case.in_order /\ call.phase # "idle"
           /\ \E reply \in Answers(call.request) : Receive(reply)
  <2>1. PICK reply \in Answers(call.request) : Receive(reply)
    BY <1>2
  <2>2. OrderedCall /\ UNCHANGED <<case, version>>
    BY <1>2, <2>1 DEF OInv, Receive
  <2>3. CASE /\ call.phase = "probe" /\ reply.type = "as-rep"
             /\ Finish(reply, InitialReplyKey(reply))
    BY <2>2, <2>3, OrderedProbe
  <2>4. CASE call.phase = "probe" /\ reply.type = "error" /\ PreauthRequest(reply)
    BY <2>2, <2>4, OrderedPreauth
  <2>5. CASE call.phase = "preauth" /\ Finish(reply, call.reply_key)
    BY <2>2, <2>5, OrderedAnswer
  <2> QED
    BY <2>1, <2>3, <2>4, <2>5 DEF Receive
<1>3. CASE /\ ~ case.in_order
           /\ \/ \E reply \in replies : Receive(reply)
              \/ Fail
              \/ Serve
              \/ ChangePassword
  <2>1. /\ case' = case
        /\ \/ version' = version
           \/ version < MaxVersion /\ version' = version + 1
    BY <1>3 DEF Receive, Fail, Serve, ChangePassword
  <2>2. version' \in 1 .. MaxVersion
    BY <2>1, AsAssumption DEF OInv
  <2> QED
    BY <1>3, <2>1, <2>2 DEF OInv
<1>4. CASE UNCHANGED vars
  <2>1. UNCHANGED <<case, version, call, result>>
    BY <1>4 DEF vars
  <2> QED
    BY <2>1 DEF OInv, OrderedCall, NoDowngrade, LoginSucceeds, CanLogin, Common, AccountKey,
                account
<1> QED
  BY <1>1, <1>2, <1>3, <1>4 DEF Next

THEOREM OrderedInvariance == Spec => []OInv
<1>1. Init => OInv
  BY DEF Init, OInv, Idle, NoResult, NoDowngrade, LoginSucceeds
<1>2. IInv /\ OInv /\ [Next]_vars => OInv'
  BY StepOInv
<1> QED
  BY <1>1, <1>2, Invariance, PTL DEF Spec

\* With a KDC in order, a login with a password that succeeds has used the
\* first enctype of its list that both sides have, in whatever order the KDC
\* gives its hints and whether preauthentication was assumed, asked for or not
\* needed (client.rs, select_preauth_key_info and assumed_preauth_key_info).
THEOREM LoginsAreNotDowngraded == Spec => []NoDowngrade
<1>1. OInv => NoDowngrade
  BY DEF OInv, NoDowngrade
<1> QED
  BY <1>1, OrderedInvariance, PTL

\* With a KDC in order, a login whose credentials have the account's current
\* key for the first common enctype succeeds (client.rs,
\* password_preauth_request and keytab_preauth_request).
THEOREM LoginsSucceed == Spec => []LoginSucceeds
<1>1. OInv => LoginSucceeds
  BY DEF OInv, LoginSucceeds
<1> QED
  BY <1>1, OrderedInvariance, PTL
=============================================================================
