--------------------------- MODULE PasswordChange ---------------------------
(***************************************************************************)
(* Password changes of one client (TokioClient::change_password and its     *)
(* variants): a login for a ticket to kadmin/changepw, the request, which   *)
(* the transport sends to one server after another, and the check of the    *)
(* answer, after which the client replaces its own password.                *)
(*                                                                          *)
(* The password servers share a database and have a replay cache each.      *)
(* Requests and replies may be lost, repeated and late, KRB-ERRORs, which   *)
(* nothing protects, may say anything, and the caller may drop the call at  *)
(* any await.  Calls of one client follow one another, since they take it   *)
(* by mutable reference, but may read the same time from the clock.         *)
(***************************************************************************)
EXTENDS Kpasswd, FiniteSets

CONSTANTS Servers,      \* password servers of the realm
          Passwords,
          InitialPassword,
          Me, MeOtherType, Other, \* principals; the second is Me with another name type
          Configs,      \* [credentials, troubled, subkeys, targets]
          Skew,
          MaxCalls, MaxTries, MaxTime   \* bounds

ASSUME ChangeAssumption ==
    /\ InitialPassword \in Passwords
    /\ Me # Other /\ MeOtherType \notin {Me, Other}
    /\ \A c \in Configs : c.troubled \in BOOLEAN /\ c.targets \subseteq {Me, MeOtherType, Other}
    /\ Skew \in Nat /\ MaxCalls \in Nat /\ MaxTries \in Nat /\ MaxTime \in Nat

\* Nil stands for no message and for no code.
ASSUME NilAssumption ==
    /\ Nil \notin Int
    /\ Nil \notin [type : {"KRB-ERROR"}, e_data : Int \cup {Nil}]
    /\ Nil \notin [type : {"AP-REP"}, key : {"session"} \X Nat,
                   subkey : ({"subkey"} \X Servers \X Nat) \cup {Nil}, time : Int]

VARIABLES config,
          clock,
          passwords,   \* the realm's database: Me and Other, whatever name type
          credential,  \* the password or key of the client, Nil without
          number,      \* of the current call
          call,        \* the current call
          requests,    \* under way: <<server, call, frame>>
          replies,     \* under way: <<call, frame>>
          seen,        \* replay caches: <<server, timestamp>>
          answers,     \* history: <<call, code>> that servers gave under an AP-REP
          causes,      \* history: why the client's password may be out of date
          results      \* history: what the calls returned

vars == <<config, clock, passwords, credential, number, call, requests, replies,
          seen, answers, causes, results>>
serverVars == <<passwords, seen, answers>>
networkVars == <<requests, replies>>

Targets == {Me, MeOtherType, Other}

\* The principal in the database: name types do not matter to it.
Account(target) == IF target = MeOtherType THEN Me ELSE target

Idle == [pc |-> "idle"]

-----------------------------------------------------------------------------
(* The client.                                                              *)

\* change_password reads the clock before anything else, once for the
\* authenticator and the change.  Nothing keeps two calls from reading the
\* same microsecond.
change_password_for(target, new_password) ==
    /\ call = Idle /\ number < MaxCalls
    /\ number' = number + 1
    /\ call' = [pc |-> "login", target |-> target, new |-> new_password,
                timestamp |-> clock, request |-> Nil, tries |-> 0,
                update |-> target = Me /\ config.credentials = "password"]
    /\ UNCHANGED <<config, clock, credential, serverVars, networkVars, causes, results>>

\* The call ends.
Return(result) ==
    /\ call' = Idle
    /\ results' = results \cup {<<number, result>>}
    /\ causes' = causes
         \cup (IF result = "claimed" /\ Account(call.target) = Me THEN {"claimed"} ELSE {})
         \cup (IF /\ Account(call.target) = Me /\ result \notin {"ok", "claimed"}
                  /\ call.tries > (IF result = "refused" THEN 1 ELSE 0)
               THEN {"failed"} ELSE {})
         \cup (IF result = "ok" /\ call.target = MeOtherType THEN {"name type"} ELSE {})

\* The ticket: by an AS exchange for the password or the keytab, by
\* get_service_ticket without them.  Then the request is built.
LoginOk ==
    /\ call.pc = "login"
    /\ config.credentials # "none" => credential = passwords[Me]
    /\ LET ticket == IF config.credentials = "none"
                     THEN [key |-> <<"session", 0>>, initial |-> FALSE]
                     ELSE [key |-> <<"session", number>>, initial |-> TRUE]
       IN  call' = [call EXCEPT !.pc = "send",
                      !.request = build_kpasswd_request(ticket,
                          ChangePasswdData(call.new, call.target),
                          <<"reply", number>>, call.timestamp)]
    /\ UNCHANGED <<config, clock, credential, number, serverVars, networkVars, causes,
                   results>>

LoginFails ==
    /\ call.pc = "login"
    /\ config.troubled \/ credential # passwords[Me]
    /\ Return("error")
    /\ UNCHANGED <<config, clock, credential, number, serverVars, networkVars>>

\* The transport sends the frame to a server, the first or the next one.
Send(s) ==
    /\ call.pc = "send" /\ call.tries < MaxTries
    /\ requests' = requests \cup {<<s, number, EncodeRequest(call.request)>>}
    /\ call' = [call EXCEPT !.pc = "wait", !.tries = @ + 1]
    /\ UNCHANGED <<config, clock, credential, number, serverVars, replies, causes, results>>

\* No answer in time, or none can be sent for.
AttemptFails ==
    /\ config.troubled
    /\ call.pc = "wait"
    /\ call' = [call EXCEPT !.pc = "send"]
    /\ UNCHANGED <<config, clock, credential, number, serverVars, networkVars, causes,
                   results>>

Exhausted ==
    /\ config.troubled
    /\ call.pc = "send"
    /\ Return("error")
    /\ UNCHANGED <<config, clock, credential, number, serverVars, networkVars>>

\* An answer, after which the client replaces its password.
\* A bug: it does so before it looks at the result.
FinishEarly(outcome) ==
    /\ Return(outcome)
    /\ credential' = IF call.update THEN call.new ELSE credential
Finish(outcome) ==
    /\ Return(outcome)
    /\ credential' = IF outcome \in {"ok", "claimed"} /\ call.update THEN call.new
                     ELSE credential

Receive(frame) ==
    /\ call.pc = "wait"
    /\ Finish(Outcome(frame, call.request))
    /\ UNCHANGED <<config, clock, number, serverVars, networkVars>>

\* The caller drops the future.
Cancel ==
    /\ config.troubled
    /\ call # Idle
    /\ Return("cancelled")
    /\ UNCHANGED <<config, clock, credential, number, serverVars, networkVars>>

-----------------------------------------------------------------------------
(* The servers and the network.                                             *)

ErrorReply(code) == EncodeReply([ap_rep |-> Nil, krb_priv |-> Nil,
                                 krb_error |-> KrbError(code)])

\* What a KRB-ERROR may say: any result, success too, or nothing.
ErrorCodes == {KPASSWD_SUCCESS, KPASSWD_AUTHERROR, KPASSWD_SOFTERROR, Nil}

\* Replies that reach a waiting call.  In trouble they are those of every
\* call, cut short or of another version too, and KRB-ERRORs.
Arriving ==
    IF config.troubled
    THEN {r[2] : r \in replies}
         \cup {[r[2] EXCEPT !.message_length = @ - 1] : r \in replies}
         \cup {[r[2] EXCEPT !.version = 2] : r \in replies}
         \cup {ErrorReply(code) : code \in ErrorCodes}
    ELSE {r[2] : r \in {q \in replies : q[1] = number}}

Fresh(s, ap_req) == /\ <<s, ap_req.time>> \notin seen
                    /\ clock - ap_req.time <= Skew

\* The answer to a request, under a subkey of the server's choice or not.
Answer(s, q, ap_req, code) ==
    LET subkey == IF config.subkeys THEN <<"subkey", s, q[2]>> ELSE Nil
        key == IF subkey = Nil THEN ap_req.subkey ELSE subkey
    IN  /\ replies' = replies \cup
               {<<q[2], EncodeReply([ap_rep |-> ApRep(ap_req.ticket.key, subkey, ap_req.time),
                                     krb_priv |-> build_krb_priv(code, key),
                                     krb_error |-> Nil])>>}
        /\ seen' = seen \cup {<<s, ap_req.time>>}
        /\ answers' = answers \cup {<<q[2], code>>}

\* A password server as RFC 3244 describes it, which answers a replay and a
\* stale request with a KRB-ERROR.
ServerHandles(q) ==
    LET s == q[1]
        request == ParseRequest(q[3])
        ap_req == request.ap_req
        change == decrypt_krb_priv_enc_part(request.krb_priv, ap_req.subkey)
        fresh == Fresh(s, ap_req)
        account == Account(change.target)
    IN  /\ config.troubled \/ \A r \in replies : r[1] # q[2]
        /\ \/ /\ ~ fresh
              /\ replies' = replies \cup {<<q[2], ErrorReply(KPASSWD_AUTHERROR)>>}
              /\ UNCHANGED <<passwords, seen, answers, causes>>
           \/ /\ fresh
              /\ \/ /\ ~ ap_req.ticket.initial
                    /\ Answer(s, q, ap_req, KPASSWD_INITIAL_FLAG_NEEDED)
                    /\ UNCHANGED <<passwords, causes>>
                 \/ /\ ap_req.ticket.initial /\ account # Me
                    /\ Answer(s, q, ap_req, KPASSWD_ACCESSDENIED)
                    /\ UNCHANGED <<passwords, causes>>
                 \/ \* a password the policy does not like
                    /\ ap_req.ticket.initial /\ account = Me /\ config.troubled
                    /\ Answer(s, q, ap_req, KPASSWD_SOFTERROR)
                    /\ UNCHANGED <<passwords, causes>>
                 \/ /\ ap_req.ticket.initial /\ account = Me
                    /\ passwords' = [passwords EXCEPT ![account] = change.new_passwd]
                    /\ Answer(s, q, ap_req, KPASSWD_SUCCESS)
                    /\ causes' = IF call # Idle /\ q[2] = number THEN causes
                                 ELSE causes \cup {"late"}
        /\ UNCHANGED <<config, clock, credential, number, call, requests, results>>

\* Somebody else changes the password (bound: once).
OtherChange(p) ==
    /\ config.troubled /\ "other" \notin causes
    /\ passwords' = [passwords EXCEPT ![Me] = p]
    /\ causes' = causes \cup {"other"}
    /\ UNCHANGED <<config, clock, credential, number, call, networkVars, seen, answers,
                   results>>

Overdue == ~ config.troubled /\ call # Idle /\ clock - call.timestamp >= Skew

\* In order, a call does not take longer than the skew.
Tick ==
    /\ clock < MaxTime
    /\ ~ Overdue
    /\ clock' = clock + 1
    /\ UNCHANGED <<config, credential, number, call, serverVars, networkVars, causes, results>>

-----------------------------------------------------------------------------

Init ==
    /\ config \in Configs
    /\ clock = 0
    /\ passwords = [a \in {Me, Other} |-> InitialPassword]
    /\ credential = IF config.credentials = "none" THEN Nil ELSE InitialPassword
    /\ number = 0
    /\ call = Idle
    /\ requests = {} /\ replies = {} /\ seen = {}
    /\ answers = {} /\ causes = {} /\ results = {}

Next ==
    \/ \E t \in config.targets, p \in Passwords \ {InitialPassword} :
          change_password_for(t, p)
    \/ LoginOk \/ LoginFails
    \/ \E s \in Servers : Send(s)
    \/ AttemptFails \/ Exhausted \/ Cancel
    \/ \E frame \in Arriving : Receive(frame)
    \/ \E q \in requests : ServerHandles(q)
    \/ \E p \in Passwords : OtherChange(p)
    \/ Tick

Spec == Init /\ [][Next]_vars

-----------------------------------------------------------------------------

TypeOK ==
    /\ config \in Configs
    /\ clock \in 0 .. MaxTime /\ number \in 0 .. MaxCalls
    /\ passwords \in [{Me, Other} -> Passwords]
    /\ credential \in Passwords \cup {Nil}
    /\ call = Idle \/ /\ call.pc \in {"login", "send", "wait"}
                      /\ call.target \in Targets /\ call.new \in Passwords
                      /\ call.timestamp \in 0 .. clock
                      /\ call.tries \in 0 .. MaxTries
    /\ causes \subseteq {"failed", "late", "other", "name type", "claimed"}
    /\ results \subseteq (1 .. MaxCalls)
                          \X {"ok", "claimed", "refused", "denied", "error", "cancelled"}

\* Requests of two calls that read the same time.
Clash(q, p) == q[2] # p[2] /\ q[3].body[1].time = p[3].body[1].time
DistinctTimes == \A q, p \in requests : ~ Clash(q, p)

\* Success or a refusal under an AP-REP is what a server answered to this very
\* call, although answers to earlier calls arrive, under the same session key
\* if the ticket came from the cache (verify_kpasswd_ap_rep), unless the call
\* read the same time as another one: the time is all that an AP-REP returns
\* of a request.  Nothing is said of calls that end with "claimed": a
\* KRB-ERROR is bound to no call and needs no key, and the success that one
\* claims is taken all the same.
ResultIsOurs ==
    \A r \in results :
        \/ \E q, p \in requests : q[2] = r[1] /\ Clash(q, p)
        \/ /\ r[2] = "ok" => <<r[1], KPASSWD_SUCCESS>> \in answers
           /\ r[2] = "refused" => \E code \in {KPASSWD_SOFTERROR, KPASSWD_ACCESSDENIED,
                                               KPASSWD_INITIAL_FLAG_NEEDED} :
                                     <<r[1], code>> \in answers

\* Between calls the password that the client keeps is the one in the database
\* unless a call failed after it had sent its request (a refusal counts only
\* if the request was sent before to a server that may have carried it out), a
\* request of a call that was over was carried out, somebody else changed the
\* password, the call named the client with another name type, a KRB-ERROR
\* claimed success, which replaces the client's password as a protected answer
\* does, or two calls read the same time.
CredentialInStep ==
    call = Idle /\ config.credentials = "password" /\ credential # passwords[Me]
        => causes # {} \/ ~ DistinctTimes

\* With a server that answers and a caller that waits, a change of the own
\* password with valid credentials succeeds, whether or not the server chooses
\* a subkey for its answer.  Two changes within a microsecond are excepted: a
\* server takes the second for a replay of the first.
ChangeSucceeds ==
    ~ config.troubled /\ config.credentials = "password" /\ causes = {} /\ DistinctTimes =>
        \A r \in results : r[2] # "error" /\ r[2] # "denied"
                           /\ (<<r[1], KPASSWD_SUCCESS>> \in answers => r[2] = "ok")
=============================================================================
