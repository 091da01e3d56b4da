------------------------ MODULE PasswordChangeProofs ------------------------
(***************************************************************************)
(* Password changes, for any servers, passwords, configurations and number  *)
(* of calls: which answer a call reports, when the client's password is the *)
(* one in the database, and what a call comes to where nothing goes wrong.  *)
(***************************************************************************)
EXTENDS PasswordChange, SequenceTheorems, TLAPS

-----------------------------------------------------------------------------
(* The inductive invariant.                                                 *)

Codes == {KPASSWD_SUCCESS, KPASSWD_SOFTERROR, KPASSWD_ACCESSDENIED,
          KPASSWD_INITIAL_FLAG_NEEDED}

\* The AP-REQ and the change in a request under way.
ReqOf(q) == ParseRequest(q[3]).ap_req
ChangeOf(q) == ParseRequest(q[3]).krb_priv

\* Requests of the current call.
Ours(q) == call # Idle /\ q[2] = number

StateInv ==
    /\ config \in Configs
    /\ clock \in Int
    /\ number \in Nat
    /\ passwords \in [{Me, Other} -> Passwords]
    /\ answers \subseteq (1 .. number) \X Codes

\* What the current call has built and sent.
CallInv ==
    call # Idle =>
        /\ number > 0
        /\ call = [pc |-> call.pc, target |-> call.target, new |-> call.new,
                   timestamp |-> call.timestamp, request |-> call.request,
                   tries |-> call.tries, update |-> call.update]
        /\ call.pc \in {"login", "send", "wait"}
        /\ call.target \in Targets /\ call.new \in Passwords
        /\ call.timestamp \in Int
        /\ call.tries \in Nat
        /\ call.update = (call.target = Me /\ config.credentials = "password")
        /\ call.pc = "login" => call.tries = 0
        /\ call.pc # "login" =>
              /\ call.request.ap_req.time = call.timestamp
              /\ call.request.krb_priv.key = call.request.ap_req.subkey
              /\ call.request.krb_priv.user_data = ChangePasswdData(call.new, call.target)
              /\ call.request.ap_req.ticket.key \in {"session"} \X Nat

\* Those of the requests under way that are of the current call are what it
\* has built.
RequestInv ==
    \A q \in requests :
        /\ q[1] \in Servers /\ q[2] \in 1 .. number
        /\ q[3].body[1] = ReqOf(q)
        /\ ReqOf(q).time \in Int
        /\ ReqOf(q).ticket.key \in {"session"} \X Nat
        /\ ChangeOf(q).key = ReqOf(q).subkey
        /\ ChangeOf(q).user_data.new_passwd \in Passwords
        /\ Ours(q) => /\ call.pc # "login"
                      /\ ReqOf(q) = call.request.ap_req
                      /\ ChangeOf(q) = call.request.krb_priv
                      /\ call.tries > 0

\* A call that waits has a request under way.
SentInv == call # Idle /\ call.pc = "wait" => \E q \in requests : Ours(q)

\* Another call has read the time of the current one.
Clashing == \E q, p \in requests : q[2] = number /\ Clash(q, p)

\* The frame that answers a request with a code.
IsAnswer(frame, q, code) ==
    LET ap_rep == frame.body[1]
        krb_priv == frame.body[2]
    IN  /\ frame = Frame(CHANGE_PASSWORD_REPLY_VERSION, 1, <<ap_rep, krb_priv>>)
        /\ ap_rep \in [type : {"AP-REP"}, key : {"session"} \X Nat,
                       subkey : ({"subkey"} \X Servers \X Nat) \cup {Nil}, time : Int]
        /\ ap_rep.key = ReqOf(q).ticket.key
        /\ ap_rep.time = ReqOf(q).time
        /\ krb_priv.key = (IF ap_rep.subkey = Nil THEN ReqOf(q).subkey ELSE ap_rep.subkey)
        /\ krb_priv.user_data = code

\* A reply is an error, or the answer to a request with a code that the server
\* gave to that call.
ReplyInv ==
    \A r \in replies :
        \/ r[2] = ErrorReply(KPASSWD_AUTHERROR)
        \/ \E q \in requests, code \in Codes :
              r[1] = q[2] /\ IsAnswer(r[2], q, code) /\ <<q[2], code>> \in answers

\* A server that gave a code has the request in its replay cache.
AnswerInv ==
    \A a \in answers :
        \E q \in requests : q[2] = a[1] /\ <<q[1], ReqOf(q).time>> \in seen

\* A call that has sent one request has one answer.
FirstTryInv ==
    call # Idle /\ call.tries <= 1 =>
        /\ \A q, p \in requests : Ours(q) /\ Ours(p) => q[1] = p[1]
        /\ \A c, d \in Codes :
              <<number, c>> \in answers /\ <<number, d>> \in answers => c = d

\* Until something happens that causes tell of, the client's password is that
\* of the database, but for what a server made of the current call.
StepInv ==
    config.credentials = "password" /\ causes = {} /\ DistinctTimes =>
        IF call # Idle /\ <<number, KPASSWD_SUCCESS>> \in answers
        THEN Account(call.target) = Me /\ passwords[Me] = call.new
        ELSE credential = passwords[Me]

IInv ==
    /\ StateInv /\ CallInv /\ RequestInv /\ SentInv /\ ReplyInv /\ AnswerInv
    /\ FirstTryInv /\ StepInv /\ ResultIsOurs

\* Where nothing goes wrong, a request is answered once and in time, every
\* answer has its reply, and a call that is over has had its own.
CallOrder ==
    /\ call # Idle => clock - call.timestamp <= Skew
    /\ \A q \in requests : ~ Ours(q) => \E r \in replies : r[1] = q[2]
    /\ \A r \in results : r[1] \in 1 .. number /\ (r[1] = number => call = Idle)

ReplyOrder ==
    /\ \A t \in seen : \E q \in requests :
          ReqOf(q).time = t[2] /\ \E r \in replies : r[1] = q[2]
    /\ \A r \in replies : \E q \in requests, code \in Codes :
          r[1] = q[2] /\ IsAnswer(r[2], q, code) /\ <<q[2], code>> \in answers
    /\ \A a \in answers : \E r \in replies : r[1] = a[1]
    /\ \A n \in 1 .. number : \A c, d \in Codes :
          <<n, c>> \in answers /\ <<n, d>> \in answers => c = d

OrderInv == ~ config.troubled /\ DistinctTimes => CallOrder /\ ReplyOrder

OInv == OrderInv /\ ChangeSucceeds

-----------------------------------------------------------------------------
(* Frames.                                                                  *)

\* A frame of two messages that is as long as it says.
LEMMA TwoMessages ==
    ASSUME NEW v, NEW a, NEW b
    PROVE  LET frame == Frame(v, 1, <<a, b>>)
           IN  /\ frame.body[1] = a /\ frame.body[2] = b
               /\ frame.version = v /\ frame.payload_length = 1
               /\ parse_header(frame)
               /\ Body(frame) = <<a, b>>
<1> DEFINE frame == Frame(v, 1, <<a, b>>)
<1>1. frame.body = <<a, b>> /\ frame.version = v /\ frame.payload_length = 1
  BY DEF Frame
<1>2. frame.message_length = 3
  BY DEF Frame, HEADER_LEN
<1>3. SubSeq(<<a, b>>, 1, 2) = <<a, b>>
  <2>1. <<a, b>> \in Seq({a, b}) /\ Len(<<a, b>>) = 2
    OBVIOUS
  <2> QED BY <2>1, SubSeqFull
<1>4. Body(frame) = <<a, b>>
  BY <1>1, <1>2, <1>3 DEF Body, HEADER_LEN
<1>5. parse_header(frame)
  <2>1. Len(frame.body) = 2
    BY <1>1
  <2> HIDE DEF frame
  <2> QED BY <1>2, <2>1 DEF parse_header, HEADER_LEN
<1> QED BY <1>1, <1>4, <1>5

\* Request::parse reads what Request::encode wrote.
LEMMA RequestFrame ==
    ASSUME NEW request
    PROVE  /\ EncodeRequest(request).body[1] = request.ap_req
           /\ ParseRequest(EncodeRequest(request)).ap_req = request.ap_req
           /\ ParseRequest(EncodeRequest(request)).krb_priv = request.krb_priv
<1> DEFINE frame == EncodeRequest(request)
<1>1. /\ frame.body[1] = request.ap_req
      /\ frame.version = CHANGE_PASSWORD_REQUEST_VERSION /\ frame.payload_length = 1
      /\ parse_header(frame) /\ Body(frame) = <<request.ap_req, request.krb_priv>>
  BY TwoMessages DEF EncodeRequest
<1>2. 1 \in 1 .. Len(Body(frame)) - 1
  BY <1>1
<1>3. ParseRequest(frame) = [ap_req |-> request.ap_req, krb_priv |-> request.krb_priv]
  BY <1>1, <1>2 DEF ParseRequest
<1> QED BY <1>1, <1>3

\* The client's outcomes.
LEMMA OutcomeType ==
    ASSUME NEW frame, NEW request
    PROVE  Outcome(frame, request) \in {"ok", "claimed", "refused", "denied", "error"}
  BY DEF Outcome

\* An answer is taken for what it is if it is of the request's time, and
\* otherwise for an error.
LEMMA AnswerOutcome ==
    ASSUME NEW frame, NEW q, NEW code \in Codes, IsAnswer(frame, q, code),
           NEW request
    PROVE  /\ Outcome(frame, request) = "ok" => code = KPASSWD_SUCCESS
           /\ Outcome(frame, request) = "refused" => code # KPASSWD_SUCCESS
           /\ Outcome(frame, request) \in {"ok", "refused"} =>
                 ReqOf(q).time = request.ap_req.time
<1> DEFINE ap_rep == frame.body[1]
           krb_priv == frame.body[2]
           reply == [ap_rep |-> ap_rep, krb_priv |-> krb_priv, krb_error |-> Nil]
<1>1. /\ frame.version = 1 /\ frame.payload_length = 1
      /\ parse_header(frame) /\ Body(frame) = <<ap_rep, krb_priv>>
  BY TwoMessages DEF IsAnswer, CHANGE_PASSWORD_REPLY_VERSION
<1>2. WellFormedReply(frame) /\ ParseReply(frame) = reply
  BY <1>1 DEF WellFormedReply, ParseReply, CHANGE_PASSWORD_REPLY_VERSION
<1>3. \A key : decrypt_result(reply, key) \in {code, Nil}
  BY DEF decrypt_result, decrypt_krb_priv_enc_part, IsAnswer
<1>4. Outcome(frame, request) \in {"ok", "refused"} =>
         verify_kpasswd_ap_rep(reply, request)
  BY <1>2 DEF Outcome
<1>5. verify_kpasswd_ap_rep(reply, request) => ap_rep.time = request.ap_req.time
  BY DEF verify_kpasswd_ap_rep
<1>6. /\ Outcome(frame, request) = "ok" => code = KPASSWD_SUCCESS
      /\ Outcome(frame, request) = "refused" => code # KPASSWD_SUCCESS
  <2> DEFINE found == decrypt_result(reply, result_key(reply, request))
  <2>1. found = code \/ found = Nil
    BY <1>3
  <2>2. Outcome(frame, request) =
           CASE ~ verify_kpasswd_ap_rep(reply, request) -> "error"
             [] OTHER -> CASE found = Nil -> "error"
                           [] found = KPASSWD_SUCCESS -> "ok"
                           [] OTHER -> "refused"
    BY <1>2 DEF Outcome
  <2>3. KPASSWD_SUCCESS # Nil
    BY NilAssumption DEF KPASSWD_SUCCESS
  <2> HIDE DEF found
  <2> QED BY <2>1, <2>2, <2>3
<1> QED BY <1>4, <1>5, <1>6 DEF IsAnswer

\* With the keys and the time of the request, the code in it decides.
LEMMA OwnAnswerOutcome ==
    ASSUME NEW frame, NEW q, NEW code \in Codes, IsAnswer(frame, q, code),
           NEW request, request.ap_req = ReqOf(q)
    PROVE  Outcome(frame, request) = IF code = KPASSWD_SUCCESS THEN "ok" ELSE "refused"
<1> DEFINE ap_rep == frame.body[1]
           krb_priv == frame.body[2]
           reply == [ap_rep |-> ap_rep, krb_priv |-> krb_priv, krb_error |-> Nil]
<1>1. /\ frame.version = 1 /\ frame.payload_length = 1
      /\ parse_header(frame) /\ Body(frame) = <<ap_rep, krb_priv>>
  BY TwoMessages DEF IsAnswer, CHANGE_PASSWORD_REPLY_VERSION
<1>2. WellFormedReply(frame) /\ ParseReply(frame) = reply
  BY <1>1 DEF WellFormedReply, ParseReply, CHANGE_PASSWORD_REPLY_VERSION
<1>3. ap_rep # Nil
  BY NilAssumption DEF IsAnswer
<1>4. krb_priv.key = result_key(reply, request)
  BY <1>3 DEF IsAnswer, result_key
<1>5. decrypt_result(reply, result_key(reply, request)) = code
  BY <1>4 DEF decrypt_result, decrypt_krb_priv_enc_part, IsAnswer
<1>6. verify_kpasswd_ap_rep(reply, request)
  BY DEF verify_kpasswd_ap_rep, IsAnswer
<1>7. code # Nil
  BY NilAssumption DEF Codes, KPASSWD_SUCCESS, KPASSWD_SOFTERROR, KPASSWD_ACCESSDENIED,
                       KPASSWD_INITIAL_FLAG_NEEDED
<1> QED BY <1>2, <1>5, <1>6, <1>7 DEF Outcome

\* A KRB-ERROR never counts as an answer under an AP-REP.
LEMMA ErrorOutcome ==
    ASSUME NEW request, NEW code \in ErrorCodes
    PROVE  Outcome(ErrorReply(code), request) \notin {"ok", "refused"}
<1> DEFINE error == KrbError(code)
           frame == ErrorReply(code)
           reply == [ap_rep |-> Nil, krb_priv |-> Nil, krb_error |-> error]
<1>1. error # Nil
  BY NilAssumption DEF KrbError, ErrorCodes, KPASSWD_SUCCESS, KPASSWD_AUTHERROR,
                       KPASSWD_SOFTERROR
<1>2. frame = Frame(1, 0, <<error>>)
  BY <1>1 DEF ErrorReply, EncodeReply, CHANGE_PASSWORD_REPLY_VERSION
<1>3. frame.payload_length = 0 /\ Body(frame)[1] = error
  BY <1>2 DEF Frame, Body, HEADER_LEN
<1>4. ParseReply(frame) = reply
  BY <1>3 DEF ParseReply
<1> QED BY <1>1, <1>4 DEF Outcome

\* Frames that were cut short, or are of another version, are errors.
LEMMA DamagedOutcome ==
    ASSUME NEW frame, NEW request, NEW a, NEW b,
           \/ frame = Frame(CHANGE_PASSWORD_REPLY_VERSION, 1, <<a, b>>)
           \/ frame = Frame(CHANGE_PASSWORD_REPLY_VERSION, 0, <<a>>)
    PROVE  /\ Outcome([frame EXCEPT !.message_length = @ - 1], request) = "error"
           /\ Outcome([frame EXCEPT !.version = 2], request) = "error"
<1> DEFINE cut == [frame EXCEPT !.message_length = @ - 1]
           other == [frame EXCEPT !.version = 2]
<1>1. ~ WellFormedReply(cut)
  <2>1. CASE frame = Frame(CHANGE_PASSWORD_REPLY_VERSION, 1, <<a, b>>)
    <3>1. cut.body = <<a, b>> /\ cut.message_length = 2 /\ cut.payload_length = 1
      BY <2>1 DEF Frame, HEADER_LEN
    <3>2. Len(Body(cut)) = 1
      BY <3>1 DEF Body, HEADER_LEN
    <3> HIDE DEF cut
    <3> QED BY <3>1, <3>2 DEF WellFormedReply
  <2>2. CASE frame = Frame(CHANGE_PASSWORD_REPLY_VERSION, 0, <<a>>)
    <3>1. cut.body = <<a>> /\ cut.message_length = 1 /\ cut.payload_length = 0
      BY <2>2 DEF Frame, HEADER_LEN
    <3>2. Len(Body(cut)) = 0
      BY <3>1 DEF Body, HEADER_LEN
    <3> HIDE DEF cut
    <3> QED BY <3>1, <3>2 DEF WellFormedReply
  <2> QED BY <2>1, <2>2
<1>2. ~ WellFormedReply(other)
  BY DEF WellFormedReply, Frame, CHANGE_PASSWORD_REPLY_VERSION
<1> QED BY <1>1, <1>2 DEF Outcome

-----------------------------------------------------------------------------
(* What a call makes of the frames that reach it.                           *)

\* A reply that counts has a code which a server gave to this call, unless
\* another call has read the same time.
LEMMA ReceivedIsOurs ==
    ASSUME IInv, call # Idle, call.pc = "wait", NEW frame \in Arriving
    PROVE  LET outcome == Outcome(frame, call.request)
           IN  \/ Clashing
               \/ /\ outcome = "ok" => <<number, KPASSWD_SUCCESS>> \in answers
                  /\ outcome = "refused" =>
                        \E code \in Codes \ {KPASSWD_SUCCESS} : <<number, code>> \in answers
<1> DEFINE outcome == Outcome(frame, call.request)
<1>0. CASE \E code \in ErrorCodes : frame = ErrorReply(code)
  BY <1>0, ErrorOutcome
<1>a. KPASSWD_AUTHERROR \in ErrorCodes
  BY DEF ErrorCodes
<1>b. CASE ~ \E code \in ErrorCodes : frame = ErrorReply(code)
  <2>1. PICK r \in replies : \/ frame = r[2]
                            \/ frame = [r[2] EXCEPT !.message_length = @ - 1]
                            \/ frame = [r[2] EXCEPT !.version = 2]
    BY <1>b DEF Arriving
  <2>2. PICK a, b : \/ r[2] = Frame(CHANGE_PASSWORD_REPLY_VERSION, 1, <<a, b>>)
                   \/ r[2] = Frame(CHANGE_PASSWORD_REPLY_VERSION, 0, <<a>>)
    <3>1. CASE r[2] = ErrorReply(KPASSWD_AUTHERROR)
      <4>1. KrbError(KPASSWD_AUTHERROR) # Nil
        BY NilAssumption DEF KrbError, KPASSWD_AUTHERROR
      <4> QED BY <3>1, <4>1 DEF ErrorReply, EncodeReply
    <3>2. CASE \E q \in requests, code \in Codes : IsAnswer(r[2], q, code)
      <4>1. PICK x, y : x = r[2].body[1] /\ y = r[2].body[2]
        OBVIOUS
      <4>2. r[2] = Frame(CHANGE_PASSWORD_REPLY_VERSION, 1, <<x, y>>)
        BY ONLY <3>2, <4>1 DEF IsAnswer
      <4> QED BY ONLY <4>2
    <3>3. \/ r[2] = ErrorReply(KPASSWD_AUTHERROR)
          \/ \E q \in requests, code \in Codes : IsAnswer(r[2], q, code)
      BY DEF IInv, ReplyInv
    <3> QED BY <3>1, <3>2, <3>3
  <2>3. CASE frame # r[2]
    <3>1. \/ frame = [r[2] EXCEPT !.message_length = @ - 1]
          \/ frame = [r[2] EXCEPT !.version = 2]
      BY <2>1, <2>3
    <3>2. \A g : Outcome([r[2] EXCEPT !.message_length = @ - 1], g) = "error"
      BY <2>2, DamagedOutcome
    <3>3. \A g : Outcome([r[2] EXCEPT !.version = 2], g) = "error"
      BY <2>2, DamagedOutcome
    <3>4. outcome = "error"
      BY <3>1, <3>2, <3>3
    <3> QED BY <3>4
  <2>4. CASE frame = r[2]
    <3>0. r[2] # ErrorReply(KPASSWD_AUTHERROR)
      BY <1>a, <1>b, <2>4
    <3>1. PICK q \in requests, code \in Codes :
             IsAnswer(r[2], q, code) /\ <<q[2], code>> \in answers
      BY <3>0 DEF IInv, ReplyInv
    <3>2. /\ outcome = "ok" => code = KPASSWD_SUCCESS
          /\ outcome = "refused" => code # KPASSWD_SUCCESS
          /\ outcome \in {"ok", "refused"} => ReqOf(q).time = call.request.ap_req.time
      BY <2>4, <3>1, AnswerOutcome
    <3>3. PICK p \in requests : p[2] = number /\ ReqOf(p) = call.request.ap_req
      BY DEF IInv, SentInv, RequestInv, Ours
    <3>4. q[3].body[1] = ReqOf(q) /\ p[3].body[1] = ReqOf(p)
      BY DEF IInv, RequestInv
    <3>5. outcome \in {"ok", "refused"} => q[2] = number \/ Clash(p, q)
      BY <3>2, <3>3, <3>4 DEF Clash
    <3>6. outcome \in {"ok", "refused"} => q[2] = number \/ Clashing
      BY <3>3, <3>5 DEF Clashing
    <3> QED BY <3>1, <3>2, <3>6
  <2> QED BY <2>3, <2>4
<1> QED BY <1>0, <1>b

-----------------------------------------------------------------------------
(* Steps of the client.                                                     *)

\* Nobody has answered a call that has sent nothing.
LEMMA NothingSent ==
    ASSUME IInv, call # Idle, call.tries = 0
    PROVE  \A code : <<number, code>> \notin answers
<1>1. \A q \in requests : q[2] # number
  BY DEF IInv, RequestInv, Ours
<1> QED BY <1>1 DEF IInv, AnswerInv

LEMMA ChangeStep ==
    ASSUME IInv, NEW t \in config.targets, NEW p \in Passwords, change_password_for(t, p)
    PROVE  IInv'
<1> USE DEF IInv, change_password_for, serverVars, networkVars
<1>1. /\ call'.pc = "login" /\ call'.target = t /\ call'.new = p
      /\ call'.timestamp = clock /\ call'.tries = 0
      /\ call'.update = (t = Me /\ config.credentials = "password")
      /\ call' # Idle /\ number' = number + 1 /\ call = Idle
  BY DEF Idle
<1>2. StateInv'
  BY <1>1 DEF StateInv
<1>3. CallInv'
  BY <1>1, ChangeAssumption DEF CallInv, Targets, StateInv
<1>4. RequestInv'
  BY <1>1 DEF RequestInv, Ours, StateInv
<1>5. SentInv' /\ ReplyInv' /\ AnswerInv' /\ ResultIsOurs'
  BY DEF SentInv, ReplyInv, AnswerInv, ResultIsOurs, DistinctTimes, Clash
<1>6. \A code : <<number', code>> \notin answers'
  BY <1>1 DEF StateInv
<1>7. FirstTryInv'
  BY <1>1, <1>4, <1>6 DEF FirstTryInv, RequestInv
<1>8. StepInv'
  BY <1>1, <1>6 DEF StepInv, DistinctTimes, Clash
<1> QED BY <1>2, <1>3, <1>4, <1>5, <1>7, <1>8

LEMMA LoginStep == ASSUME IInv, LoginOk PROVE IInv'
<1> USE DEF IInv, LoginOk, serverVars, networkVars
<1>1. call # Idle
  BY DEF Idle
<1>2. PICK ticket : /\ ticket.key \in {"session"} \X Nat
                    /\ call' = [call EXCEPT !.pc = "send",
                         !.request = build_kpasswd_request(ticket,
                             ChangePasswdData(call.new, call.target),
                             <<"reply", number>>, call.timestamp)]
  <2>1. CASE config.credentials = "none"
    <3>1. <<"session", 0>> \in {"session"} \X Nat
      OBVIOUS
    <3> QED BY <2>1, <3>1
  <2>2. CASE config.credentials # "none"
    <3>1. <<"session", number>> \in {"session"} \X Nat
      BY DEF StateInv
    <3> QED BY <2>2, <3>1
  <2> QED BY <2>1, <2>2
<1>3. /\ call' = [pc |-> "send", target |-> call.target, new |-> call.new,
                  timestamp |-> call.timestamp, request |-> call'.request,
                  tries |-> call.tries, update |-> call.update]
      /\ call'.request = build_kpasswd_request(ticket,
                             ChangePasswdData(call.new, call.target),
                             <<"reply", number>>, call.timestamp)
  BY <1>1, <1>2 DEF CallInv
<1>4. call' # Idle
  BY <1>3 DEF Idle
<1>5. StateInv' /\ SentInv' /\ ReplyInv' /\ AnswerInv' /\ ResultIsOurs'
  BY <1>3 DEF StateInv, SentInv, ReplyInv, AnswerInv, ResultIsOurs, Clash
<1>6. CallInv'
  BY <1>1, <1>2, <1>3, <1>4
  DEF CallInv, build_kpasswd_request, build_krb_priv, ApReq, ChangePasswdData
<1>7. \A q \in requests : q[2] # number
  BY <1>1 DEF RequestInv, Ours
<1>8. RequestInv'
  BY <1>1, <1>3, <1>4, <1>7 DEF RequestInv, Ours
<1>9. FirstTryInv'
  BY <1>1, <1>3, <1>4 DEF FirstTryInv, Ours
<1>10. StepInv'
  BY <1>1, <1>3, <1>4 DEF StepInv, DistinctTimes, Clash
<1> QED BY <1>5, <1>6, <1>8, <1>9, <1>10

LEMMA SendStep == ASSUME IInv, NEW s \in Servers, Send(s) PROVE IInv'
<1> USE DEF IInv, Send, serverVars
<1>0. PICK q : q = <<s, number, EncodeRequest(call.request)>>
  OBVIOUS
<1>1. call # Idle
  BY DEF Idle
<1>2. call' = [pc |-> "wait", target |-> call.target, new |-> call.new,
               timestamp |-> call.timestamp, request |-> call.request,
               tries |-> call.tries + 1, update |-> call.update]
  BY <1>1 DEF CallInv
<1>3. call' # Idle
  BY <1>2 DEF Idle
<1>4. /\ q[1] = s /\ q[2] = number /\ q[3].body[1] = ReqOf(q)
      /\ ReqOf(q) = call.request.ap_req /\ ChangeOf(q) = call.request.krb_priv
  BY <1>0, RequestFrame DEF ReqOf, ChangeOf
<1>5. call.tries \in Nat
  BY <1>1 DEF CallInv
<1>6. requests' = requests \cup {q}
  BY <1>0
<1>7. number \in 1 .. number
  BY <1>1 DEF CallInv, StateInv
<1>8. StateInv' /\ ResultIsOurs'
  BY DEF StateInv, ResultIsOurs, DistinctTimes, Clash
<1>9. ReplyInv' /\ AnswerInv'
  BY <1>6 DEF ReplyInv, AnswerInv
<1>10. CallInv'
  <2>1. /\ call'.pc = "wait" /\ call'.target = call.target /\ call'.new = call.new
        /\ call'.timestamp = call.timestamp /\ call'.request = call.request
        /\ call'.tries = call.tries + 1 /\ call'.update = call.update
    BY <1>2
  <2>2. call' = [pc |-> call'.pc, target |-> call'.target, new |-> call'.new,
                 timestamp |-> call'.timestamp, request |-> call'.request,
                 tries |-> call'.tries, update |-> call'.update]
    BY <1>2
  <2> QED BY <1>1, <1>5, <2>1, <2>2 DEF CallInv
<1>11. ReqOf(q).time = call.timestamp /\ call.timestamp \in Int
  BY <1>1, <1>4 DEF CallInv
<1>12. RequestInv'
  <2>1. ASSUME NEW p \in requests
        PROVE  RequestInv!(p)'
    BY <1>1, <1>2, <1>3, <1>5, <2>1 DEF RequestInv, Ours
  <2>2. RequestInv!(q)'
    <3>1. /\ ReqOf(q).ticket.key \in {"session"} \X Nat
          /\ ChangeOf(q).key = ReqOf(q).subkey
          /\ ChangeOf(q).user_data.new_passwd \in Passwords
      BY <1>1, <1>4 DEF CallInv, ChangePasswdData
    <3> QED BY <1>2, <1>4, <1>5, <1>7, <1>11, <3>1 DEF Ours
  <2> QED BY <1>6, <2>1, <2>2 DEF RequestInv
<1>13. SentInv'
  <2>1. q \in requests' /\ q[2] = number' /\ call' # Idle
    BY <1>3, <1>4, <1>6
  <2> QED BY <2>1 DEF SentInv, Ours
<1>14. FirstTryInv'
  <2>1. CASE call.tries = 0
    <3>1. \A p \in requests : p[2] # number
      BY <1>1, <2>1 DEF RequestInv, Ours
    <3> QED BY <1>2, <1>4, <1>6, <3>1, NothingSent, <2>1, <1>1 DEF FirstTryInv, Ours
  <2>2. CASE call.tries # 0
    BY <1>2, <1>5, <2>2 DEF FirstTryInv
  <2> QED BY <2>1, <2>2
<1>15. StepInv'
  BY <1>1, <1>2, <1>3 DEF StepInv, DistinctTimes, Clash
<1> QED BY <1>8, <1>9, <1>10, <1>12, <1>13, <1>14, <1>15

\* The codes of a refusal are those that are not success.
LEMMA Refusals ==
    {KPASSWD_SOFTERROR, KPASSWD_ACCESSDENIED, KPASSWD_INITIAL_FLAG_NEEDED}
        = Codes \ {KPASSWD_SUCCESS}
<1>1. /\ KPASSWD_SOFTERROR # KPASSWD_SUCCESS /\ KPASSWD_ACCESSDENIED # KPASSWD_SUCCESS
      /\ KPASSWD_INITIAL_FLAG_NEEDED # KPASSWD_SUCCESS
  BY DEF KPASSWD_SUCCESS, KPASSWD_SOFTERROR, KPASSWD_ACCESSDENIED,
         KPASSWD_INITIAL_FLAG_NEEDED
<1> QED BY <1>1, Zenon DEF Codes

LEMMA RetryStep == ASSUME IInv, AttemptFails PROVE IInv'
<1> USE DEF IInv, AttemptFails, serverVars, networkVars
<1>1. call # Idle
  BY DEF Idle
<1>2. call' = [pc |-> "send", target |-> call.target, new |-> call.new,
               timestamp |-> call.timestamp, request |-> call.request,
               tries |-> call.tries, update |-> call.update]
  BY <1>1 DEF CallInv
<1>3. /\ call'.pc = "send" /\ call'.target = call.target /\ call'.new = call.new
      /\ call'.timestamp = call.timestamp /\ call'.request = call.request
      /\ call'.tries = call.tries /\ call'.update = call.update
  BY <1>2
<1>4. call' # Idle
  BY <1>3 DEF Idle
<1>5. StateInv' /\ SentInv' /\ ReplyInv' /\ AnswerInv' /\ ResultIsOurs'
  BY <1>3 DEF StateInv, SentInv, ReplyInv, AnswerInv, ResultIsOurs, Clash
<1>6. CallInv'
  BY <1>1, <1>2, <1>3 DEF CallInv
<1>7. RequestInv' /\ FirstTryInv' /\ StepInv'
  BY <1>1, <1>3, <1>4 DEF RequestInv, FirstTryInv, StepInv, Ours, DistinctTimes, Clash
<1> QED BY <1>5, <1>6, <1>7

\* A call ends with a result that its answers account for.
LEMMA ReturnStep ==
    ASSUME IInv, call # Idle, NEW result, Return(result),
           UNCHANGED <<config, clock, number, passwords, seen, answers, requests, replies>>,
           credential' = IF result \in {"ok", "claimed"} /\ call.update THEN call.new
                         ELSE credential,
           \/ Clashing
           \/ /\ result = "ok" => <<number, KPASSWD_SUCCESS>> \in answers
              /\ result = "refused" =>
                    \E code \in Codes \ {KPASSWD_SUCCESS} : <<number, code>> \in answers
    PROVE  IInv'
<1> USE DEF IInv, Return
<1>1. call' = Idle
  OBVIOUS
<1>2. StateInv' /\ SentInv' /\ ReplyInv' /\ AnswerInv'
  BY DEF StateInv, SentInv, ReplyInv, AnswerInv
<1>3. CallInv' /\ RequestInv' /\ FirstTryInv'
  BY <1>1 DEF CallInv, RequestInv, FirstTryInv, Ours
<1>4. ResultIsOurs'
  <2> SUFFICES ASSUME NEW r \in results'
               PROVE  \/ \E q, p \in requests : q[2] = r[1] /\ Clash(q, p)
                      \/ /\ r[2] = "ok" => <<r[1], KPASSWD_SUCCESS>> \in answers
                         /\ r[2] = "refused" => \E code \in Codes \ {KPASSWD_SUCCESS} :
                                                   <<r[1], code>> \in answers
    BY Refusals DEF ResultIsOurs
  <2>1. CASE r \in results
    BY <2>1, Refusals DEF ResultIsOurs
  <2>2. CASE r = <<number, result>>
    BY <2>2 DEF Clashing
  <2> QED BY <2>1, <2>2
<1>5. StepInv'
  <2> SUFFICES ASSUME config.credentials = "password", causes' = {}, DistinctTimes
               PROVE  credential' = passwords[Me]
    BY <1>1 DEF StepInv, DistinctTimes, Clash
  <2>1. /\ causes = {}
        /\ ~ (result = "claimed" /\ Account(call.target) = Me)
        /\ ~ (result = "ok" /\ call.target = MeOtherType)
        /\ ~ (/\ Account(call.target) = Me /\ result \notin {"ok", "claimed"}
              /\ call.tries > (IF result = "refused" THEN 1 ELSE 0))
    OBVIOUS
  <2>0. /\ result = "ok" => <<number, KPASSWD_SUCCESS>> \in answers
        /\ result = "refused" =>
              \E code \in Codes \ {KPASSWD_SUCCESS} : <<number, code>> \in answers
    BY DEF Clashing, DistinctTimes
  <2>2. CASE <<number, KPASSWD_SUCCESS>> \notin answers
    <3>1. credential = passwords[Me]
      BY <2>1, <2>2 DEF StepInv
    <3>2. call.update => Account(call.target) = Me
      BY ChangeAssumption DEF CallInv, Account
    <3> QED BY <2>0, <2>1, <2>2, <3>1, <3>2
  <2>3. CASE <<number, KPASSWD_SUCCESS>> \in answers
    <3>1. Account(call.target) = Me /\ passwords[Me] = call.new
      BY <2>1, <2>3 DEF StepInv
    <3>2. call.tries \in Nat /\ call.target \in Targets
      BY DEF CallInv
    <3>3. call.tries # 0
      BY <2>3, NothingSent
    <3>4. CASE result = "ok"
      <4>1. call.target = Me
        BY <2>1, <3>1, <3>2, <3>4, ChangeAssumption DEF Account, Targets
      <4>2. call.update
        BY <4>1 DEF CallInv
      <4> QED BY <3>1, <3>4, <4>2
    <3>5. CASE result # "ok"
      <4>1. result = "refused" /\ call.tries <= 1
        BY <2>1, <3>1, <3>2, <3>3, <3>5
      <4>2. PICK code \in Codes \ {KPASSWD_SUCCESS} : <<number, code>> \in answers
        BY <2>0, <4>1
      <4>3. KPASSWD_SUCCESS \in Codes
        BY DEF Codes
      <4> QED BY <2>3, <4>1, <4>2, <4>3 DEF FirstTryInv
    <3> QED BY <3>4, <3>5
  <2> QED BY <2>2, <2>3
<1> QED BY <1>2, <1>3, <1>4, <1>5

LEMMA FailureStep ==
    ASSUME IInv, LoginFails \/ Exhausted \/ Cancel
    PROVE  IInv'
<1>1. PICK result \in {"error", "cancelled"} :
         /\ Return(result) /\ call # Idle
         /\ UNCHANGED <<config, clock, credential, number, serverVars, networkVars>>
  BY DEF LoginFails, Exhausted, Cancel, Idle
<1> QED BY <1>1, ReturnStep DEF serverVars, networkVars

LEMMA ReceiveStep ==
    ASSUME IInv, NEW frame \in Arriving, Receive(frame)
    PROVE  IInv'
<1>1. call # Idle
  BY DEF Receive, Idle
<1>2. PICK outcome : outcome = Outcome(frame, call.request)
  OBVIOUS
<1>3. \/ Clashing
      \/ /\ outcome = "ok" => <<number, KPASSWD_SUCCESS>> \in answers
         /\ outcome = "refused" =>
               \E code \in Codes \ {KPASSWD_SUCCESS} : <<number, code>> \in answers
  BY <1>1, <1>2, ReceivedIsOurs DEF Receive
<1>4. /\ Return(outcome)
      /\ credential' = IF outcome \in {"ok", "claimed"} /\ call.update THEN call.new
                       ELSE credential
      /\ UNCHANGED <<config, clock, number, passwords, seen, answers, requests, replies>>
  BY <1>2 DEF Receive, Finish, serverVars, networkVars
<1> QED BY <1>1, <1>3, <1>4, ReturnStep

-----------------------------------------------------------------------------
(* Steps of the servers and of others.                                      *)

\* What a server reads in a request under way.
LEMMA ServerReads ==
    ASSUME IInv, NEW q \in requests
    PROVE  /\ ParseRequest(q[3]).ap_req = ReqOf(q)
           /\ decrypt_krb_priv_enc_part(ParseRequest(q[3]).krb_priv, ReqOf(q).subkey)
                 = ChangeOf(q).user_data
           /\ Ours(q) => ChangeOf(q).user_data = ChangePasswdData(call.new, call.target)
  BY DEF IInv, RequestInv, CallInv, ReqOf, ChangeOf, decrypt_krb_priv_enc_part, Ours

\* The reply of a server is an answer.
LEMMA AnswerReply ==
    ASSUME IInv, NEW q \in requests, NEW code \in Codes, Answer(q[1], q, ReqOf(q), code)
    PROVE  \E frame : IsAnswer(frame, q, code) /\ replies' = replies \cup {<<q[2], frame>>}
<1>1. PICK subkey : subkey = IF config.subkeys THEN <<"subkey", q[1], q[2]>> ELSE Nil
  OBVIOUS
<1>2. PICK key : key = IF subkey = Nil THEN ReqOf(q).subkey ELSE subkey
  OBVIOUS
<1>3. PICK ap_rep : ap_rep = ApRep(ReqOf(q).ticket.key, subkey, ReqOf(q).time)
  OBVIOUS
<1>4. PICK krb_priv : krb_priv = build_krb_priv(code, key)
  OBVIOUS
<1>5. PICK frame : frame = Frame(CHANGE_PASSWORD_REPLY_VERSION, 1, <<ap_rep, krb_priv>>)
  OBVIOUS
<1>6. replies' = replies \cup {<<q[2], frame>>}
  BY <1>1, <1>2, <1>3, <1>4, <1>5 DEF Answer, EncodeReply
<1>7. frame.body[1] = ap_rep /\ frame.body[2] = krb_priv
  BY <1>5, TwoMessages
<1>8. subkey \in ({"subkey"} \X Servers \X Nat) \cup {Nil}
  BY <1>1 DEF IInv, StateInv, RequestInv
<1>9. ap_rep \in [type : {"AP-REP"}, key : {"session"} \X Nat,
                  subkey : ({"subkey"} \X Servers \X Nat) \cup {Nil}, time : Int]
  <2>1. ReqOf(q).ticket.key \in {"session"} \X Nat /\ ReqOf(q).time \in Int
    BY DEF IInv, RequestInv
  <2> QED BY <1>3, <1>8, <2>1 DEF ApRep
<1>10. /\ ap_rep.key = ReqOf(q).ticket.key /\ ap_rep.time = ReqOf(q).time
       /\ ap_rep.subkey = subkey
       /\ krb_priv.key = key /\ krb_priv.user_data = code
  BY <1>3, <1>4 DEF ApRep, build_krb_priv
<1>11. IsAnswer(frame, q, code)
  BY <1>2, <1>5, <1>7, <1>9, <1>10 DEF IsAnswer
<1> QED BY <1>6, <1>11

\* An answer to a fresh request, but for what it does to the password.
LEMMA AnswerStep ==
    ASSUME IInv, NEW q \in requests, NEW code \in Codes, Answer(q[1], q, ReqOf(q), code),
           Fresh(q[1], ReqOf(q)),
           passwords' \in [{Me, Other} -> Passwords],
           UNCHANGED <<config, clock, credential, number, call, requests, results>>
    PROVE  /\ StateInv' /\ CallInv' /\ RequestInv' /\ SentInv' /\ ReplyInv'
           /\ AnswerInv' /\ FirstTryInv' /\ ResultIsOurs'
           /\ answers' = answers \cup {<<q[2], code>>}
<1>1. /\ answers' = answers \cup {<<q[2], code>>}
      /\ seen' = seen \cup {<<q[1], ReqOf(q).time>>}
  BY DEF Answer
<1>2. PICK frame : IsAnswer(frame, q, code) /\ replies' = replies \cup {<<q[2], frame>>}
  BY AnswerReply
<1>3. StateInv'
  BY <1>1 DEF IInv, StateInv, RequestInv
<1>4. CallInv' /\ RequestInv' /\ SentInv'
  BY DEF IInv, CallInv, RequestInv, SentInv, Ours
<1>5. ReplyInv'
  <2> SUFFICES ASSUME NEW r \in replies'
               PROVE  \/ r[2] = ErrorReply(KPASSWD_AUTHERROR)
                      \/ \E p \in requests, c \in Codes :
                            r[1] = p[2] /\ IsAnswer(r[2], p, c) /\ <<p[2], c>> \in answers'
    BY DEF ReplyInv
  <2>1. CASE r \in replies
    BY <1>1, <2>1 DEF IInv, ReplyInv
  <2>2. CASE r = <<q[2], frame>>
    BY <1>1, <1>2, <2>2
  <2> QED BY <1>2, <2>1, <2>2
<1>6. AnswerInv'
  <2> SUFFICES ASSUME NEW a \in answers'
               PROVE  \E p \in requests : p[2] = a[1] /\ <<p[1], ReqOf(p).time>> \in seen'
    BY DEF AnswerInv
  <2>1. CASE a \in answers
    BY <1>1, <2>1 DEF IInv, AnswerInv
  <2>2. CASE a = <<q[2], code>>
    BY <1>1, <2>2
  <2> QED BY <1>1, <2>1, <2>2
<1>7. ResultIsOurs'
  BY <1>1 DEF IInv, ResultIsOurs, DistinctTimes, Clash
<1>8. FirstTryInv'
  <2> SUFFICES ASSUME call # Idle, call.tries <= 1,
                      NEW c \in Codes, NEW d \in Codes,
                      <<number, c>> \in answers', <<number, d>> \in answers'
               PROVE  c = d
    BY DEF IInv, FirstTryInv, Ours
  <2>1. CASE q[2] = number
    <3>1. ASSUME NEW e, <<number, e>> \in answers PROVE FALSE
      <4>1. PICK p \in requests : p[2] = number /\ <<p[1], ReqOf(p).time>> \in seen
        BY <3>1 DEF IInv, AnswerInv
      <4>2. p[1] = q[1]
        BY <2>1, <4>1 DEF IInv, FirstTryInv, Ours
      <4>3. ReqOf(p).time = ReqOf(q).time
        BY <2>1, <4>1 DEF IInv, RequestInv, Ours
      <4> QED BY <4>1, <4>2, <4>3 DEF Fresh
    <3> QED BY <1>1, <2>1, <3>1
  <2>2. CASE q[2] # number
    BY <1>1, <2>2 DEF IInv, FirstTryInv
  <2> QED BY <2>1, <2>2
<1> QED BY <1>1, <1>3, <1>4, <1>5, <1>6, <1>7, <1>8

\* An answer in one of the servers' cases.
LEMMA ServerCases ==
    ASSUME IInv, NEW q \in requests, ServerHandles(q)
    PROVE  /\ UNCHANGED <<config, clock, credential, number, call, requests, results>>
           /\ config.troubled \/ \A r \in replies : r[1] # q[2]
           /\ \/ /\ ~ Fresh(q[1], ReqOf(q))
                 /\ replies' = replies \cup {<<q[2], ErrorReply(KPASSWD_AUTHERROR)>>}
                 /\ UNCHANGED <<passwords, seen, answers, causes>>
              \/ /\ Fresh(q[1], ReqOf(q))
                 /\ \E code \in Codes \ {KPASSWD_SUCCESS} : Answer(q[1], q, ReqOf(q), code)
                 /\ UNCHANGED <<passwords, causes>>
              \/ /\ Fresh(q[1], ReqOf(q))
                 /\ Account(ChangeOf(q).user_data.target) = Me
                 /\ passwords' = [passwords EXCEPT ![Me] = ChangeOf(q).user_data.new_passwd]
                 /\ Answer(q[1], q, ReqOf(q), KPASSWD_SUCCESS)
                 /\ causes' = IF call # Idle /\ q[2] = number THEN causes
                              ELSE causes \cup {"late"}
<1>1. PICK ap_req, change :
         /\ ap_req = ReqOf(q) /\ ap_req = ParseRequest(q[3]).ap_req
         /\ change = ChangeOf(q).user_data
         /\ change = decrypt_krb_priv_enc_part(ParseRequest(q[3]).krb_priv, ap_req.subkey)
  BY ServerReads
<1>2. {KPASSWD_INITIAL_FLAG_NEEDED, KPASSWD_ACCESSDENIED, KPASSWD_SOFTERROR}
         \subseteq Codes \ {KPASSWD_SUCCESS}
  BY DEF Codes, KPASSWD_SUCCESS, KPASSWD_SOFTERROR, KPASSWD_ACCESSDENIED,
         KPASSWD_INITIAL_FLAG_NEEDED
<1> QED BY <1>1, <1>2 DEF ServerHandles

LEMMA ServerStep == ASSUME IInv, NEW q \in requests, ServerHandles(q) PROVE IInv'
<1>1. UNCHANGED <<config, clock, credential, number, call, requests, results>>
  BY ServerCases
<1>2. passwords \in [{Me, Other} -> Passwords]
  BY DEF IInv, StateInv
<1>3. CASE /\ replies' = replies \cup {<<q[2], ErrorReply(KPASSWD_AUTHERROR)>>}
           /\ UNCHANGED <<passwords, seen, answers, causes>>
  <2>1. StateInv' /\ CallInv' /\ RequestInv' /\ SentInv' /\ AnswerInv'
    BY <1>1, <1>3 DEF IInv, StateInv, CallInv, RequestInv, SentInv, AnswerInv, Ours
  <2>2. FirstTryInv'
    BY <1>1, <1>3 DEF IInv, FirstTryInv, Ours
  <2>4. StepInv'
    BY <1>1, <1>3 DEF IInv, StepInv, DistinctTimes, Clash
  <2>5. ResultIsOurs'
    <3>1. ResultIsOurs
      BY DEF IInv
    <3>2. requests' = requests /\ answers' = answers /\ results' = results
      BY <1>1, <1>3
    <3> QED BY ONLY <3>1, <3>2 DEF ResultIsOurs, Clash
  <2>3. ReplyInv'
    <3>1. PICK new : new = <<q[2], ErrorReply(KPASSWD_AUTHERROR)>>
      OBVIOUS
    <3>2. replies' = replies \cup {new} /\ new[2] = ErrorReply(KPASSWD_AUTHERROR)
      BY <1>3, <3>1
    <3> QED BY <1>1, <1>3, <3>2 DEF IInv, ReplyInv
  <2> QED BY <2>1, <2>2, <2>3, <2>4, <2>5 DEF IInv
<1>4. CASE /\ Fresh(q[1], ReqOf(q))
           /\ \E code \in Codes \ {KPASSWD_SUCCESS} : Answer(q[1], q, ReqOf(q), code)
           /\ UNCHANGED <<passwords, causes>>
  <2>1. PICK code \in Codes \ {KPASSWD_SUCCESS} : Answer(q[1], q, ReqOf(q), code)
    BY <1>4
  <2>2. /\ StateInv' /\ CallInv' /\ RequestInv' /\ SentInv' /\ ReplyInv'
        /\ AnswerInv' /\ FirstTryInv' /\ ResultIsOurs'
        /\ answers' = answers \cup {<<q[2], code>>}
    BY <1>1, <1>2, <1>4, <2>1, AnswerStep
  <2>3. StepInv'
    BY <1>1, <1>4, <2>2 DEF IInv, StepInv, DistinctTimes, Clash
  <2> QED BY <2>2, <2>3 DEF IInv
<1>5. CASE /\ Fresh(q[1], ReqOf(q))
           /\ Account(ChangeOf(q).user_data.target) = Me
           /\ passwords' = [passwords EXCEPT ![Me] = ChangeOf(q).user_data.new_passwd]
           /\ Answer(q[1], q, ReqOf(q), KPASSWD_SUCCESS)
           /\ causes' = IF call # Idle /\ q[2] = number THEN causes
                        ELSE causes \cup {"late"}
  <2>1. KPASSWD_SUCCESS \in Codes
    BY DEF Codes
  <2>2. passwords' \in [{Me, Other} -> Passwords]
    BY <1>2, <1>5 DEF IInv, RequestInv
  <2>3. /\ StateInv' /\ CallInv' /\ RequestInv' /\ SentInv' /\ ReplyInv'
        /\ AnswerInv' /\ FirstTryInv' /\ ResultIsOurs'
        /\ answers' = answers \cup {<<q[2], KPASSWD_SUCCESS>>}
    BY <1>1, <1>5, <2>1, <2>2, AnswerStep
  <2>4. StepInv'
    <3> SUFFICES ASSUME causes' = {}
                 PROVE  StepInv'
      BY DEF StepInv, DistinctTimes, Clash
    <3>1. Ours(q)
      BY <1>5 DEF Ours
    <3>2. ChangeOf(q).user_data = ChangePasswdData(call.new, call.target)
      BY <3>1, ServerReads
    <3>3. Account(call.target) = Me /\ passwords'[Me] = call.new
      BY <1>2, <1>5, <3>2 DEF ChangePasswdData
    <3> QED BY <1>1, <2>3, <3>1, <3>3 DEF StepInv, Ours, DistinctTimes, Clash
  <2> QED BY <2>3, <2>4 DEF IInv
<1> QED BY <1>3, <1>4, <1>5, ServerCases

LEMMA OtherStep == ASSUME IInv, NEW p \in Passwords, OtherChange(p) PROVE IInv'
<1> USE DEF IInv, OtherChange, networkVars
<1>1. StateInv' /\ CallInv'
  BY DEF StateInv, CallInv
<1>2. RequestInv' /\ SentInv'
  BY DEF RequestInv, SentInv, Ours
<1>3. ReplyInv' /\ AnswerInv'
  BY DEF ReplyInv, AnswerInv
<1>4. FirstTryInv' /\ ResultIsOurs'
  BY DEF FirstTryInv, ResultIsOurs, Ours, DistinctTimes, Clash
<1>5. StepInv'
  BY DEF StepInv, DistinctTimes, Clash
<1> QED BY <1>1, <1>2, <1>3, <1>4, <1>5

LEMMA TickStep == ASSUME IInv, Tick \/ UNCHANGED vars PROVE IInv'
<1> USE DEF IInv, Tick, vars, serverVars, networkVars
<1>0. StateInv'
  BY DEF StateInv
<1>1. CallInv' /\ RequestInv' /\ SentInv' /\ ReplyInv' /\ AnswerInv'
  BY DEF CallInv, RequestInv, SentInv, ReplyInv, AnswerInv, Ours
<1>2. FirstTryInv' /\ ResultIsOurs' /\ StepInv'
  BY DEF FirstTryInv, ResultIsOurs, StepInv, Ours, DistinctTimes, Clash
<1> QED BY <1>0, <1>1, <1>2

-----------------------------------------------------------------------------
(* Where nothing goes wrong.                                                *)

\* The reply that reaches a call is the answer to its request, and taken.
LEMMA ReceivedInOrder ==
    ASSUME IInv, OInv, ~ config.troubled, DistinctTimes, call # Idle, call.pc = "wait",
           NEW frame \in Arriving
    PROVE  /\ \E r \in replies : r[1] = number
           /\ \E code \in Codes :
                 /\ <<number, code>> \in answers
                 /\ Outcome(frame, call.request)
                       = IF code = KPASSWD_SUCCESS THEN "ok" ELSE "refused"
<1>1. PICK r \in replies : r[1] = number /\ frame = r[2]
  BY DEF Arriving
<1>2. PICK q \in requests, code \in Codes :
         q[2] = number /\ IsAnswer(r[2], q, code) /\ <<number, code>> \in answers
  BY <1>1 DEF OInv, OrderInv, CallOrder, ReplyOrder, DistinctTimes, Clash
<1>3. call.request.ap_req = ReqOf(q)
  BY <1>2 DEF IInv, RequestInv, Ours
<1>4. Outcome(frame, call.request) = IF code = KPASSWD_SUCCESS THEN "ok" ELSE "refused"
  BY <1>1, <1>2, <1>3, OwnAnswerOutcome
<1> QED BY <1>1, <1>2, <1>4

LEMMA ChangeInOrder ==
    ASSUME IInv, OInv, NEW t, NEW p, change_password_for(t, p)
    PROVE  OInv'
<1> USE DEF change_password_for, serverVars, networkVars
<1>1. /\ call'.timestamp = clock /\ call' # Idle /\ number' = number + 1
      /\ clock \in Int /\ number \in Nat /\ call = Idle
  BY DEF Idle, IInv, StateInv
<1>2. ~ config.troubled /\ DistinctTimes => clock' - call'.timestamp <= Skew
  BY <1>1, ChangeAssumption
<1>3. \A q \in requests : ~ Ours(q)
  BY <1>1 DEF Ours
<1>4. OrderInv'
  <2> SUFFICES ASSUME ~ config.troubled, DistinctTimes PROVE OrderInv'
    BY DEF OrderInv, DistinctTimes, Clash
  <2>1. \A n \in 1 .. number' : n \in 1 .. number \/ \A c : <<n, c>> \notin answers
    BY <1>1 DEF IInv, StateInv
  <2>2. \A r \in results : r[1] \in 1 .. number' /\ r[1] # number'
    BY <1>1 DEF OInv, OrderInv, CallOrder, ReplyOrder, DistinctTimes, Clash
  <2> QED BY <1>1, <1>2, <1>3, <2>1, <2>2
    DEF OInv, OrderInv, CallOrder, ReplyOrder, DistinctTimes, Clash
<1>5. ChangeSucceeds'
  BY DEF OInv, ChangeSucceeds, DistinctTimes, Clash
<1> QED BY <1>4, <1>5 DEF OInv

LEMMA LoginInOrder == ASSUME IInv, OInv, LoginOk PROVE OInv'
<1>1. call # Idle
  BY DEF LoginOk, Idle
<1>2. call' # Idle /\ call'.timestamp = call.timestamp
  BY <1>1 DEF LoginOk, Idle, IInv, CallInv
<1>3. UNCHANGED <<config, clock, number, requests, replies, seen, answers, causes, results>>
  BY DEF LoginOk, serverVars, networkVars
<1>4. OrderInv'
  <2>1. ~ config.troubled /\ DistinctTimes => CallOrder'
    BY <1>1, <1>2, <1>3 DEF OInv, OrderInv, CallOrder, Ours, DistinctTimes, Clash
  <2>2. ~ config.troubled /\ DistinctTimes => ReplyOrder'
    BY <1>3 DEF OInv, OrderInv, ReplyOrder, DistinctTimes, Clash
  <2> QED BY <1>3, <2>1, <2>2 DEF OrderInv, DistinctTimes, Clash
<1>5. ChangeSucceeds'
  BY <1>3 DEF OInv, ChangeSucceeds, DistinctTimes, Clash
<1> QED BY <1>4, <1>5 DEF OInv

\* A call ends after its own reply, or without a request.
LEMMA ReturnInOrder ==
    ASSUME IInv, OInv, call # Idle, NEW result, Return(result),
           UNCHANGED <<config, clock, number, passwords, seen, answers, requests, replies>>,
           ~ config.troubled /\ DistinctTimes =>
               /\ call.tries = 0 \/ \E r \in replies : r[1] = number
               /\ config.credentials = "password" /\ causes' = {} =>
                     /\ result # "error" /\ result # "denied"
                     /\ <<number, KPASSWD_SUCCESS>> \in answers => result = "ok"
    PROVE  OInv'
<1>0. /\ call' = Idle /\ results' = results \cup {<<number, result>>}
      /\ causes \subseteq causes'
  BY DEF Return
<1>1. OrderInv'
  <2> SUFFICES ASSUME ~ config.troubled, DistinctTimes PROVE OrderInv'
    BY DEF OrderInv, DistinctTimes, Clash
  <2>1. \A q \in requests : \E r \in replies : r[1] = q[2]
    <3> SUFFICES ASSUME NEW q \in requests PROVE \E r \in replies : r[1] = q[2]
      OBVIOUS
    <3>1. CASE Ours(q)
      <4>1. call.tries # 0 /\ q[2] = number
        BY <3>1 DEF IInv, RequestInv, Ours
      <4> QED BY <4>1
    <3>2. CASE ~ Ours(q)
      BY <3>2 DEF OInv, OrderInv, CallOrder, ReplyOrder, DistinctTimes, Clash
    <3> QED BY <3>1, <3>2
  <2>2. \A r \in results' : r[1] \in 1 .. number
    <3>1. number \in 1 .. number
      BY DEF IInv, CallInv, StateInv
    <3> QED BY <1>0, <3>1 DEF OInv, OrderInv, CallOrder, ReplyOrder, DistinctTimes, Clash
  <2> QED BY <1>0, <2>1, <2>2
    DEF OInv, OrderInv, CallOrder, ReplyOrder, DistinctTimes, Clash
<1>2. ChangeSucceeds'
  <2> SUFFICES ASSUME ~ config.troubled, config.credentials = "password", causes' = {},
                      DistinctTimes,
                      NEW r \in results'
               PROVE  /\ r[2] # "error" /\ r[2] # "denied"
                      /\ <<r[1], KPASSWD_SUCCESS>> \in answers => r[2] = "ok"
    BY DEF ChangeSucceeds, DistinctTimes
  <2>1. CASE r \in results
    BY <1>0, <2>1 DEF OInv, ChangeSucceeds
  <2>2. CASE r = <<number, result>>
    BY <2>2
  <2> QED BY <1>0, <2>1, <2>2
<1> QED BY <1>1, <1>2 DEF OInv

LEMMA LoginFailsInOrder == ASSUME IInv, OInv, LoginFails PROVE OInv'
<1>1. call # Idle
  BY DEF LoginFails, Idle
<1>2. call.tries = 0
  BY <1>1 DEF LoginFails, IInv, CallInv
<1>3. ~ config.troubled /\ DistinctTimes /\ config.credentials = "password" => causes # {}
  BY <1>1, <1>2, NothingSent DEF LoginFails, IInv, StepInv
<1>4. /\ Return("error") /\ causes \subseteq causes'
      /\ UNCHANGED <<config, clock, number, passwords, seen, answers, requests, replies>>
  BY DEF LoginFails, Return, serverVars, networkVars
<1> QED BY <1>1, <1>2, <1>3, <1>4, ReturnInOrder

LEMMA ReceiveInOrder ==
    ASSUME IInv, OInv, NEW frame \in Arriving, Receive(frame)
    PROVE  OInv'
<1>1. call # Idle /\ call.pc = "wait" /\ number \in 1 .. number
  BY DEF Receive, Idle, IInv, CallInv, StateInv
<1>2. PICK outcome : outcome = Outcome(frame, call.request)
  OBVIOUS
<1>3. ~ config.troubled /\ DistinctTimes =>
         /\ \E r \in replies : r[1] = number
         /\ outcome \in {"ok", "refused"}
         /\ <<number, KPASSWD_SUCCESS>> \in answers => outcome = "ok"
  <2> SUFFICES ASSUME ~ config.troubled, DistinctTimes PROVE <1>3!2
    OBVIOUS
  <2>1. PICK code \in Codes :
           /\ <<number, code>> \in answers
           /\ outcome = IF code = KPASSWD_SUCCESS THEN "ok" ELSE "refused"
    BY <1>1, <1>2, ReceivedInOrder
  <2>2. \E r \in replies : r[1] = number
    BY <1>1, ReceivedInOrder
  <2>3. <<number, KPASSWD_SUCCESS>> \in answers => code = KPASSWD_SUCCESS
    BY <1>1, <2>1 DEF OInv, OrderInv, CallOrder, ReplyOrder, Codes, DistinctTimes, Clash
  <2> QED BY <2>1, <2>2, <2>3
<1>4. /\ Return(outcome)
      /\ UNCHANGED <<config, clock, number, passwords, seen, answers, requests, replies>>
  BY <1>2 DEF Receive, Finish, serverVars, networkVars
<1> QED BY <1>1, <1>3, <1>4, ReturnInOrder

LEMMA SendInOrder == ASSUME IInv, OInv, NEW s \in Servers, Send(s) PROVE OInv'
<1>1. call # Idle
  BY DEF Send, Idle
<1>2. call' # Idle /\ call'.timestamp = call.timestamp
  BY <1>1 DEF Send, Idle, IInv, CallInv
<1>3. PICK q : q[2] = number /\ requests' = requests \cup {q}
  <2>1. PICK q : q = <<s, number, EncodeRequest(call.request)>>
    OBVIOUS
  <2> QED BY <2>1 DEF Send
<1>4. UNCHANGED <<config, clock, number, replies, seen, answers, causes, results>>
  BY DEF Send, serverVars
<1>7. DistinctTimes' => DistinctTimes
  BY <1>3 DEF DistinctTimes
<1>5. OrderInv'
  <2>1. \A p \in requests' : Ours(p)' \/ (p \in requests /\ ~ Ours(p))
    BY <1>1, <1>2, <1>3, <1>4 DEF Ours
  <2>2. ~ config.troubled /\ DistinctTimes => CallOrder'
    BY <1>1, <1>2, <1>3, <1>4, <2>1 DEF OInv, OrderInv, CallOrder
  <2>3. ~ config.troubled /\ DistinctTimes => ReplyOrder'
    <3> SUFFICES ASSUME ~ config.troubled, DistinctTimes, ReplyOrder PROVE ReplyOrder'
      BY DEF OInv, OrderInv
    <3> QED BY <1>3, <1>4 DEF ReplyOrder
  <2> QED BY <1>4, <1>7, <2>2, <2>3 DEF OrderInv
<1>6. ChangeSucceeds'
  BY <1>4, <1>7 DEF OInv, ChangeSucceeds
<1> QED BY <1>5, <1>6 DEF OInv

\* A server has the request of the call that waits, for the first time and in
\* time.
LEMMA HandledInOrder ==
    ASSUME IInv, OInv, ~ config.troubled, DistinctTimes, NEW q \in requests,
           \A r \in replies : r[1] # q[2]
    PROVE  Ours(q) /\ Fresh(q[1], ReqOf(q))
<1>1. Ours(q)
  BY DEF OInv, OrderInv, CallOrder, ReplyOrder, DistinctTimes, Clash
<1>2. ReqOf(q).time = call.timestamp /\ clock - call.timestamp <= Skew
  BY <1>1
    DEF IInv, RequestInv, CallInv, Ours, OInv, OrderInv, CallOrder, ReplyOrder, DistinctTimes, Clash
<1>3. ASSUME <<q[1], ReqOf(q).time>> \in seen PROVE FALSE
  <2>1. PICK p \in requests : /\ ReqOf(p).time = ReqOf(q).time
                              /\ \E r \in replies : r[1] = p[2]
    BY <1>3 DEF OInv, OrderInv, ReplyOrder
  <2>2. q[3].body[1] = ReqOf(q) /\ p[3].body[1] = ReqOf(p)
    BY DEF IInv, RequestInv
  <2>3. p[2] = q[2]
    BY <2>1, <2>2 DEF DistinctTimes, Clash
  <2> QED BY <2>1, <2>3
<1> QED BY <1>1, <1>2, <1>3 DEF Fresh

LEMMA ServerInOrder ==
    ASSUME IInv, OInv, NEW q \in requests, ServerHandles(q)
    PROVE  OInv'
<1>1. /\ UNCHANGED <<config, clock, number, call, requests, results>>
      /\ causes \subseteq causes'
  BY ServerCases
<1> SUFFICES ASSUME ~ config.troubled, DistinctTimes PROVE OInv'
  BY <1>1 DEF OInv, OrderInv, CallOrder, ReplyOrder, ChangeSucceeds, DistinctTimes, Clash
<1>2. \A r \in replies : r[1] # q[2]
  BY ServerCases
<1>3. Ours(q) /\ Fresh(q[1], ReqOf(q))
  BY <1>2, HandledInOrder
<1>4. PICK code \in Codes : Answer(q[1], q, ReqOf(q), code)
  BY <1>3, ServerCases DEF Codes
<1>5. /\ answers' = answers \cup {<<q[2], code>>}
      /\ seen' = seen \cup {<<q[1], ReqOf(q).time>>}
  BY <1>4 DEF Answer
<1>6. PICK frame : IsAnswer(frame, q, code) /\ replies' = replies \cup {<<q[2], frame>>}
  BY <1>4, AnswerReply
<1>7. \A a \in answers : a[1] # q[2]
  BY <1>2 DEF OInv, OrderInv, CallOrder, ReplyOrder, DistinctTimes, Clash
<1>8. OrderInv'
  <2>1. call # Idle => clock - call.timestamp <= Skew
    BY DEF OInv, OrderInv, CallOrder, ReplyOrder, DistinctTimes, Clash
  <2>2. \A p \in requests : ~ Ours(p) => \E r \in replies' : r[1] = p[2]
    BY <1>6 DEF OInv, OrderInv, CallOrder, ReplyOrder, DistinctTimes, Clash
  <2>3. \A t \in seen' : \E p \in requests :
           ReqOf(p).time = t[2] /\ \E r \in replies' : r[1] = p[2]
    <3> SUFFICES ASSUME NEW t \in seen'
                 PROVE  \E p \in requests :
                           ReqOf(p).time = t[2] /\ \E r \in replies' : r[1] = p[2]
      OBVIOUS
    <3>1. CASE t \in seen
      BY <1>6, <3>1 DEF OInv, OrderInv, CallOrder, ReplyOrder, DistinctTimes, Clash
    <3>2. CASE t = <<q[1], ReqOf(q).time>>
      <4>1. <<q[2], frame>> \in replies'
        BY <1>6
      <4> QED BY <3>2, <4>1
    <3> QED BY <1>5, <3>1, <3>2
  <2>4. \A r \in replies' : \E p \in requests, c \in Codes :
           r[1] = p[2] /\ IsAnswer(r[2], p, c) /\ <<p[2], c>> \in answers'
    <3> SUFFICES ASSUME NEW r \in replies'
                 PROVE  \E p \in requests, c \in Codes :
                           r[1] = p[2] /\ IsAnswer(r[2], p, c) /\ <<p[2], c>> \in answers'
      OBVIOUS
    <3>1. CASE r \in replies
      BY <1>5, <3>1 DEF OInv, OrderInv, CallOrder, ReplyOrder, DistinctTimes, Clash
    <3>2. CASE r = <<q[2], frame>>
      BY <1>5, <1>6, <3>2
    <3> QED BY <1>6, <3>1, <3>2
  <2>5. \A a \in answers' : \E r \in replies' : r[1] = a[1]
    <3> SUFFICES ASSUME NEW a \in answers' PROVE \E r \in replies' : r[1] = a[1]
      OBVIOUS
    <3>1. CASE a \in answers
      BY <1>6, <3>1 DEF OInv, OrderInv, CallOrder, ReplyOrder, DistinctTimes, Clash
    <3>2. CASE a = <<q[2], code>>
      <4>1. <<q[2], frame>> \in replies'
        BY <1>6
      <4> QED BY <3>2, <4>1
    <3> QED BY <1>5, <3>1, <3>2
  <2>6. \A n \in 1 .. number : \A c, d \in Codes :
           <<n, c>> \in answers' /\ <<n, d>> \in answers' => c = d
    BY <1>5, <1>7 DEF OInv, OrderInv, CallOrder, ReplyOrder, DistinctTimes, Clash
  <2>7. \A r \in results : r[1] \in 1 .. number /\ (r[1] = number => call = Idle)
    BY DEF OInv, OrderInv, CallOrder, ReplyOrder, DistinctTimes, Clash
  <2> QED BY <1>1, <2>1, <2>2, <2>3, <2>4, <2>5, <2>6, <2>7
    DEF OrderInv, CallOrder, ReplyOrder, Ours, DistinctTimes, Clash
<1>9. ChangeSucceeds'
  <2>1. \A r \in results : r[1] # q[2]
    BY <1>3 DEF OInv, OrderInv, CallOrder, ReplyOrder, Ours, DistinctTimes, Clash
  <2> QED BY <1>1, <1>5, <2>1 DEF OInv, ChangeSucceeds, DistinctTimes, Clash
<1> QED BY <1>8, <1>9 DEF OInv

LEMMA TickInOrder ==
    ASSUME IInv, OInv, Tick \/ UNCHANGED vars
    PROVE  OInv'
<1>1. UNCHANGED <<config, number, call, requests, replies, seen, answers, causes, results>>
  BY DEF Tick, vars, serverVars, networkVars
<1>2. ~ config.troubled /\ DistinctTimes /\ call # Idle => clock' - call.timestamp <= Skew
  BY ChangeAssumption
    DEF Tick, vars, Overdue, OInv, OrderInv, CallOrder, IInv, StateInv, CallInv
<1>3. OrderInv'
  BY <1>1, <1>2 DEF OInv, OrderInv, CallOrder, ReplyOrder, Ours, DistinctTimes, Clash
<1>4. ChangeSucceeds'
  BY <1>1 DEF OInv, ChangeSucceeds, DistinctTimes, Clash
<1> QED BY <1>3, <1>4 DEF OInv

-----------------------------------------------------------------------------
(* Theorems.                                                                *)

\* The invariant holds of every behaviour.
THEOREM Invariance == Spec => []IInv
<1>1. Init => IInv
  <2> SUFFICES ASSUME Init PROVE IInv
    OBVIOUS
  <2> USE DEF Init
  <2>1. StateInv
    BY ChangeAssumption DEF StateInv
  <2>2. CallInv /\ RequestInv /\ SentInv /\ ReplyInv /\ AnswerInv /\ FirstTryInv
    BY DEF CallInv, RequestInv, SentInv, ReplyInv, AnswerInv, FirstTryInv
  <2>3. StepInv /\ ResultIsOurs
    BY ChangeAssumption DEF StepInv, ResultIsOurs, DistinctTimes, Clash
  <2> QED BY <2>1, <2>2, <2>3 DEF IInv
<1>2. IInv /\ [Next]_vars => IInv'
  <2> SUFFICES ASSUME IInv, [Next]_vars PROVE IInv'
    OBVIOUS
  <2>1. CASE \E t \in config.targets, p \in Passwords \ {InitialPassword} :
                change_password_for(t, p)
    BY <2>1, ChangeStep
  <2>2. CASE LoginOk
    BY <2>2, LoginStep
  <2>3. CASE LoginFails \/ Exhausted \/ Cancel
    BY <2>3, FailureStep
  <2>4. CASE \E s \in Servers : Send(s)
    BY <2>4, SendStep
  <2>5. CASE AttemptFails
    BY <2>5, RetryStep
  <2>6. CASE \E frame \in Arriving : Receive(frame)
    BY <2>6, ReceiveStep
  <2>7. CASE \E q \in requests : ServerHandles(q)
    BY <2>7, ServerStep
  <2>8. CASE \E p \in Passwords : OtherChange(p)
    BY <2>8, OtherStep
  <2>9. CASE Tick \/ UNCHANGED vars
    BY <2>9, TickStep
  <2> QED BY <2>1, <2>2, <2>3, <2>4, <2>5, <2>6, <2>7, <2>8, <2>9 DEF Next
<1> QED BY <1>1, <1>2, PTL DEF Spec

\* What a call reports as success or as a refusal is what a server answered to
\* this call, with any number of calls, servers, retries and late replies.
THEOREM ResultsAreOurs == Spec => []ResultIsOurs
<1>1. IInv => ResultIsOurs
  BY DEF IInv
<1> QED BY <1>1, Invariance, PTL

\* The client's password follows that of the database, but for the causes that
\* are listed.
THEOREM CredentialsInStep == Spec => []CredentialInStep
<1>1. IInv => CredentialInStep
  BY DEF IInv, StepInv, CredentialInStep, DistinctTimes, Clash
<1> QED BY <1>1, Invariance, PTL

\* With servers that answer in time and a caller that waits, every call with
\* the right password ends with the server's own answer.
THEOREM ChangesSucceed == Spec => []ChangeSucceeds
<1>1. Init => OInv
  BY DEF Init, OInv, OrderInv, CallOrder, ReplyOrder, ChangeSucceeds, DistinctTimes, Clash
<1>2. IInv /\ OInv /\ [Next]_vars => OInv'
  <2> SUFFICES ASSUME IInv, OInv, [Next]_vars PROVE OInv'
    OBVIOUS
  <2>1. CASE \E t \in config.targets, p \in Passwords \ {InitialPassword} :
                change_password_for(t, p)
    BY <2>1, ChangeInOrder
  <2>2. CASE LoginOk
    BY <2>2, LoginInOrder
  <2>3. CASE LoginFails
    BY <2>3, LoginFailsInOrder
  <2>4. CASE \E s \in Servers : Send(s)
    BY <2>4, SendInOrder
  <2>5. CASE AttemptFails \/ Exhausted \/ Cancel \/ \E p \in Passwords : OtherChange(p)
    <3>1. config.troubled /\ config' = config
      BY <2>5 DEF AttemptFails, Exhausted, Cancel, OtherChange
    <3> QED BY <3>1
      DEF OInv, OrderInv, CallOrder, ReplyOrder, ChangeSucceeds, DistinctTimes, Clash
  <2>6. CASE \E frame \in Arriving : Receive(frame)
    BY <2>6, ReceiveInOrder
  <2>7. CASE \E q \in requests : ServerHandles(q)
    BY <2>7, ServerInOrder
  <2>8. CASE Tick \/ UNCHANGED vars
    BY <2>8, TickInOrder
  <2> QED BY <2>1, <2>2, <2>3, <2>4, <2>5, <2>6, <2>7, <2>8 DEF Next
<1>3. OInv => ChangeSucceeds
  BY DEF OInv
<1> QED BY <1>1, <1>2, <1>3, Invariance, PTL DEF Spec
=============================================================================
