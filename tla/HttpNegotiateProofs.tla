------------------------ MODULE HttpNegotiateProofs -------------------------
(***************************************************************************)
(* HTTP Negotiate from end to end, for any calls, services, layer options,  *)
(* strays and times: whose tokens the caches hold, how often the wrapped    *)
(* service runs, and what a verified AP-REP says.                           *)
(***************************************************************************)
EXTENDS HttpNegotiate, SequenceTheorems, TLAPS

-----------------------------------------------------------------------------
(* Fields of negotiation tokens.                                            *)

\* Fields with known tags, each of them once.
Distinct(fields) ==
    /\ KnownTags(fields)
    /\ \A i, j \in DOMAIN fields : fields[i][1] = fields[j][1] => i = j

\* A sequence of fields with some of the tags, each once.
FieldsOf(fields, tags) ==
    /\ \E S : fields \in Seq(S)
    /\ Distinct(fields)
    /\ \A i \in DOMAIN fields : fields[i][1] \in tags

LEMMA NoFields == FieldsOf(<<>>, {})
<1>1. <<>> \in Seq({})
  OBVIOUS
<1> QED BY <1>1 DEF FieldsOf, Distinct, KnownTags

LEMMA OneMoreField ==
    ASSUME NEW fields, NEW tags, FieldsOf(fields, tags),
           NEW tag, tag \in 0 .. 3, tag \notin tags, NEW value
    PROVE  /\ FieldsOf(Push(fields, tag, value), tags \cup {tag})
           /\ FieldValue(Push(fields, tag, value), tag) = value
           /\ \A k : k # tag => FieldValue(Push(fields, tag, value), k) = FieldValue(fields, k)
<1>1. PICK S : fields \in Seq(S)
  BY DEF FieldsOf
<1>2. Distinct(fields) /\ \A i \in DOMAIN fields : fields[i][1] # tag
  BY DEF FieldsOf
<1>3. PICK pushed : pushed = Push(fields, tag, value)
  OBVIOUS
<1>4. /\ pushed \in Seq(S \cup {<<tag, value>>})
      /\ Distinct(pushed)
      /\ FieldValue(pushed, tag) = value
      /\ \A k : k # tag => FieldValue(pushed, k) = FieldValue(fields, k)
      /\ \A i \in DOMAIN pushed :
            pushed[i][1] = tag \/ \E j \in DOMAIN fields : pushed[i][1] = fields[j][1]
  <2>1. CASE value = Nil
    <3>1. pushed = fields
      BY <1>3, <2>1 DEF Push
    <3>2. FieldValue(fields, tag) = Nil
      BY <1>2 DEF FieldValue
    <3>3. fields \in Seq(S \cup {<<tag, value>>})
      BY <1>1
    <3> QED BY <1>2, <2>1, <3>1, <3>2, <3>3
  <2>2. CASE value # Nil
    <3>0. PICK field : field = <<tag, value>>
      OBVIOUS
    <3>1. pushed = Append(fields, field)
      BY <1>3, <2>2, <3>0 DEF Push
    <3>2. field[1] = tag /\ field[2] = value
      BY <3>0
    <3>3. fields \in Seq(S \cup {field}) /\ field \in S \cup {field}
      BY <1>1
    <3>4. /\ pushed \in Seq(S \cup {field})
          /\ Len(pushed) = Len(fields) + 1
          /\ DOMAIN pushed = 1 .. Len(fields) + 1 /\ DOMAIN fields = 1 .. Len(fields)
          /\ \A i \in 1 .. Len(fields) : pushed[i] = fields[i]
          /\ pushed[Len(fields) + 1] = field
          /\ Len(fields) \in Nat
      BY <3>1, <3>3
    <3>5. Distinct(pushed)
      BY <1>2, <3>2, <3>4 DEF Distinct, KnownTags
    <3>6. FieldValue(pushed, tag) = value
      <4> DEFINE found == {i \in DOMAIN pushed : pushed[i][1] = tag}
      <4>1. found = {Len(fields) + 1}
        BY <1>2, <3>2, <3>4
      <4>2. LastOf(found) = Len(fields) + 1
        BY <3>4, <4>1 DEF LastOf
      <4> QED BY <3>2, <3>4, <4>1, <4>2 DEF FieldValue
    <3>7. ASSUME NEW k, k # tag PROVE FieldValue(pushed, k) = FieldValue(fields, k)
      <4> DEFINE found == {i \in DOMAIN pushed : pushed[i][1] = k}
                 before == {i \in DOMAIN fields : fields[i][1] = k}
      <4>1. found = before
        BY <3>2, <3>4, <3>7
      <4>2. CASE found = {}
        BY <4>1, <4>2 DEF FieldValue
      <4>3. CASE found # {}
        <5>1. PICK i \in before : before = {i} /\ i \in 1 .. Len(fields)
          BY <1>2, <3>4, <4>1, <4>3 DEF Distinct
        <5>2. LastOf(before) = i
          BY <3>4, <5>1 DEF LastOf
        <5>3. LastOf(found) = i
          BY <4>1, <5>2
        <5> QED BY <3>4, <4>1, <4>3, <5>1, <5>2, <5>3 DEF FieldValue
      <4> QED BY <4>2, <4>3
    <3>8. \A i \in DOMAIN pushed :
             pushed[i][1] = tag \/ \E j \in DOMAIN fields : pushed[i][1] = fields[j][1]
      BY <3>2, <3>4
    <3>9. pushed \in Seq(S \cup {<<tag, value>>})
      BY <3>0, <3>4
    <3> QED BY <3>5, <3>6, <3>7, <3>8, <3>9
  <2> QED BY <2>1, <2>2
<1>5. FieldsOf(pushed, tags \cup {tag})
  BY <1>4 DEF FieldsOf
<1> QED BY <1>3, <1>4, <1>5

\* NegTokenInit::encode, read again.
LEMMA InitFields ==
    ASSUME NEW mechs, NEW token
    PROVE  LET fields == EncodeNegTokenInit(NegTokenInit(mechs, token))
           IN  /\ KnownTags(fields)
               /\ FieldValue(fields, 0) = mechs /\ FieldValue(fields, 2) = token
<1>1. PICK one : one = Push(<<>>, 0, mechs)
  OBVIOUS
<1>2. PICK two : two = Push(one, 2, token)
  OBVIOUS
<1>3. FieldsOf(one, {0}) /\ FieldValue(one, 0) = mechs
  <2>1. 0 \in 0 .. 3 /\ 0 \notin {} /\ {} \cup {0} = {0}
    OBVIOUS
  <2> QED BY <1>1, <2>1, NoFields, OneMoreField
<1>4. /\ FieldsOf(two, {0} \cup {2}) /\ FieldValue(two, 2) = token
      /\ FieldValue(two, 0) = FieldValue(one, 0)
  <2>1. 2 \in 0 .. 3 /\ 2 \notin {0} /\ 0 # 2
    OBVIOUS
  <2> QED BY <1>2, <1>3, <2>1, OneMoreField
<1>5. EncodeNegTokenInit(NegTokenInit(mechs, token)) = two
  BY <1>1, <1>2 DEF EncodeNegTokenInit, NegTokenInit
<1> QED BY <1>3, <1>4, <1>5 DEF FieldsOf, Distinct

\* NegTokenResp::encode, read again.
LEMMA RespFields ==
    ASSUME NEW state, NEW mech, NEW token
    PROVE  LET fields == EncodeNegTokenResp(NegTokenResp(state, mech, token))
           IN  /\ KnownTags(fields)
               /\ FieldValue(fields, 0) = IF state = Nil THEN Nil ELSE NegStateValue(state)
               /\ FieldValue(fields, 1) = mech /\ FieldValue(fields, 2) = token
<1>0. PICK value : value = IF state = Nil THEN Nil ELSE NegStateValue(state)
  OBVIOUS
<1>1. PICK one : one = Push(<<>>, 0, value)
  OBVIOUS
<1>2. PICK two : two = Push(one, 1, mech)
  OBVIOUS
<1>3. PICK three : three = Push(two, 2, token)
  OBVIOUS
<1>4. FieldsOf(one, {0}) /\ FieldValue(one, 0) = value
  <2>1. 0 \in 0 .. 3 /\ 0 \notin {} /\ {} \cup {0} = {0}
    OBVIOUS
  <2> QED BY <1>1, <2>1, NoFields, OneMoreField
<1>5. /\ FieldsOf(two, {0, 1}) /\ FieldValue(two, 1) = mech
      /\ FieldValue(two, 0) = FieldValue(one, 0)
  <2>1. 1 \in 0 .. 3 /\ 1 \notin {0} /\ 0 # 1 /\ {0} \cup {1} = {0, 1}
    OBVIOUS
  <2> QED BY <1>2, <1>4, <2>1, OneMoreField
<1>6. /\ FieldsOf(three, {0, 1} \cup {2}) /\ FieldValue(three, 2) = token
      /\ FieldValue(three, 0) = FieldValue(two, 0) /\ FieldValue(three, 1) = FieldValue(two, 1)
  <2>1. 2 \in 0 .. 3 /\ 2 \notin {0, 1} /\ 0 # 2 /\ 1 # 2
    OBVIOUS
  <2> QED BY <1>3, <1>5, <2>1, OneMoreField
<1>7. EncodeNegTokenResp(NegTokenResp(state, mech, token)) = three
  BY <1>0, <1>1, <1>2, <1>3 DEF EncodeNegTokenResp, NegTokenResp
<1> QED BY <1>0, <1>4, <1>5, <1>6, <1>7 DEF FieldsOf, Distinct

-----------------------------------------------------------------------------
(* The AP-REQ that a service finds in the bytes it is given.                *)

\* An initial token for Kerberos, or for another mechanism.
LEMMA InitMessage ==
    ASSUME NEW mechs, NEW token
    PROVE  LET found == krb5_ap_req(parse_negotiate_header(
                            EncodeSpnegoToken(NegTokenInit(mechs, token))))
           IN  /\ found \in {Krb5Message(token), Nil}
               /\ mechs = <<"krb5">> /\ mechs # Nil => found = krb5_ap_req(NegTokenInit(mechs, token))
<1> DEFINE t == NegTokenInit(mechs, token)
           bytes == EncodeSpnegoToken(t)
<1>1. /\ bytes.form = "spnego" /\ bytes.choice = "init"
      /\ bytes.fields = EncodeNegTokenInit(t)
  BY DEF EncodeSpnegoToken, NegTokenInit
<1>2. parse_negotiate_header(bytes) = decode_neg_token_init(bytes.fields)
  BY <1>1 DEF parse_negotiate_header, DecodeSpnegoToken
<1>3. decode_neg_token_init(bytes.fields) = IF mechs \notin {Nil, <<>>} THEN t ELSE Malformed
  BY <1>1, InitFields DEF decode_neg_token_init
<1>4. krb5_ap_req(t) \in {Krb5Message(token), Nil}
  BY DEF krb5_ap_req, NegTokenInit
<1>5. krb5_ap_req(Malformed) = Nil
  <2>1. ~ ensure_kerberos_mechanism(<<>>)
    BY DEF ensure_kerberos_mechanism
  <2> QED BY <2>1 DEF krb5_ap_req, Malformed
<1>6. <<"krb5">> # <<>>
  OBVIOUS
<1> HIDE DEF t, bytes
<1> QED BY <1>2, <1>3, <1>4, <1>5, <1>6 DEF t, bytes

LEMMA RespMessage ==
    ASSUME NEW mech, NEW token
    PROVE  krb5_ap_req(parse_negotiate_header(EncodeSpnegoToken(NegTokenResp(Nil, mech, token))))
              \in {Krb5Message(token), Nil}
<1> DEFINE t == NegTokenResp(Nil, mech, token)
           bytes == EncodeSpnegoToken(t)
<1>1. /\ bytes.form = "spnego" /\ bytes.choice = "resp" /\ ~ bytes.wrapped
      /\ bytes.fields = EncodeNegTokenResp(t)
  BY DEF EncodeSpnegoToken, NegTokenResp
<1>2. parse_negotiate_header(bytes) = decode_neg_token_resp(bytes.fields)
  BY <1>1 DEF parse_negotiate_header, DecodeSpnegoToken
<1>3. decode_neg_token_resp(bytes.fields) = t
  BY <1>1, RespFields DEF decode_neg_token_resp
<1>4. krb5_ap_req(t) \in {Krb5Message(token), Nil}
  BY DEF krb5_ap_req, NegTokenResp
<1> HIDE DEF t, bytes
<1> QED BY <1>2, <1>3, <1>4 DEF t, bytes

LEMMA RawMessage ==
    ASSUME NEW token
    PROVE  Krb5Message(token) # Nil /\ Krb5Message(token).id = "ApReq" =>
              krb5_ap_req(parse_negotiate_header([form |-> "raw", token |-> token]))
                 \in {Krb5Message(token), Nil}
<1> SUFFICES ASSUME Krb5Message(token) # Nil, Krb5Message(token).id = "ApReq"
             PROVE  krb5_ap_req(parse_negotiate_header([form |-> "raw", token |-> token]))
                       \in {Krb5Message(token), Nil}
  OBVIOUS
<1>1. parse_negotiate_header([form |-> "raw", token |-> token]) = NegTokenInitKrb5(token)
  BY DEF parse_negotiate_header, raw_krb5_negotiate_token
<1>2. krb5_ap_req(NegTokenInitKrb5(token)) \in {Krb5Message(token), Nil}
  BY DEF krb5_ap_req, NegTokenInitKrb5, NegTokenInit
<1> QED BY <1>1, <1>2

\* Tokens that calls make, for short; as they arrive, with the service named
\* otherwise perhaps.
MessageAt(t) == ApReqOf(ContextAt(t))
TokenAt(t) == Token(ContextAt(t))
Sent(t, name) == Under(MessageAt(t), name)
FoundIn(bytes) == krb5_ap_req(parse_negotiate_header(bytes))

\* The message and the mech token of a call are there.
LEMMA MessageFacts ==
    ASSUME NEW t \in 0 .. MaxTime, NEW name \in Names
    PROVE  /\ Sent(t, name) # Nil /\ Sent(t, name).id = "ApReq"
           /\ Sent(t, name).key = TicketKey /\ Sent(t, name).client = Principal
           /\ Sent(t, name).service = name
           /\ Sent(t, name).ctime = t \div MicrosPerSecond
           /\ Sent(t, name).cusec = t % MicrosPerSecond
           /\ Krb5MechToken(Sent(t, name)) # Nil
           /\ Krb5Message(Krb5MechToken(Sent(t, name))) = Sent(t, name)
<1>1. Sent(t, name) # Nil /\ Krb5MechToken(Sent(t, name)) # Nil
  BY NilAssumption DEF Sent, MessageAt
<1>2. Krb5Message(Krb5MechToken(Sent(t, name))) = Sent(t, name)
  BY <1>1 DEF Krb5Message, Krb5MechToken
<1> QED BY <1>1, <1>2 DEF Sent, Under, MessageAt, ApReqOf, ContextAt

LEMMA SentAsMade == \A t : Sent(t, TicketName) = MessageAt(t)
  BY DEF Sent, Under, MessageAt, ApReqOf, ContextAt

\* A service finds the message in a mech token, however it is wrapped, or no
\* message; as the caller wraps it, it finds it.
LEMMA WrappedToken ==
    ASSUME NEW t \in 0 .. MaxTime, NEW name \in Names,
           NEW bytes \in Wrapped(Krb5MechToken(Sent(t, name)))
    PROVE  /\ ~ NoToken(bytes)
           /\ FoundIn(bytes) \in {Sent(t, name), Nil}
           /\ bytes = EncodeSpnegoToken(NegTokenInitKrb5(Krb5MechToken(Sent(t, name))))
                 => FoundIn(bytes) = Sent(t, name)
<1> DEFINE message == Sent(t, name)
           token == Krb5MechToken(message)
           made == EncodeSpnegoToken(NegTokenInitKrb5(token))
<1>1. /\ message # Nil /\ message.id = "ApReq" /\ token # Nil /\ Krb5Message(token) = message
  BY MessageFacts
<1>2. /\ made = EncodeSpnegoToken(NegTokenInit(<<"krb5">>, token))
      /\ bytes \in {made, [form |-> "raw", token |-> token],
                   EncodeSpnegoToken(NegTokenResp(Nil, "ms_legacy_krb5", token)),
                   EncodeSpnegoToken(NegTokenInit(<<"ntlm">>, token))}
  BY DEF Wrapped, NegTokenInitKrb5
<1> HIDE DEF message, token, made
<1>3. bytes.form \in {"spnego", "raw"}
  BY <1>2 DEF EncodeSpnegoToken, NegTokenResp, NegTokenInit
<1>4. krb5_ap_req(NegTokenInit(<<"krb5">>, token)) = message
  <2>1. ensure_kerberos_mechanism(<<"krb5">>)
    BY DEF ensure_kerberos_mechanism, KerberosMechanisms
  <2> QED BY <1>1, <2>1 DEF krb5_ap_req, NegTokenInit
<1>5. FoundIn(made) = message
  BY <1>2, <1>4, InitMessage, NilAssumption DEF FoundIn
<1>6. FoundIn(bytes) \in {message, Nil}
  BY <1>1, <1>2, <1>5, InitMessage, RespMessage, RawMessage DEF FoundIn
<1>7. ~ NoToken(bytes)
  BY <1>3 DEF NoToken
<1> QED BY <1>5, <1>6, <1>7 DEF message, token, made

\* What a service gets of the token of a call: an illegible header, or its
\* message with some name of the service.  Without trouble, the token as made.
LEMMA WrappedMessage ==
    ASSUME NEW t \in 0 .. MaxTime, NEW bytes \in Wrappings(TokenAt(t)),
           config.names \subseteq Names
    PROVE  /\ NoToken(bytes) => InTrouble
           /\ ~ NoToken(bytes) =>
                 \/ FoundIn(bytes) = Nil
                 \/ \E name \in Names : FoundIn(bytes) = Sent(t, name)
           /\ ~ InTrouble => FoundIn(bytes) = MessageAt(t)
<1> DEFINE token == Krb5MechToken(Sent(t, TicketName))
           made == TokenAt(t)
<1>1. made = EncodeSpnegoToken(NegTokenInitKrb5(token))
  BY SentAsMade DEF TokenAt, Token, MessageAt
<1>2. Krb5Message(token) = MessageAt(t)
  BY MessageFacts, SentAsMade, NameAssumption
<1> HIDE DEF token, made
<1>3. made.form = "spnego" /\ FieldValue(made.fields, 2) = token
  BY <1>1, InitFields DEF NegTokenInitKrb5, EncodeSpnegoToken, NegTokenInit
<1>4. made \in Wrapped(token)
  BY <1>1 DEF Wrapped
<1>5. CASE ~ InTrouble
  <2>1. bytes = made
    BY <1>5 DEF Wrappings, InTrouble, made
  <2>2. ~ NoToken(bytes) /\ FoundIn(bytes) = Sent(t, TicketName)
    BY <1>1, <1>4, <2>1, WrappedToken, NameAssumption DEF token
  <2> QED BY <1>5, <2>2, SentAsMade, NameAssumption
<1>6. CASE InTrouble
  <2>1. bytes = Illegible
        \/ \E name \in config.names : bytes \in Wrapped(Krb5MechToken(Sent(t, name)))
    BY <1>2, <1>3, <1>6 DEF Wrappings, InTrouble, made, Sent
  <2>2. CASE bytes = Illegible
    BY <1>6, <2>2 DEF Illegible, NoToken
  <2>3. ASSUME NEW name \in config.names, bytes \in Wrapped(Krb5MechToken(Sent(t, name)))
        PROVE  FoundIn(bytes) = Nil \/ \E n \in Names : FoundIn(bytes) = Sent(t, n)
    BY <2>3, WrappedToken
  <2> QED BY <1>6, <2>1, <2>2, <2>3
<1> QED BY <1>5, <1>6

-----------------------------------------------------------------------------
(* Response headers of the service.                                         *)

\* A header of one challenge has its bytes.
LEMMA OneChallenge ==
    ASSUME NEW bytes
    PROVE  /\ negotiate_challenge(<<Negotiate(bytes)>>) = bytes
           /\ <<Negotiate(bytes)>> # NotText
<1> DEFINE value == <<Negotiate(bytes)>>
<1>1. DOMAIN value = {1} /\ value[1].sym = "Negotiate" /\ value[1].bytes = bytes
  BY DEF Negotiate
<1>2. WwwAuthenticateSegments(value) = {1}
  <2> HIDE DEF value
  <2> QED BY <1>1 DEF WwwAuthenticateSegments
<1>3. {i \in WwwAuthenticateSegments(value) \cap DOMAIN value : value[i].sym = "Negotiate"} = {1}
  <2> HIDE DEF value
  <2> QED BY <1>1, <1>2
<1>4. FirstOf({1}) = 1
  BY DEF FirstOf
<1>5. negotiate_challenge(value) = bytes
  <2> HIDE DEF value
  <2> QED BY <1>1, <1>3, <1>4 DEF negotiate_challenge
<1>6. NotText[1].sym = "not text"
  BY DEF NotText
<1> QED BY <1>1, <1>5, <1>6

\* What a response with one challenge, none, or another scheme is taken for.
LEMMA OneHeader ==
    ASSUME NEW bytes, bytes # Nil
    PROVE  www_authenticate_negotiate_header(<< <<Negotiate(bytes)>> >>)
              = [error |-> "None", bytes |-> bytes]
<1> DEFINE value == <<Negotiate(bytes)>>
           headers == <<value>>
           decisive == {i \in DOMAIN headers : \/ headers[i] = NotText
                                              \/ negotiate_challenge(headers[i]) # Nil}
<1>1. negotiate_challenge(value) = bytes /\ value # NotText
  BY OneChallenge
<1> HIDE DEF value
<1>2. DOMAIN headers = {1} /\ headers[1] = value /\ headers # <<>>
  OBVIOUS
<1> HIDE DEF headers
<1>3. decisive = {1}
  BY <1>1, <1>2
<1>4. FirstOf({1}) = 1
  BY DEF FirstOf
<1>5. decisive # {} /\ headers[FirstOf(decisive)] = value
  BY <1>2, <1>3, <1>4
<1>6. www_authenticate_negotiate_header(headers) = [error |-> "None", bytes |-> bytes]
  BY <1>1, <1>2, <1>5 DEF www_authenticate_negotiate_header
<1> QED BY <1>6 DEF headers, value

LEMMA OtherHeaders ==
    /\ www_authenticate_negotiate_header(<<>>) = [error |-> "MissingWwwAuthenticate"]
    /\ www_authenticate_negotiate_header(<< <<Word>> >>)
          = [error |-> "MissingNegotiateChallenge"]
<1>1. www_authenticate_negotiate_header(<<>>) = [error |-> "MissingWwwAuthenticate"]
  <2>1. DOMAIN <<>> = {}
    OBVIOUS
  <2>2. {i \in DOMAIN <<>> : \/ <<>>[i] = NotText
                            \/ negotiate_challenge(<<>>[i]) # Nil} = {}
    BY <2>1
  <2> QED BY <2>2 DEF www_authenticate_negotiate_header
<1>2. www_authenticate_negotiate_header(<< <<Word>> >>)
         = [error |-> "MissingNegotiateChallenge"]
  <2> DEFINE value == <<Word>>
             headers == <<value>>
             decisive == {i \in DOMAIN headers : \/ headers[i] = NotText
                                                \/ negotiate_challenge(headers[i]) # Nil}
  <2>1. DOMAIN value = {1} /\ value[1].sym = "word"
    BY DEF Word
  <2> HIDE DEF value
  <2>2. {i \in WwwAuthenticateSegments(value) \cap DOMAIN value : value[i].sym = "Negotiate"} = {}
    BY <2>1
  <2>3. negotiate_challenge(value) = Nil
    BY <2>2 DEF negotiate_challenge
  <2>4. DOMAIN headers = {1} /\ headers[1] = value /\ headers # <<>>
    OBVIOUS
  <2> HIDE DEF headers
  <2>5. decisive = {}
    <3>1. NotText[1].sym = "not text"
      BY DEF NotText
    <3>2. value # NotText
      BY <2>1, <3>1
    <3> QED BY <2>3, <2>4, <3>2
  <2>6. www_authenticate_negotiate_header(headers) = [error |-> "MissingNegotiateChallenge"]
    BY <2>4, <2>5 DEF www_authenticate_negotiate_header
  <2> QED BY <2>6 DEF headers, value
<1> QED BY <1>1, <1>2

\* The service's challenge is answered with a token, and is nothing more.
LEMMA ChallengeHeader ==
    /\ should_retry_with_negotiate([status |-> 401,
           headers |-> << <<Negotiate([form |-> "bare"])>> >>]) = "retry"
    /\ \A context : classify_negotiate_response(context,
           << <<Negotiate([form |-> "bare"])>> >>) = "Challenge"
<1> DEFINE bytes == [form |-> "bare"]
           headers == << <<Negotiate(bytes)>> >>
<1>1. www_authenticate_negotiate_header(headers) = [error |-> "None", bytes |-> bytes]
  BY OneHeader, NilAssumption
<1>2. should_retry_with_negotiate([status |-> 401, headers |-> headers]) = "retry"
  <2> HIDE DEF headers
  <2> QED BY <1>1 DEF should_retry_with_negotiate
<1>3. parse_negotiate_header(bytes) = Malformed
  BY DEF parse_negotiate_header, DecodeSpnegoToken
<1>4. \A context : classify_negotiate_challenge(context, bytes) = "Challenge"
  BY <1>3 DEF classify_negotiate_challenge, Malformed
<1>5. \A context : classify_negotiate_response(context, headers) = "Challenge"
  <2> HIDE DEF headers
  <2> QED BY <1>1, <1>4 DEF classify_negotiate_response
<1> QED BY <1>2, <1>5

\* NegTokenResp, read again: the states that services send.
LEMMA RespToken ==
    ASSUME NEW state \in {"AcceptCompleted", "Reject"}, NEW mech, NEW token
    PROVE  LET t == NegTokenResp(state, mech, token)
           IN  parse_negotiate_header(EncodeSpnegoToken(t)) = t
<1> DEFINE t == NegTokenResp(state, mech, token)
           bytes == EncodeSpnegoToken(t)
<1>1. /\ bytes.form = "spnego" /\ bytes.choice = "resp" /\ ~ bytes.wrapped
      /\ bytes.fields = EncodeNegTokenResp(t)
  BY DEF EncodeSpnegoToken, NegTokenResp
<1>2. parse_negotiate_header(bytes) = decode_neg_token_resp(bytes.fields)
  BY <1>1 DEF parse_negotiate_header, DecodeSpnegoToken
<1>3. state # Nil
  BY NilAssumption
<1>4. NegStateValue(state) \in 0 .. 3 /\ NegStates[NegStateValue(state) + 1] = state
  <2>1. Len(NegStates) = 4 /\ NegStates[1] = "AcceptCompleted" /\ NegStates[3] = "Reject"
    BY DEF NegStates
  <2>2. \E i \in 1 .. Len(NegStates) : NegStates[i] = state
    <3>1. 1 \in 1 .. Len(NegStates) /\ 3 \in 1 .. Len(NegStates)
      BY <2>1
    <3> QED BY <2>1, <3>1
  <2>3. PICK i : i = CHOOSE j \in 1 .. Len(NegStates) : NegStates[j] = state
    OBVIOUS
  <2>4. i \in 1 .. 4 /\ NegStates[i] = state
    BY <2>1, <2>2, <2>3
  <2>5. NegStateValue(state) = i - 1
    BY <2>3 DEF NegStateValue
  <2>6. i - 1 \in 0 .. 3 /\ (i - 1) + 1 = i
    BY <2>4
  <2> QED BY <2>4, <2>5, <2>6
<1>5. NegStateValue(state) # Nil
  BY <1>4, NilAssumption
<1>6. /\ KnownTags(bytes.fields)
      /\ FieldValue(bytes.fields, 0) = NegStateValue(state)
      /\ FieldValue(bytes.fields, 1) = mech /\ FieldValue(bytes.fields, 2) = token
  BY <1>1, <1>3, RespFields
<1> HIDE DEF bytes
<1>7. decode_neg_token_resp(bytes.fields) = t
  BY <1>4, <1>5, <1>6 DEF decode_neg_token_resp
<1> QED BY <1>2, <1>7 DEF bytes

LEMMA RejectHeader ==
    ASSUME NEW context
    PROVE  classify_negotiate_response(context,
              << <<Negotiate(EncodeSpnegoToken(reject))>> >>) = "Rejected"
<1> DEFINE bytes == EncodeSpnegoToken(reject)
           headers == << <<Negotiate(bytes)>> >>
<1>1. www_authenticate_negotiate_header(headers) = [error |-> "None", bytes |-> bytes]
  BY OneHeader, NilAssumption
<1>2. parse_negotiate_header(bytes) = NegTokenResp("Reject", Nil, Nil) /\ bytes.form = "spnego"
  BY RespToken DEF reject, EncodeSpnegoToken, NegTokenResp
<1> HIDE DEF bytes, headers
<1>3. classify_negotiate_challenge(context, bytes) = "Rejected"
  BY <1>2, NilAssumption DEF classify_negotiate_challenge, NegTokenResp
<1>4. classify_negotiate_response(context, headers) = "Rejected"
  BY <1>1, <1>3 DEF classify_negotiate_response
<1> QED BY <1>4 DEF headers, bytes

\* The AP-REP to a token is accepted by the context of the same time, and only
\* by it.
LEMMA AcceptHeader ==
    ASSUME NEW context, NEW t \in 0 .. MaxTime
    PROVE  classify_negotiate_response(context, ApRepHeader(MessageAt(t)))
              = IF verify_ap_rep(context, MessageAt(t)) THEN "AcceptedMutually" ELSE "InvalidToken"
<1> DEFINE message == ApRepTo(MessageAt(t))
           token == Krb5MechToken(message)
           bytes == EncodeSpnegoToken(accept_completed(token))
           headers == << <<Negotiate(bytes)>> >>
<1>0. message # Nil /\ token # Nil /\ bytes # Nil
  BY NilAssumption DEF MessageAt
<1>1. /\ message.id = "ApRep"
      /\ message.key = MessageAt(t).key /\ message.ctime = MessageAt(t).ctime
      /\ message.cusec = MessageAt(t).cusec
  BY DEF ApRepTo
<1>2. www_authenticate_negotiate_header(headers) = [error |-> "None", bytes |-> bytes]
  BY <1>0, OneHeader
<1>3. /\ parse_negotiate_header(bytes) = NegTokenResp("AcceptCompleted", "krb5", token)
      /\ bytes.form = "spnego"
  BY RespToken DEF accept_completed, EncodeSpnegoToken, NegTokenResp
<1>4. ApRepHeader(MessageAt(t)) = headers
  BY DEF ApRepHeader
<1> HIDE DEF bytes, headers
<1>5. Krb5Message(token) = message
  BY <1>0 DEF Krb5Message, Krb5MechToken
<1> HIDE DEF token, message
<1>6. verify_ap_rep(context, message) = verify_ap_rep(context, MessageAt(t))
  BY <1>1 DEF verify_ap_rep
<1>7. classify_negotiate_challenge(context, bytes) =
         IF verify_ap_rep(context, message) THEN "AcceptedMutually" ELSE "InvalidToken"
  BY <1>0, <1>1, <1>3, <1>5, NilAssumption DEF classify_negotiate_challenge, NegTokenResp
<1>8. classify_negotiate_response(context, headers) = classify_negotiate_challenge(context, bytes)
  BY <1>2 DEF classify_negotiate_response
<1> QED BY <1>4, <1>6, <1>7, <1>8

\* An AP-REP does not tell under which name the ticket arrived.
LEMMA SameApRep == \A t, name : ApRepHeader(Sent(t, name)) = ApRepHeader(MessageAt(t))
  BY DEF ApRepHeader, ApRepTo, Sent, Under, MessageAt, ApReqOf

\* Neither are responses without a challenge an acceptance.
LEMMA PlainHeaders ==
    ASSUME NEW context
    PROVE  /\ classify_negotiate_response(context, <<>>) = "NoAuthenticateHeader"
           /\ classify_negotiate_response(context, << <<Word>> >>) = "NoNegotiateChallenge"
  BY OtherHeaders DEF classify_negotiate_response

-----------------------------------------------------------------------------
(* The inductive invariant.                                                 *)

StateInv ==
    /\ clock \in 0 .. MaxTime
    /\ call = [c \in Calls |-> call[c]]
    /\ \A c \in Calls : DOMAIN call[c] = {"pc", "context", "result"}
    /\ executions \in [Calls \X Names -> Nat]
    /\ config.names \subseteq Names

\* A request carries the token of its call's context, or none.
RequestInv ==
    \A r \in requests :
        /\ r.call \in Calls
        /\ r.made = Nil => r.authorization = NoAuthorization
        /\ r.made # Nil => /\ r.made \in 0 .. MaxTime
                           /\ r.authorization = TokenAt(r.made)
                           /\ call[r.call].context = ContextAt(r.made)

\* A call has a context from the time on when it sends it.
ContextInv ==
    \A c \in Calls :
        /\ call[c].context # NoContext => \E r \in requests : r.call = c /\ r.made # Nil
        /\ call[c].pc \in {"idle", "first", "context"} => call[c].context = NoContext
        /\ call[c].pc = "retry" => call[c].context # NoContext

\* What is recorded is the token of a request, under the call that made it and
\* some name of the service.
MemoryInv ==
    \A m \in memory : \E r \in requests, name \in Names :
        r.made # Nil /\ r.call = m[3] /\ m[2] = ReplayKey(Sent(r.made, name))

InMemory(c, name) ==
    \E m \in memory : m[1] = "layer" /\ m[2] = ReplayKey(Under(call[c].context, name))
Expired(c) == clock - ContextTime(call[c].context) > Skew

\* Once the service has run, the token is in the cache, or too old, or it was
\* forgotten in a restart; it is not forgotten twice.
ServedInv ==
    config.shared =>
        \A c \in Calls, name \in Names :
            \/ executions[<<c, name>>] = 0
            \/ /\ executions[<<c, name>>] = 1 /\ call[c].context # NoContext
               /\ InMemory(c, name) \/ Expired(c) \/ c \in exposed
            \/ /\ executions[<<c, name>>] = 2 /\ call[c].context # NoContext
               /\ InMemory(c, name) /\ c \in exposed

\* Headers that hold no AP-REP.
PlainHeader ==
    {<<>>, << <<Word>> >>, << <<Negotiate([form |-> "bare"])>> >>,
     << <<Negotiate(EncodeSpnegoToken(reject))>> >>}

\* An AP-REP on its way is one to a token that was accepted.
IsApRep(headers, c) ==
    \E r \in requests : /\ r.made # Nil /\ r.call = c /\ c \in accepted
                        /\ headers = ApRepHeader(MessageAt(r.made))

PendingInv == \A p \in pending : p[1] \in Calls /\ (p[2] = <<>> \/ IsApRep(p[2], p[1]))

ResponseInv ==
    \A x \in responses : \/ x.response.headers \in PlainHeader
                         \/ \E c \in Calls : IsApRep(x.response.headers, c)

\* The token of the call, or one of the same microsecond, was accepted.
Acknowledged(c) == c \in accepted \/ \E d \in accepted : SameInstant(c, d)

IInv ==
    /\ accepted \subseteq Calls
    /\ StateInv /\ RequestInv /\ ContextInv /\ MemoryInv /\ ServedInv
    /\ PendingInv /\ ResponseInv /\ AcceptedByServer

\* Without trouble: the states that a call passes through with the answer to
\* its last request on the way, which is the challenge before it has a token
\* and the acceptance after it.
AcceptedHeaders(c) ==
    IF config.emit_ap_rep THEN {ApRepHeader(ApReqOf(call[c].context))}
    ELSE {<<>>, << <<Word>> >>}

InOrder(c) ==
    /\ call[c].pc \in {"idle", "first", "context", "retry", "done"}
    /\ \A r \in requests : r.call = c =>
          call[c].pc # "idle" /\ (r.made = Nil \/ r.made <= clock)
    /\ \A x \in responses : x.call = c =>
          /\ call[c].pc \notin {"idle", "context"}
          /\ call[c].pc = "first" =>
                x.response = [status |-> 401, headers |-> << <<Negotiate([form |-> "bare"])>> >>]
          /\ call[c].pc = "retry" => x.response.headers \in AcceptedHeaders(c)
    /\ \A p \in pending : p[1] = c =>
          /\ call[c].pc \in {"retry", "done"}
          /\ call[c].pc = "retry" =>
                p[2] = IF config.emit_ap_rep THEN ApRepHeader(ApReqOf(call[c].context)) ELSE <<>>
    /\ call[c].pc = "retry" => clock - ContextTime(call[c].context) <= Skew
    /\ (\E m \in memory : m[3] = c) /\ call[c].pc = "retry" =>
          (\E x \in responses : x.call = c) \/ (\E p \in pending : p[1] = c)

\* The results of CallSucceeds.
InSuccess(c) ==
    call[c].result \in {"none", "Error"} \cup
        (IF config.emit_ap_rep THEN {"AcceptedMutually"}
         ELSE {"NoAuthenticateHeader", "NoNegotiateChallenge"})

OInv == ~ InTrouble => \A c \in Calls : Alone(c) => InOrder(c) /\ InSuccess(c)

-----------------------------------------------------------------------------
(* Times, contexts and replay keys.                                         *)

LEMMA OneTime ==
    ASSUME NEW t \in 0 .. MaxTime, NEW u \in 0 .. MaxTime,
           t \div MicrosPerSecond = u \div MicrosPerSecond,
           t % MicrosPerSecond = u % MicrosPerSecond
    PROVE  t = u
<1>1. MicrosPerSecond \in Nat /\ MicrosPerSecond > 0 /\ MaxTime \in Nat
  BY TimeAssumption
<1>2. PICK m : m = MicrosPerSecond
  OBVIOUS
<1>3. m \in Nat /\ m > 0 /\ t \in Nat /\ u \in Nat
  BY <1>1, <1>2
<1>4. t = (t \div m) * m + (t % m) /\ u = (u \div m) * m + (u % m)
  BY <1>3
<1> QED BY <1>2, <1>4

\* The context of a time holds that time, and its token the same replay key.
LEMMA ContextFacts ==
    ASSUME NEW t \in 0 .. MaxTime
    PROVE  /\ ContextAt(t) # NoContext
           /\ ContextTime(ContextAt(t)) = t /\ t \in Nat
           /\ \A name : /\ ContextTime(Sent(t, name)) = t
                        /\ ReplayKey(Under(ContextAt(t), name)) = ReplayKey(Sent(t, name))
<1>1. MicrosPerSecond \in Nat /\ MicrosPerSecond > 0 /\ MaxTime \in Nat
  BY TimeAssumption
<1>2. PICK m : m = MicrosPerSecond
  OBVIOUS
<1>3. m \in Nat /\ m > 0 /\ t \in Nat
  BY <1>1, <1>2
<1>4. t = (t \div m) * m + (t % m)
  BY <1>3
<1>5. ContextAt(t) # NoContext
  BY NilAssumption DEF ContextAt, NoContext
<1>6. ContextTime(ContextAt(t)) = t
  BY <1>2, <1>4 DEF ContextTime, ContextAt
<1>7. \A name : ContextTime(Sent(t, name)) = t
  BY <1>2, <1>4 DEF ContextTime, ContextAt, Sent, Under, MessageAt, ApReqOf
<1>8. \A name : ReplayKey(Under(ContextAt(t), name)) = ReplayKey(Sent(t, name))
  BY DEF ReplayKey, ContextAt, Sent, Under, MessageAt, ApReqOf
<1> QED BY <1>3, <1>5, <1>6, <1>7, <1>8

\* Tokens of different times have different replay keys, under whatever names,
\* and an AP-REP to one is not taken for an AP-REP to the other.
LEMMA OneToken ==
    ASSUME NEW t \in 0 .. MaxTime, NEW u \in 0 .. MaxTime,
           NEW n \in Names, NEW o \in Names
    PROVE  /\ ReplayKey(Sent(t, n)) = ReplayKey(Sent(u, o)) => t = u
           /\ verify_ap_rep(ContextAt(t), MessageAt(u)) => t = u
<1>1. ReplayKey(Sent(t, n)) = ReplayKey(Sent(u, o)) => t = u
  <2>1. ReplayKey(Sent(t, n)) = <<n, Principal, t \div MicrosPerSecond, t % MicrosPerSecond>>
    BY MessageFacts DEF ReplayKey
  <2>2. ReplayKey(Sent(u, o)) = <<o, Principal, u \div MicrosPerSecond, u % MicrosPerSecond>>
    BY MessageFacts DEF ReplayKey
  <2> QED BY <2>1, <2>2, OneTime
<1>2. verify_ap_rep(ContextAt(t), MessageAt(u)) => t = u
  BY OneTime DEF verify_ap_rep, ContextAt, MessageAt, ApReqOf
<1> QED BY <1>1, <1>2

\* The context of a call is that of the time when it made its token.
LEMMA OwnContext ==
    ASSUME RequestInv, ContextInv, NEW c \in Calls, call[c].context # NoContext
    PROVE  \E r \in requests : /\ r.call = c /\ r.made # Nil /\ r.made \in 0 .. MaxTime
                               /\ call[c].context = ContextAt(r.made)
  BY DEF RequestInv, ContextInv

\* What calls that read one microsecond have in common, and contexts stay.
LEMMA Instants ==
    /\ \A c, d \in Calls, t \in 0 .. MaxTime :
          call[c].context = ContextAt(t) /\ call[d].context = ContextAt(t) => SameInstant(c, d)
    /\ (\A c \in Calls : call[c].context # NoContext => call'[c].context = call[c].context)
          => /\ \A c, d \in Calls : SameInstant(c, d) => SameInstant(c, d)'
             /\ \A c \in Calls : Alone(c)' => Alone(c)
<1>1. \A c, d \in Calls, t \in 0 .. MaxTime :
         call[c].context = ContextAt(t) /\ call[d].context = ContextAt(t) => SameInstant(c, d)
  BY ContextFacts DEF SameInstant
<1>2. ASSUME \A c \in Calls : call[c].context # NoContext => call'[c].context = call[c].context
      PROVE  \A c, d \in Calls : SameInstant(c, d) => SameInstant(c, d)'
  BY <1>2 DEF SameInstant
<1> QED BY <1>1, <1>2 DEF Alone

-----------------------------------------------------------------------------
(* The steps of the caller.                                                 *)

\* A step that changes the record of one call only.
Updated(c, pc, context, result) ==
    /\ call' = [d \in Calls |-> call'[d]]
    /\ \A d \in Calls : DOMAIN call'[d] = {"pc", "context", "result"}
    /\ \A d \in Calls : d # c => call'[d] = call[d]
    /\ call'[c].pc = pc /\ call'[c].context = context /\ call'[c].result = result

LEMMA CallUpdate ==
    ASSUME StateInv, NEW c \in Calls
    PROVE  /\ \A pc : call' = [call EXCEPT ![c].pc = pc]
                         => Updated(c, pc, call[c].context, call[c].result)
           /\ \A pc, x : call' = [call EXCEPT ![c].pc = pc, ![c].result = x]
                            => Updated(c, pc, call[c].context, x)
           /\ \A pc, x : call' = [call EXCEPT ![c].pc = pc, ![c].context = x]
                            => Updated(c, pc, x, call[c].result)
<1>1. ASSUME NEW pc, call' = [call EXCEPT ![c].pc = pc]
      PROVE  Updated(c, pc, call[c].context, call[c].result)
  BY <1>1 DEF StateInv, Updated
<1>2. ASSUME NEW pc, NEW x, call' = [call EXCEPT ![c].pc = pc, ![c].result = x]
      PROVE  Updated(c, pc, call[c].context, x)
  BY <1>2 DEF StateInv, Updated
<1>3. ASSUME NEW pc, NEW x, call' = [call EXCEPT ![c].pc = pc, ![c].context = x]
      PROVE  Updated(c, pc, x, call[c].result)
  BY <1>3 DEF StateInv, Updated
<1> QED BY <1>1, <1>2, <1>3

\* A step of a caller that makes no context: it may send a request without a
\* token, and take a response.
CallerChange(c, pc, result) ==
    /\ UNCHANGED <<config, clock, memory, pending, executions, accepted, exposed>>
    /\ responses' \subseteq responses
    /\ requests' \subseteq requests \cup
           {[call |-> c, authorization |-> NoAuthorization, made |-> Nil]}
    /\ requests \subseteq requests'
    /\ Updated(c, pc, call[c].context, result)
    /\ \/ pc = "done"
       \/ pc \in {"first", "context"} /\ call[c].pc \in {"idle", "first"}
    /\ result = "AcceptedMutually" => Acknowledged(c)

LEMMA CallerStep ==
    ASSUME IInv, NEW c \in Calls, NEW pc, NEW result, CallerChange(c, pc, result)
    PROVE  IInv'
<1> USE DEF CallerChange
<1> DEFINE none == [call |-> c, authorization |-> NoAuthorization, made |-> Nil]
<1>0. /\ accepted \subseteq Calls /\ StateInv /\ RequestInv /\ ContextInv /\ MemoryInv /\ ServedInv
      /\ PendingInv /\ ResponseInv /\ AcceptedByServer
  BY DEF IInv
<1>1. none.call = c /\ none.authorization = NoAuthorization /\ none.made = Nil
  OBVIOUS
<1> HIDE DEF none
<1>2. \A r \in requests' : r \in requests \/ r = none
  BY DEF none
<1>3. /\ call' = [d \in Calls |-> call'[d]]
      /\ \A d \in Calls : DOMAIN call'[d] = {"pc", "context", "result"}
      /\ \A d \in Calls : d # c => call'[d] = call[d]
      /\ call'[c].pc = pc /\ call'[c].context = call[c].context /\ call'[c].result = result
  BY DEF Updated
<1>4. \A d \in Calls : call'[d].context = call[d].context
  BY <1>3
<1>5. StateInv'
  BY <1>0, <1>3 DEF StateInv
<1>6. RequestInv'
  BY <1>0, <1>1, <1>2, <1>4 DEF RequestInv
<1>7. \A d \in Calls : Acknowledged(d) => Acknowledged(d)'
  BY <1>0, <1>4, Instants DEF Acknowledged
<1>8. ContextInv'
  <2> SUFFICES ASSUME NEW d \in Calls
               PROVE  /\ call'[d].context # NoContext => \E r \in requests' : r.call = d /\ r.made # Nil
                      /\ call'[d].pc \in {"idle", "first", "context"} => call'[d].context = NoContext
                      /\ call'[d].pc = "retry" => call'[d].context # NoContext
    BY DEF ContextInv
  <2>1. CASE d = c
    BY <1>0, <1>3, <2>1 DEF ContextInv
  <2>2. CASE d # c
    BY <1>0, <1>3, <2>2 DEF ContextInv
  <2> QED BY <2>1, <2>2
<1>9. MemoryInv'
  BY <1>0 DEF MemoryInv
<1>10. ServedInv'
  <2>1. \A d \in Calls, name \in Names : InMemory(d, name)' <=> InMemory(d, name)
    BY <1>4 DEF InMemory
  <2>2. \A d \in Calls : Expired(d)' <=> Expired(d)
    BY <1>4 DEF Expired
  <2> QED BY <1>0, <1>4, <2>1, <2>2 DEF ServedInv
<1>11. PendingInv'
  BY <1>0 DEF PendingInv, IsApRep
<1>12. ResponseInv'
  BY <1>0 DEF ResponseInv, IsApRep
<1>13. AcceptedByServer'
  BY <1>0, <1>3, <1>7 DEF AcceptedByServer, Acknowledged
<1> QED BY <1>0, <1>5, <1>6, <1>8, <1>9, <1>10, <1>11, <1>12, <1>13 DEF IInv

LEMMA SendStep ==
    ASSUME IInv, NEW c \in Calls, send_with_negotiate(c)
    PROVE  IInv'
<1>1. StateInv /\ call' = [call EXCEPT ![c].pc = "first"]
  BY DEF IInv, send_with_negotiate
<1>2. call[c].pc = "idle" /\ call[c].result = "none"
  BY DEF Idle, send_with_negotiate
<1>3. /\ UNCHANGED <<config, clock, responses, memory, pending, executions, accepted, exposed>>
      /\ requests' = requests \cup {[call |-> c, authorization |-> NoAuthorization, made |-> Nil]}
  BY DEF send_with_negotiate, Send, NoAuthorization, historyVars
<1>4. Updated(c, "first", call[c].context, call[c].result)
  BY <1>1, CallUpdate
<1>5. CallerChange(c, call'[c].pc, call[c].result)
  BY <1>2, <1>3, <1>4 DEF CallerChange, Updated
<1> QED BY <1>5, CallerStep

LEMMA AuthorizeStep ==
    ASSUME IInv, NEW c \in Calls, authorize_request(c)
    PROVE  IInv'
<1>1. StateInv /\ call' = [call EXCEPT ![c].pc = "context"]
  BY DEF IInv, authorize_request
<1>2. call[c].pc = "idle" /\ call[c].result = "none"
  BY DEF Idle, authorize_request
<1>3. UNCHANGED <<config, clock, requests, responses, memory, pending, executions, accepted,
                  exposed>>
  BY DEF authorize_request, historyVars
<1>4. Updated(c, "context", call[c].context, call[c].result)
  BY <1>1, CallUpdate
<1>5. CallerChange(c, call'[c].pc, call[c].result)
  BY <1>2, <1>3, <1>4 DEF CallerChange, Updated
<1> QED BY <1>5, CallerStep

\* The end of a call.
LEMMA ReturnStep ==
    ASSUME IInv, NEW c \in Calls, NEW result, Return(c, result),
           UNCHANGED <<config, clock, requests, memory, pending, executions, accepted, exposed>>,
           responses' \subseteq responses,
           result = "AcceptedMutually" => Acknowledged(c)
    PROVE  IInv'
<1>1. StateInv /\ call' = [call EXCEPT ![c].pc = "done", ![c].result = result]
  BY DEF IInv, Return
<1>2. Updated(c, "done", call[c].context, result)
  BY <1>1, CallUpdate
<1>3. CallerChange(c, "done", result)
  BY <1>2 DEF CallerChange
<1> QED BY <1>3, CallerStep

LEMMA FailStep ==
    ASSUME IInv, NEW c \in Calls, NoTicket(c) \/ SenderFails(c)
    PROVE  IInv'
<1>1. /\ Return(c, "Error")
      /\ UNCHANGED <<config, clock, requests, responses, memory, pending, executions,
                     accepted, exposed>>
  BY DEF NoTicket, SenderFails, historyVars
<1> QED BY <1>1, ReturnStep

LEMMA FirstResponseStep ==
    ASSUME IInv, NEW c \in Calls, NEW response, FirstResponse(c, response)
    PROVE  IInv'
<1>1. /\ UNCHANGED <<config, clock, requests, memory, pending, executions, accepted, exposed>>
      /\ responses' \subseteq responses
      /\ call[c].pc = "first"
  BY DEF FirstResponse, historyVars
<1>2. should_retry_with_negotiate(response) \in {"retry", "done", "error"}
  BY DEF should_retry_with_negotiate
<1>3. \/ call' = [call EXCEPT ![c].pc = "context"]
      \/ Return(c, "NotNegotiated") \/ Return(c, "Error")
  BY <1>2 DEF FirstResponse
<1>4. CASE call' = [call EXCEPT ![c].pc = "context"]
  <2>1. Updated(c, "context", call[c].context, call[c].result)
    BY <1>4, CallUpdate DEF IInv
  <2>2. call[c].result = "AcceptedMutually" => Acknowledged(c)
    BY DEF IInv, AcceptedByServer, Acknowledged
  <2>3. CallerChange(c, "context", call[c].result)
    BY <1>1, <2>1, <2>2 DEF CallerChange
  <2> QED BY <2>3, CallerStep
<1> QED BY <1>1, <1>3, <1>4, ReturnStep

\* What the caller is handed is a stray, a response without an AP-REP, or an
\* AP-REP to a token that was accepted; only one to its own time is verified.
LEMMA FinalResponseStep ==
    ASSUME IInv, NEW c \in Calls, NEW response \in Arriving(c), FinalResponse(c, response)
    PROVE  IInv'
<1>1. /\ UNCHANGED <<config, clock, requests, responses, memory, pending, executions,
                     accepted, exposed>>
      /\ call[c].pc = "retry"
  BY DEF FinalResponse, historyVars
<1>2. PICK result : result = classify_negotiate_response(call[c].context, response.headers)
  OBVIOUS
<1>3. Return(c, result)
  BY <1>2 DEF FinalResponse
<1>4. PICK q \in requests : /\ q.call = c /\ q.made # Nil /\ q.made \in 0 .. MaxTime
                            /\ call[c].context = ContextAt(q.made)
  BY <1>1, OwnContext DEF IInv, ContextInv
<1>5. ASSUME result = "AcceptedMutually" PROVE Acknowledged(c)
  <2>1. \/ response \in Strays
        \/ response.headers \in PlainHeader
        \/ \E d \in Calls : IsApRep(response.headers, d)
    BY DEF Arriving, IInv, ResponseInv
  <2>2. response \notin Strays
    BY <1>2, <1>4, <1>5, StrayAssumption
  <2>3. response.headers \notin PlainHeader
    <3>1. PICK context : context = call[c].context
      OBVIOUS
    <3>2. classify_negotiate_response(context, response.headers) = "AcceptedMutually"
      BY <1>2, <1>5, <3>1
    <3>3. /\ classify_negotiate_response(context, <<>>) = "NoAuthenticateHeader"
          /\ classify_negotiate_response(context, << <<Word>> >>) = "NoNegotiateChallenge"
      BY PlainHeaders
    <3>4. classify_negotiate_response(context, << <<Negotiate([form |-> "bare"])>> >>)
            = "Challenge"
      BY ChallengeHeader
    <3>5. classify_negotiate_response(context,
              << <<Negotiate(EncodeSpnegoToken(reject))>> >>) = "Rejected"
      BY RejectHeader
    <3>6. "AcceptedMutually" \notin {"NoAuthenticateHeader", "NoNegotiateChallenge",
                                    "Challenge", "Rejected"}
      OBVIOUS
    <3> QED BY ONLY <3>2, <3>3, <3>4, <3>5, <3>6 DEF PlainHeader
  <2>4. PICK d \in Calls : IsApRep(response.headers, d)
    BY <2>1, <2>2, <2>3
  <2>5. PICK r \in requests : /\ r.made # Nil /\ r.call = d /\ d \in accepted
                              /\ response.headers = ApRepHeader(MessageAt(r.made))
    BY <2>4 DEF IsApRep
  <2>6. r.made \in 0 .. MaxTime /\ call[d].context = ContextAt(r.made)
    BY <2>5 DEF IInv, RequestInv
  <2>7. verify_ap_rep(ContextAt(q.made), MessageAt(r.made))
    BY <1>2, <1>4, <1>5, <2>5, <2>6, AcceptHeader
  <2>8. q.made = r.made
    BY <1>4, <2>6, <2>7, OneToken, NameAssumption
  <2> QED BY <1>4, <2>5, <2>6, <2>8, Instants DEF Acknowledged
<1> QED BY <1>1, <1>3, <1>5, ReturnStep

\* A context is made once for a call.
LEMMA ContextStep ==
    ASSUME IInv, NEW c \in Calls, SpnegoContext(c)
    PROVE  IInv'
<1>0. /\ accepted \subseteq Calls /\ StateInv /\ RequestInv /\ ContextInv /\ MemoryInv /\ ServedInv
      /\ PendingInv /\ ResponseInv /\ AcceptedByServer
  BY DEF IInv
<1>1. PICK new : new = [call |-> c, authorization |-> TokenAt(clock), made |-> clock]
  OBVIOUS
<1>2. new.call = c /\ new.authorization = TokenAt(clock) /\ new.made = clock
  BY <1>1
<1>3. /\ clock \in 0 .. MaxTime /\ clock # Nil /\ ContextAt(clock) # NoContext
      /\ TokenAt(clock).form # "none"
  <2>1. clock \in 0 .. MaxTime /\ clock \in Int
    BY <1>0, TimeAssumption DEF StateInv
  <2>2. TokenAt(clock).form = "spnego"
    BY DEF TokenAt, Token, EncodeSpnegoToken, NegTokenInitKrb5, NegTokenInit
  <2> QED BY <2>1, <2>2, ContextFacts, NilAssumption
<1>4. /\ UNCHANGED <<config, clock, responses, memory, pending, executions, accepted, exposed>>
      /\ call[c].pc = "context"
      /\ requests' = requests \cup {new}
  BY <1>1, <1>3 DEF SpnegoContext, Send, TokenAt, historyVars
<1>5. Updated(c, "retry", ContextAt(clock), call[c].result)
  BY <1>0, CallUpdate DEF SpnegoContext
<1>6. /\ call' = [d \in Calls |-> call'[d]]
      /\ \A d \in Calls : DOMAIN call'[d] = {"pc", "context", "result"}
      /\ \A d \in Calls : d # c => call'[d] = call[d]
      /\ call'[c].pc = "retry" /\ call'[c].context = ContextAt(clock)
      /\ call'[c].result = call[c].result
  BY <1>5 DEF Updated
<1>7. call[c].context = NoContext
  BY <1>0, <1>4 DEF ContextInv
<1>8. \A r \in requests : r.call = c => r.made = Nil
  <2> SUFFICES ASSUME NEW r \in requests, r.call = c, r.made # Nil PROVE FALSE
    OBVIOUS
  <2>1. r.made \in 0 .. MaxTime /\ call[c].context = ContextAt(r.made)
    BY <1>0 DEF RequestInv
  <2> QED BY <1>7, <2>1, ContextFacts
<1>9. StateInv'
  BY <1>0, <1>4, <1>6 DEF StateInv
<1>10. RequestInv'
  BY <1>0, <1>2, <1>3, <1>4, <1>6, <1>8 DEF RequestInv
<1>11. \A d \in Calls : Acknowledged(d) => Acknowledged(d)'
  <2>1. \A d \in Calls : call[d].context # NoContext => call'[d].context = call[d].context
    BY <1>6, <1>7
  <2> QED BY <1>0, <1>4, <2>1, Instants DEF Acknowledged
<1>12. ContextInv'
  <2> SUFFICES ASSUME NEW d \in Calls
               PROVE  /\ call'[d].context # NoContext => \E r \in requests' : r.call = d /\ r.made # Nil
                      /\ call'[d].pc \in {"idle", "first", "context"} => call'[d].context = NoContext
                      /\ call'[d].pc = "retry" => call'[d].context # NoContext
    BY DEF ContextInv
  <2>1. CASE d = c
    BY <1>2, <1>3, <1>4, <1>6, <2>1
  <2>2. CASE d # c
    BY <1>0, <1>4, <1>6, <2>2 DEF ContextInv
  <2> QED BY <2>1, <2>2
<1>13. MemoryInv'
  BY <1>0, <1>4 DEF MemoryInv
<1>14. ServedInv'
  <2> SUFFICES ASSUME config.shared, NEW d \in Calls, NEW name \in Names
               PROVE  \/ executions[<<d, name>>] = 0
                      \/ /\ executions[<<d, name>>] = 1 /\ call'[d].context # NoContext
                         /\ InMemory(d, name)' \/ Expired(d)' \/ d \in exposed
                      \/ /\ executions[<<d, name>>] = 2 /\ call'[d].context # NoContext
                         /\ InMemory(d, name)' /\ d \in exposed
    BY <1>4 DEF ServedInv
  <2>1. CASE d = c
    BY <1>0, <1>7, <2>1 DEF ServedInv
  <2>2. CASE d # c
    BY <1>0, <1>4, <1>6, <2>2 DEF ServedInv, InMemory, Expired
  <2> QED BY <2>1, <2>2
<1>15. PendingInv'
  BY <1>0, <1>4 DEF PendingInv, IsApRep
<1>16. ResponseInv'
  BY <1>0, <1>4 DEF ResponseInv, IsApRep
<1>17. AcceptedByServer'
  BY <1>0, <1>4, <1>6, <1>11 DEF AcceptedByServer, Acknowledged
<1> QED BY <1>0, <1>4, <1>9, <1>10, <1>12, <1>13, <1>14, <1>15, <1>16, <1>17 DEF IInv

-----------------------------------------------------------------------------
(* The steps of the service.                                                *)

\* A service takes the token of a request: it is current and, under the name in
\* the ticket, in no cache.
Taken(s, r, name) ==
    LET message == Sent(r.made, name)
    IN  /\ r.made # Nil /\ name \in Names /\ Validates(message) /\ ~ Seen(s, message)
        /\ memory' = memory \cup {<<CacheOf(s), ReplayKey(message), r.call>>}
        /\ accepted' = accepted \cup {r.call}
        /\ UNCHANGED responses

\* It forwards the request, with the AP-REP to send back.
Forwarded(r, name) ==
    /\ pending' = pending \cup
           {<<r.call, IF config.emit_ap_rep THEN ApRepHeader(MessageAt(r.made)) ELSE <<>>>>}
    /\ executions' = [executions EXCEPT ![<<r.call, name>>] = @ + 1]

\* What becomes of a request that reaches a service, whatever wraps its token.
LEMMA DeliverOutcome ==
    ASSUME IInv, NEW s \in Services, NEW r \in requests, Deliver(s, r)
    PROVE  /\ UNCHANGED <<config, clock, call, requests, exposed>>
           /\ \/ /\ r.made = Nil /\ challenge_response(r)
                 /\ UNCHANGED <<memory, pending, executions, accepted>>
              \/ /\ r.made # Nil
                 /\ InTrouble \/ ~ Validates(MessageAt(r.made)) \/ Seen(s, MessageAt(r.made))
                 /\ challenge_response(r) \/ reject_response(r)
                 /\ UNCHANGED <<memory, pending, executions, accepted>>
              \/ \E name \in Names :
                    /\ Taken(s, r, name)
                    /\ Forwarded(r, name) \/ (InTrouble /\ UNCHANGED <<pending, executions>>)
<1>1. PICK bytes \in Wrappings(r.authorization) : Call(s, r, bytes)
  BY DEF Deliver
<1>2. UNCHANGED <<config, clock, call, requests, exposed>>
  BY <1>1 DEF Call
<1>3. ASSUME NoToken(bytes)
      PROVE  challenge_response(r) /\ UNCHANGED <<memory, pending, executions, accepted>>
  <2>1. krb5_ap_req(Malformed) = Nil
    <3>1. ~ ensure_kerberos_mechanism(<<>>)
      BY DEF ensure_kerberos_mechanism
    <3> QED BY <3>1 DEF krb5_ap_req, Malformed
  <2> QED BY <1>1, <1>3, <2>1 DEF Call
<1>4. CASE r.made = Nil
  <2>1. bytes.form = "none"
    BY <1>4 DEF IInv, RequestInv, Wrappings, NoAuthorization
  <2> QED BY <1>2, <1>3, <1>4, <2>1 DEF NoToken
<1>5. CASE r.made # Nil
  <2>1. /\ r.made \in 0 .. MaxTime /\ r.authorization = TokenAt(r.made)
        /\ config.names \subseteq Names
    BY <1>5 DEF IInv, RequestInv, StateInv
  <2>2. PICK message : message = FoundIn(bytes)
    OBVIOUS
  <2>3. /\ NoToken(bytes) => InTrouble
        /\ ~ NoToken(bytes) => \/ message = Nil
                               \/ \E name \in Names : message = Sent(r.made, name)
        /\ ~ InTrouble => message = MessageAt(r.made)
    BY <2>1, <2>2, WrappedMessage
  <2>4. CASE NoToken(bytes)
    BY <1>2, <1>3, <1>5, <2>3, <2>4
  <2>5. CASE ~ NoToken(bytes)
    <3>1. PICK valid : valid = (message # Nil /\ Validates(message) /\ ~ Seen(s, message))
      OBVIOUS
    <3>2. \/ /\ ~ valid
             /\ challenge_response(r) \/ reject_response(r)
             /\ UNCHANGED <<memory, pending, executions, accepted>>
          \/ /\ valid
             /\ memory' = memory \cup {<<CacheOf(s), ReplayKey(message), r.call>>}
             /\ accepted' = accepted \cup {r.call}
             /\ UNCHANGED responses
             /\ \/ /\ pending' = pending \cup
                          {<<r.call, IF config.emit_ap_rep THEN ApRepHeader(message) ELSE <<>>>>}
                   /\ executions' = [executions EXCEPT ![<<r.call, message.service>>] = @ + 1]
                \/ InTrouble /\ UNCHANGED <<pending, executions>>
      BY <1>1, <2>2, <2>5, <3>1 DEF Call, FoundIn
    <3>3. CASE valid
      <4>1. PICK name \in Names : message = Sent(r.made, name)
        BY <2>3, <2>5, <3>1, <3>3
      <4>2. message.service = name /\ ApRepHeader(message) = ApRepHeader(MessageAt(r.made))
        BY <2>1, <4>1, MessageFacts, SameApRep
      <4>3. Taken(s, r, name)
        BY <1>5, <3>1, <3>2, <3>3, <4>1 DEF Taken
      <4>4. Forwarded(r, name) \/ (InTrouble /\ UNCHANGED <<pending, executions>>)
        BY <3>2, <3>3, <4>2 DEF Forwarded
      <4> QED BY <1>2, <4>3, <4>4
    <3>4. CASE ~ valid
      <4>1. MessageAt(r.made) # Nil
        BY <2>1, MessageFacts, SentAsMade, NameAssumption
      <4>2. InTrouble \/ ~ Validates(MessageAt(r.made)) \/ Seen(s, MessageAt(r.made))
        BY <2>3, <3>1, <3>4, <4>1
      <4> QED BY <1>2, <1>5, <3>2, <3>4, <4>2
    <3> QED BY <3>3, <3>4
  <2> QED BY <2>4, <2>5
<1> QED BY <1>4, <1>5

\* The response that is added.
Reply(r, status, headers) ==
    [call |-> IF config.trouble = "network" THEN Nil ELSE r.call,
     response |-> [status |-> status, headers |-> headers]]

\* A step that adds a response without an AP-REP, and nothing else.
LEMMA RefuseStep ==
    ASSUME IInv, NEW r, challenge_response(r) \/ reject_response(r),
           UNCHANGED <<config, clock, call, requests, memory, pending, executions, accepted,
                       exposed>>
    PROVE  IInv'
<1>0. /\ accepted \subseteq Calls /\ StateInv /\ RequestInv /\ ContextInv /\ MemoryInv /\ ServedInv
      /\ PendingInv /\ ResponseInv /\ AcceptedByServer
  BY DEF IInv
<1>1. PICK x : responses' = responses \cup {x} /\ x.response.headers \in PlainHeader
  <2>1. PICK headers \in PlainHeader : Respond(r, 401, headers)
    BY DEF challenge_response, reject_response, PlainHeader
  <2>2. PICK x : x = Reply(r, 401, headers)
    OBVIOUS
  <2>3. responses' = responses \cup {x} /\ x.response.headers = headers
    BY <2>1, <2>2 DEF Respond, Reply
  <2> QED BY <2>1, <2>3
<1>2. ResponseInv'
  BY <1>0, <1>1 DEF ResponseInv, IsApRep
<1>3. /\ StateInv' /\ RequestInv' /\ ContextInv' /\ MemoryInv' /\ PendingInv'
  BY <1>0 DEF StateInv, RequestInv, ContextInv, MemoryInv, PendingInv, IsApRep
<1>4. ServedInv' /\ AcceptedByServer'
  BY <1>0 DEF ServedInv, AcceptedByServer, SameInstant, InMemory, Expired
<1> QED BY <1>0, <1>2, <1>3, <1>4 DEF IInv

\* A token that is taken was not in the layer's cache, and it is current.
LEMMA TakenStep ==
    ASSUME IInv, NEW s \in Services, NEW r \in requests, NEW name \in Names,
           Taken(s, r, name),
           UNCHANGED <<config, clock, call, requests, exposed>>,
           Forwarded(r, name) \/ UNCHANGED <<pending, executions>>
    PROVE  IInv'
<1>0. /\ accepted \subseteq Calls /\ StateInv /\ RequestInv /\ ContextInv /\ MemoryInv /\ ServedInv
      /\ PendingInv /\ ResponseInv /\ AcceptedByServer
  BY DEF IInv
<1>1. PICK key : key = ReplayKey(Sent(r.made, name))
  OBVIOUS
<1>2. /\ r.made # Nil /\ Validates(Sent(r.made, name)) /\ ~ Seen(s, Sent(r.made, name))
      /\ memory' = memory \cup {<<CacheOf(s), key, r.call>>}
      /\ accepted' = accepted \cup {r.call} /\ UNCHANGED responses
  BY <1>1 DEF Taken
<1>3. /\ r.call \in Calls /\ r.made \in 0 .. MaxTime
      /\ call[r.call].context = ContextAt(r.made)
  BY <1>0, <1>2 DEF RequestInv
<1>4. /\ key = ReplayKey(Under(call[r.call].context, name))
      /\ call[r.call].context # NoContext
      /\ ContextTime(Sent(r.made, name)) = r.made /\ ContextTime(call[r.call].context) = r.made
      /\ r.made \in Nat
  BY <1>1, <1>3, ContextFacts
<1>5. RequestInv' /\ ContextInv' /\ accepted' \subseteq Calls
  BY <1>0, <1>2, <1>3 DEF RequestInv, ContextInv
<1>6. PICK run \in Calls \X Names : run = <<r.call, name>>
  <2>1. PICK c \in Calls : c = r.call
    BY <1>3
  <2>2. <<c, name>> \in Calls \X Names
    OBVIOUS
  <2> QED BY <2>1, <2>2
<1>7. /\ executions' \in [Calls \X Names -> Nat]
      /\ \A c \in Calls, n \in Names :
            \/ executions'[<<c, n>>] = executions[<<c, n>>]
            \/ c = r.call /\ n = name /\ executions'[<<c, n>>] = executions[<<c, n>>] + 1
  <2>1. executions \in [Calls \X Names -> Nat]
    BY <1>0 DEF StateInv
  <2>2. executions' = executions \/ executions' = [executions EXCEPT ![run] = @ + 1]
    BY <1>6 DEF Forwarded
  <2> QED BY <1>6, <2>1, <2>2
<1>8. StateInv'
  BY <1>0, <1>7 DEF StateInv
<1>9. PICK entry : entry = <<CacheOf(s), key, r.call>>
  OBVIOUS
<1>10. /\ entry[1] = CacheOf(s) /\ entry[2] = key /\ entry[3] = r.call
       /\ memory' = memory \cup {entry}
  BY <1>2, <1>9
<1>11. MemoryInv'
  BY <1>0, <1>1, <1>2, <1>10 DEF MemoryInv
<1>12. PendingInv'
  <2>1. \A headers, c : IsApRep(headers, c) => IsApRep(headers, c)'
    BY <1>2 DEF IsApRep
  <2>2. CASE UNCHANGED pending
    BY <1>0, <2>1, <2>2 DEF PendingInv
  <2>3. CASE Forwarded(r, name)
    <3>1. PICK headers : headers = IF config.emit_ap_rep THEN ApRepHeader(MessageAt(r.made))
                                   ELSE <<>>
      OBVIOUS
    <3>2. pending' = pending \cup {<<r.call, headers>>}
      BY <2>3, <3>1 DEF Forwarded
    <3>3. headers = <<>> \/ IsApRep(headers, r.call)'
      BY <1>2, <3>1 DEF IsApRep
    <3> QED BY <1>0, <1>3, <2>1, <3>2, <3>3 DEF PendingInv
  <2> QED BY <2>2, <2>3
<1>13. ResponseInv'
  BY <1>0, <1>2 DEF ResponseInv, IsApRep
<1>14. AcceptedByServer'
  BY <1>0, <1>2 DEF AcceptedByServer, SameInstant
<1>15. ServedInv'
  <2> SUFFICES ASSUME config.shared, NEW c \in Calls, NEW n \in Names
               PROVE  \/ executions'[<<c, n>>] = 0
                      \/ /\ executions'[<<c, n>>] = 1 /\ call[c].context # NoContext
                         /\ InMemory(c, n)' \/ Expired(c) \/ c \in exposed
                      \/ /\ executions'[<<c, n>>] = 2 /\ call[c].context # NoContext
                         /\ InMemory(c, n)' /\ c \in exposed
    BY DEF ServedInv, Expired
  <2>1. InMemory(c, n) => InMemory(c, n)'
    BY <1>10 DEF InMemory
  <2>2. CASE executions'[<<c, n>>] = executions[<<c, n>>]
    BY <1>0, <2>1, <2>2 DEF ServedInv
  <2>3. CASE c = r.call /\ n = name /\ executions'[<<c, n>>] = executions[<<c, n>>] + 1
    <3>0. CacheOf(s) = "layer"
      BY DEF CacheOf
    <3>1. InMemory(c, n)'
      BY <1>4, <1>10, <2>3, <3>0 DEF InMemory
    <3>2. ~ InMemory(c, n)
      <4>1. \A m \in memory : ~ (m[1] = CacheOf(s) /\ m[2] = key)
        BY <1>1, <1>2 DEF Seen
      <4> QED BY <1>4, <2>3, <3>0, <4>1 DEF InMemory
    <3>3. ~ Expired(c)
      BY <1>2, <1>4, <2>3, <1>0, TimeAssumption DEF Validates, Expired, StateInv
    <3>4. executions[<<c, n>>] = 0 \/ (executions[<<c, n>>] = 1 /\ c \in exposed)
      BY <1>0, <3>2, <3>3 DEF ServedInv
    <3> QED BY <1>4, <2>3, <3>1, <3>4
  <2> QED BY <1>7, <2>2, <2>3
<1> QED BY <1>5, <1>8, <1>11, <1>12, <1>13, <1>14, <1>15 DEF IInv

LEMMA DeliverStep ==
    ASSUME IInv, NEW s \in Services, NEW r \in requests, Deliver(s, r)
    PROVE  IInv'
<1>1. CASE /\ challenge_response(r) \/ reject_response(r)
           /\ UNCHANGED <<memory, pending, executions, accepted>>
  BY <1>1, DeliverOutcome, RefuseStep
<1>2. ASSUME NEW name \in Names, Taken(s, r, name),
             Forwarded(r, name) \/ UNCHANGED <<pending, executions>>
      PROVE  IInv'
  BY <1>2, DeliverOutcome, TakenStep
<1> QED BY <1>1, <1>2, DeliverOutcome

\* The wrapped service answers with its own headers, or with the AP-REP.
LEMMA InnerStep ==
    ASSUME IInv, NEW p \in pending, InnerResponds(p) \/ InnerFails(p)
    PROVE  IInv'
<1>0. /\ accepted \subseteq Calls /\ StateInv /\ RequestInv /\ ContextInv /\ MemoryInv /\ ServedInv
      /\ PendingInv /\ ResponseInv /\ AcceptedByServer
  BY DEF IInv
<1>1. /\ UNCHANGED <<config, clock, call, requests, memory, executions, accepted, exposed>>
      /\ pending' \subseteq pending
  BY DEF InnerResponds, InnerFails, historyVars
<1>2. \A headers, c : IsApRep(headers, c) => IsApRep(headers, c)'
  BY <1>1 DEF IsApRep
<1>3. ResponseInv'
  <2>1. CASE InnerFails(p)
    BY <1>0, <1>2, <2>1 DEF InnerFails, ResponseInv
  <2>2. CASE InnerResponds(p)
    <3>1. PICK own : own = IF config.inner = 401 THEN << <<Word>> >> ELSE <<>>
      OBVIOUS
    <3>2. PICK headers : headers = IF p[2] = <<>> THEN own ELSE p[2]
      OBVIOUS
    <3>3. PICK q : q = [call |-> p[1]]
      OBVIOUS
    <3>4. PICK status : status = config.inner /\ Respond(q, status, headers)
      BY <2>2, <3>1, <3>2, <3>3 DEF InnerResponds
    <3>5. headers \in PlainHeader \/ \E c \in Calls : IsApRep(headers, c)
      BY <1>0, <3>1, <3>2 DEF PlainHeader, PendingInv
    <3>6. PICK x : x = Reply(q, status, headers)
      OBVIOUS
    <3>7. responses' = responses \cup {x} /\ x.response.headers = headers
      BY <3>4, <3>6 DEF Respond, Reply
    <3> QED BY <1>0, <1>2, <3>5, <3>7 DEF ResponseInv
  <2> QED BY <2>1, <2>2
<1>4. PendingInv'
  BY <1>0, <1>1, <1>2 DEF PendingInv
<1>5. /\ StateInv' /\ RequestInv' /\ ContextInv' /\ MemoryInv' /\ accepted' \subseteq Calls
  BY <1>0, <1>1 DEF StateInv, RequestInv, ContextInv, MemoryInv
<1>6. ServedInv' /\ AcceptedByServer'
  BY <1>0, <1>1 DEF ServedInv, AcceptedByServer, SameInstant, InMemory, Expired
<1> QED BY <1>3, <1>4, <1>5, <1>6 DEF IInv

\* The first restart: a token of a request that was served is too old, or
\* exposed.
LEMMA RestartStep ==
    ASSUME IInv, Restart
    PROVE  IInv'
<1>0. /\ accepted \subseteq Calls /\ StateInv /\ RequestInv /\ ContextInv /\ MemoryInv /\ ServedInv
      /\ PendingInv /\ ResponseInv /\ AcceptedByServer
  BY DEF IInv
<1>1. /\ UNCHANGED <<config, clock, call, requests, executions, accepted>>
      /\ memory' = {} /\ pending' = {} /\ responses' = {}
      /\ exposed = {} /\ exposed' = {c \in Calls : Current(c)}
  BY DEF Restart
<1>2. /\ StateInv' /\ RequestInv' /\ ContextInv' /\ MemoryInv' /\ accepted' \subseteq Calls
      /\ PendingInv' /\ ResponseInv' /\ AcceptedByServer'
  BY <1>0, <1>1 DEF StateInv, RequestInv, ContextInv, MemoryInv, PendingInv,
                    ResponseInv, AcceptedByServer, SameInstant
<1>3. ServedInv'
  <2> SUFFICES ASSUME config.shared, NEW c \in Calls, NEW name \in Names,
                      executions[<<c, name>>] # 0
               PROVE  /\ executions[<<c, name>>] = 1 /\ call[c].context # NoContext
                      /\ Expired(c) \/ c \in exposed'
    BY <1>1 DEF ServedInv, Expired
  <2>1. executions[<<c, name>>] = 1 /\ call[c].context # NoContext
    BY <1>0, <1>1 DEF ServedInv
  <2>2. PICK r \in requests : r.made \in 0 .. MaxTime /\ call[c].context = ContextAt(r.made)
    BY <1>0, <2>1, OwnContext
  <2>3. ContextTime(call[c].context) = r.made /\ r.made \in Nat /\ clock \in Int
    BY <1>0, <2>2, ContextFacts, TimeAssumption DEF StateInv
  <2>4. Expired(c) \/ clock - ContextTime(call[c].context) <= Skew
    BY <2>3, TimeAssumption DEF Expired
  <2> QED BY <1>1, <2>1, <2>4 DEF Current
<1> QED BY <1>2, <1>3 DEF IInv

LEMMA TickStep ==
    ASSUME IInv, Tick
    PROVE  IInv'
<1>0. /\ accepted \subseteq Calls /\ StateInv /\ RequestInv /\ ContextInv /\ MemoryInv /\ ServedInv
      /\ PendingInv /\ ResponseInv /\ AcceptedByServer
  BY DEF IInv
<1>1. /\ UNCHANGED <<config, call, requests, responses, memory, pending, executions, accepted,
                     exposed>>
      /\ clock < MaxTime /\ clock' = clock + 1
  BY DEF Tick, historyVars
<1>2. clock' \in 0 .. MaxTime /\ clock \in Int
  BY <1>0, <1>1, TimeAssumption DEF StateInv
<1>3. /\ StateInv' /\ RequestInv' /\ ContextInv' /\ MemoryInv' /\ accepted' \subseteq Calls
      /\ AcceptedByServer'
  BY <1>0, <1>1, <1>2 DEF StateInv, RequestInv, ContextInv, MemoryInv,
                          AcceptedByServer, SameInstant
<1>4. PendingInv' /\ ResponseInv'
  BY <1>0, <1>1 DEF PendingInv, ResponseInv, IsApRep
<1>5. ServedInv'
  <2>1. ASSUME NEW c \in Calls, call[c].context # NoContext, Expired(c) PROVE Expired(c)'
    <3>1. PICK r \in requests : r.made \in 0 .. MaxTime /\ call[c].context = ContextAt(r.made)
      BY <1>0, <2>1, OwnContext
    <3>2. ContextTime(call[c].context) = r.made /\ r.made \in Nat
      BY <3>1, ContextFacts
    <3>3. ContextTime(call'[c].context) = r.made
      BY <1>1, <3>2
    <3> QED BY <1>1, <1>2, <2>1, <3>2, <3>3, TimeAssumption DEF Expired
  <2>2. \A c \in Calls, name \in Names : InMemory(c, name) => InMemory(c, name)'
    BY <1>1 DEF InMemory
  <2> QED BY <1>0, <1>1, <2>1, <2>2 DEF ServedInv
<1> QED BY <1>3, <1>4, <1>5 DEF IInv

LEMMA StutterStep ==
    ASSUME IInv, UNCHANGED vars
    PROVE  IInv'
  BY DEF vars, IInv, StateInv, RequestInv, ContextInv, MemoryInv, PendingInv,
         ResponseInv, IsApRep, ServedInv, InMemory, Expired, AcceptedByServer, SameInstant

LEMMA InitInv == Init => IInv
<1> SUFFICES ASSUME Init PROVE IInv
  OBVIOUS
<1>1. StateInv
  BY TimeAssumption, NameAssumption DEF Init, StateInv, Idle
<1>2. RequestInv /\ MemoryInv /\ PendingInv /\ ResponseInv /\ accepted \subseteq Calls
  BY DEF Init, RequestInv, MemoryInv, PendingInv, ResponseInv
<1>3. ContextInv /\ ServedInv /\ AcceptedByServer
  BY DEF Init, ContextInv, ServedInv, AcceptedByServer, Idle
<1> QED BY <1>1, <1>2, <1>3 DEF IInv

LEMMA NextInv ==
    ASSUME IInv, [Next]_vars
    PROVE  IInv'
<1>1. ASSUME NEW c \in Calls,
             \/ send_with_negotiate(c) \/ authorize_request(c)
             \/ SpnegoContext(c) \/ NoTicket(c) \/ SenderFails(c)
      PROVE  IInv'
  BY <1>1, SendStep, AuthorizeStep, ContextStep, FailStep
<1>2. ASSUME NEW c \in Calls, NEW response \in Arriving(c),
             FirstResponse(c, response) \/ FinalResponse(c, response)
      PROVE  IInv'
  BY <1>2, FirstResponseStep, FinalResponseStep
<1> QED BY <1>1, <1>2, DeliverStep, InnerStep, RestartStep, TickStep, StutterStep DEF Next

-----------------------------------------------------------------------------
(* The safety theorems.                                                     *)

\* The inductive invariant holds in every reachable state.
THEOREM Invariance == Spec => []IInv
<1>1. Init => IInv
  BY InitInv
<1>2. IInv /\ [Next]_vars => IInv'
  BY NextInv
<1> QED BY <1>1, <1>2, PTL DEF Spec

\* Mutual authentication: only a call whose own token a service accepted, or one
\* of the same microsecond, reports a verified AP-REP, whatever else under the
\* same session key reaches it.
THEOREM AcceptanceIsMutual == Spec => []AcceptedByServer
<1>1. IInv => AcceptedByServer
  BY DEF IInv
<1> QED BY <1>1, Invariance, PTL

\* The layer's shared cache lets the wrapped service run once for a call and a
\* name of the service in its ticket, or a second time if a restart forgot the
\* token while it was current.
THEOREM RunsAreOnce == Spec => []ServedOnce
<1>1. IInv => ServedOnce
  BY DEF IInv, ServedInv, ServedOnce
<1> QED BY <1>1, Invariance, PTL

\* No cache refuses a token that was not recorded before, unless another call
\* read the same microsecond: replay keys of other tokens differ, whatever the
\* names in their tickets.
THEOREM NoTokenIsMistaken == Spec => []NoFalseReplay
<1>1. ASSUME IInv, NEW m \in memory, NEW c \in Calls, NEW name \in Names,
             call[c].context # NoContext, m[2] = ReplayKey(Under(call[c].context, name))
      PROVE  SameInstant(c, m[3])
  <2>1. PICK q \in requests : /\ q.call = c /\ q.made # Nil /\ q.made \in 0 .. MaxTime
                              /\ call[c].context = ContextAt(q.made)
    BY <1>1, OwnContext DEF IInv
  <2>2. PICK r \in requests, o \in Names : /\ r.made # Nil /\ r.call = m[3]
                                           /\ m[2] = ReplayKey(Sent(r.made, o))
    BY <1>1 DEF IInv, MemoryInv
  <2>3. r.made \in 0 .. MaxTime /\ m[3] \in Calls /\ call[m[3]].context = ContextAt(r.made)
    BY <1>1, <2>2 DEF IInv, RequestInv
  <2>4. m[2] = ReplayKey(Sent(q.made, name))
    BY <1>1, <2>1, ContextFacts
  <2>5. q.made = r.made
    BY <2>1, <2>2, <2>3, <2>4, OneToken
  <2> QED BY <2>1, <2>3, <2>5, Instants
<1>2. IInv => NoFalseReplay
  BY <1>1 DEF NoFalseReplay
<1> QED BY <1>2, Invariance, PTL

-----------------------------------------------------------------------------
(* Without trouble.                                                         *)

\* Nothing of call d changes.
Untouched(d) ==
    /\ UNCHANGED <<config, clock>> /\ call'[d] = call[d]
    /\ \A r : r.call = d => (r \in requests' <=> r \in requests)
    /\ \A x : x.call = d => (x \in responses' <=> x \in responses)
    /\ \A p : p[1] = d => (p \in pending' <=> p \in pending)
    /\ \A m : m[3] = d => (m \in memory' <=> m \in memory)

LEMMA UntouchedStep ==
    ASSUME NEW d \in Calls, InOrder(d), InSuccess(d), Untouched(d)
    PROVE  InOrder(d)' /\ InSuccess(d)'
<1>1. InSuccess(d)'
  BY DEF InSuccess, Untouched
<1>2. AcceptedHeaders(d)' = AcceptedHeaders(d)
  BY DEF AcceptedHeaders, Untouched
<1>3. InOrder(d)'
  BY <1>2 DEF InOrder, Untouched
<1> QED BY <1>1, <1>3

\* A step of one call, which leaves the others alone.
LEMMA OneCallStep ==
    ASSUME OInv, UNCHANGED config, NEW c \in Calls,
           \A d \in Calls : d # c => Untouched(d),
           call[c].context # NoContext => call'[c].context = call[c].context,
           ~ InTrouble /\ Alone(c) /\ Alone(c)' => InOrder(c)' /\ InSuccess(c)'
    PROVE  OInv'
<1>1. \A d \in Calls : call[d].context # NoContext => call'[d].context = call[d].context
  BY DEF Untouched
<1>2. \A d \in Calls : Alone(d)' => Alone(d)
  BY <1>1, Instants
<1> SUFFICES ASSUME ~ InTrouble, NEW d \in Calls, Alone(d)' PROVE InOrder(d)' /\ InSuccess(d)'
  BY DEF OInv, InTrouble
<1> QED BY <1>2, UntouchedStep DEF OInv

LEMMA CallerUntouched ==
    ASSUME NEW c \in Calls, NEW d \in Calls, d # c, NEW pc, NEW context, NEW result,
           Updated(c, pc, context, result), NEW new, new.call = c,
           UNCHANGED <<config, clock, pending, memory>>,
           requests' = requests \/ requests' = requests \cup {new},
           responses' = responses \/ responses' = {r \in responses : r.call # c}
    PROVE  Untouched(d)
<1>1. call'[d] = call[d]
  BY DEF Updated
<1>2. \A r : r.call = d => (r \in requests' <=> r \in requests)
  OBVIOUS
<1>3. \A x : x.call = d => (x \in responses' <=> x \in responses)
  OBVIOUS
<1> QED BY <1>1, <1>2, <1>3 DEF Untouched

LEMMA OrderedSend ==
    ASSUME IInv, OInv, NEW c \in Calls, send_with_negotiate(c)
    PROVE  OInv'
<1>1. PICK new : new = [call |-> c, authorization |-> NoAuthorization, made |-> Nil]
  OBVIOUS
<1>2. new.call = c /\ new.made = Nil
  BY <1>1
<1>3. /\ UNCHANGED <<config, clock, responses, memory, pending, executions, accepted, exposed>>
      /\ requests' = requests \cup {new}
  BY <1>1 DEF send_with_negotiate, Send, NoAuthorization, historyVars
<1>4. Updated(c, "first", call[c].context, call[c].result)
  BY CallUpdate DEF IInv, send_with_negotiate
<1>5. call[c].pc = "idle"
  BY DEF send_with_negotiate, Idle
<1>6. /\ call'[c].pc = "first" /\ call'[c].result = call[c].result
      /\ call'[c].context = call[c].context
  BY <1>4 DEF Updated
<1>7. \A d \in Calls : d # c => Untouched(d)
  BY <1>2, <1>3, <1>4, CallerUntouched
<1>8. ASSUME ~ InTrouble, Alone(c) PROVE InOrder(c)' /\ InSuccess(c)'
  <2>1. InOrder(c) /\ InSuccess(c)
    BY <1>8 DEF OInv
  <2>2. InSuccess(c)'
    BY <1>3, <1>6, <2>1 DEF InSuccess
  <2>3. InOrder(c)'
    BY <1>2, <1>3, <1>5, <1>6, <2>1 DEF InOrder
  <2> QED BY <2>2, <2>3
<1> QED BY <1>3, <1>6, <1>7, <1>8, OneCallStep

LEMMA OrderedAuthorize ==
    ASSUME IInv, OInv, NEW c \in Calls, authorize_request(c)
    PROVE  OInv'
<1>1. PICK new : new = [call |-> c]
  OBVIOUS
<1>2. UNCHANGED <<config, clock, requests, responses, memory, pending>>
  BY DEF authorize_request
<1>3. Updated(c, "context", call[c].context, call[c].result)
  BY CallUpdate DEF IInv, authorize_request
<1>4. call[c].pc = "idle"
  BY DEF authorize_request, Idle
<1>5. /\ call'[c].pc = "context" /\ call'[c].result = call[c].result
      /\ call'[c].context = call[c].context
  BY <1>3 DEF Updated
<1>6. \A d \in Calls : d # c => Untouched(d)
  BY <1>1, <1>2, <1>3, CallerUntouched
<1>7. ASSUME ~ InTrouble, Alone(c) PROVE InOrder(c)' /\ InSuccess(c)'
  <2>1. InOrder(c) /\ InSuccess(c)
    BY <1>7 DEF OInv
  <2>2. InSuccess(c)'
    BY <1>2, <1>5, <2>1 DEF InSuccess
  <2>3. InOrder(c)'
    BY <1>2, <1>4, <1>5, <2>1 DEF InOrder
  <2> QED BY <2>2, <2>3
<1> QED BY <1>2, <1>5, <1>6, <1>7, OneCallStep

\* The end of a call in order.
LEMMA OrderedReturn ==
    ASSUME IInv, OInv, NEW c \in Calls, NEW result, Return(c, result),
           UNCHANGED <<config, clock, requests, responses, memory, pending>>,
           call[c].pc \in {"context", "retry"},
           ~ InTrouble /\ Alone(c) => result \in {"none", "Error"} \cup
                             (IF config.emit_ap_rep THEN {"AcceptedMutually"}
                              ELSE {"NoAuthenticateHeader", "NoNegotiateChallenge"})
    PROVE  OInv'
<1>1. PICK new : new = [call |-> c]
  OBVIOUS
<1>2. Updated(c, "done", call[c].context, result)
  BY CallUpdate DEF IInv, Return
<1>3. /\ call'[c].pc = "done" /\ call'[c].result = result
      /\ call'[c].context = call[c].context
  BY <1>2 DEF Updated
<1>4. \A d \in Calls : d # c => Untouched(d)
  BY <1>1, <1>2, CallerUntouched
<1>5. ASSUME ~ InTrouble, Alone(c) PROVE InOrder(c)' /\ InSuccess(c)'
  <2>1. InOrder(c)
    BY <1>5 DEF OInv
  <2>2. InSuccess(c)'
    BY <1>3, <1>5 DEF InSuccess
  <2>3. InOrder(c)'
    BY <1>3, <2>1 DEF InOrder
  <2> QED BY <2>2, <2>3
<1> QED BY <1>3, <1>4, <1>5, OneCallStep

LEMMA OrderedFail ==
    ASSUME IInv, OInv, NEW c \in Calls, NoTicket(c) \/ SenderFails(c)
    PROVE  OInv'
<1>1. CASE NoTicket(c)
  <2>1. /\ Return(c, "Error") /\ call[c].pc = "context"
        /\ UNCHANGED <<config, clock, requests, responses, memory, pending>>
    BY <1>1 DEF NoTicket
  <2> QED BY <2>1, OrderedReturn
<1>2. CASE SenderFails(c)
  BY <1>2 DEF SenderFails, OInv, InTrouble
<1> QED BY <1>1, <1>2

\* In order the first response is the challenge, and the call makes a token.
LEMMA OrderedFirstResponse ==
    ASSUME IInv, OInv, NEW c \in Calls, NEW response \in Arriving(c), FirstResponse(c, response)
    PROVE  OInv'
<1>1. UNCHANGED <<config, clock, requests, memory, pending>> /\ call[c].pc = "first"
  BY DEF FirstResponse
<1>2. SUFFICES ASSUME ~ InTrouble PROVE OInv'
  BY <1>1 DEF OInv, InTrouble
<1>3. config.trouble = "none"
  BY <1>2 DEF InTrouble
<1>4. Alone(c)
  <2>1. call[c].context = NoContext
    BY <1>1 DEF IInv, ContextInv
  <2> QED BY <2>1 DEF Alone, SameInstant
<1>41. InOrder(c) /\ InSuccess(c)
  BY <1>2, <1>4 DEF OInv
<1>5. response = [status |-> 401, headers |-> << <<Negotiate([form |-> "bare"])>> >>]
  BY <1>1, <1>3, <1>41 DEF Arriving, InOrder
<1>6. should_retry_with_negotiate(response) = "retry"
  BY <1>5, ChallengeHeader
<1>7. call' = [call EXCEPT ![c].pc = "context"] /\ responses' = {r \in responses : r.call # c}
  BY <1>3, <1>6 DEF FirstResponse
<1>8. Updated(c, "context", call[c].context, call[c].result)
  BY <1>7, CallUpdate DEF IInv
<1>9. /\ call'[c].pc = "context" /\ call'[c].result = call[c].result
      /\ call'[c].context = call[c].context
  BY <1>8 DEF Updated
<1>10. PICK new : new = [call |-> c]
  OBVIOUS
<1>11. \A d \in Calls : d # c => Untouched(d)
  BY <1>1, <1>7, <1>8, <1>10, CallerUntouched
<1>12. InSuccess(c)'
  BY <1>1, <1>41, <1>9 DEF InSuccess
<1>13. InOrder(c)'
  BY <1>1, <1>41, <1>7, <1>9 DEF InOrder
<1> QED BY <1>1, <1>9, <1>11, <1>12, <1>13, OneCallStep

\* In order the last response is the AP-REP to the call's token, or that of the
\* wrapped service.
LEMMA OrderedFinalResponse ==
    ASSUME IInv, OInv, NEW c \in Calls, NEW response \in Arriving(c), FinalResponse(c, response)
    PROVE  OInv'
<1>1. /\ UNCHANGED <<config, clock, requests, responses, memory, pending>>
      /\ call[c].pc = "retry"
  BY DEF FinalResponse
<1>2. PICK result : result = classify_negotiate_response(call[c].context, response.headers)
  OBVIOUS
<1>3. Return(c, result)
  BY <1>2 DEF FinalResponse
<1>4. ASSUME ~ InTrouble, Alone(c)
      PROVE  result \in {"none", "Error"} \cup
                (IF config.emit_ap_rep THEN {"AcceptedMutually"}
                 ELSE {"NoAuthenticateHeader", "NoNegotiateChallenge"})
  <2>1. config.trouble = "none"
    BY <1>4 DEF InTrouble
  <2>2. InOrder(c)
    BY <1>4 DEF OInv
  <2>3. response.headers \in AcceptedHeaders(c)
    BY <1>1, <2>1, <2>2 DEF Arriving, InOrder
  <2>4. PICK q \in requests : /\ q.made \in 0 .. MaxTime
                              /\ call[c].context = ContextAt(q.made)
    BY <1>1, OwnContext DEF IInv, ContextInv
  <2>5. CASE config.emit_ap_rep
    <3>1. response.headers = ApRepHeader(MessageAt(q.made))
      BY <2>3, <2>4, <2>5 DEF AcceptedHeaders, MessageAt
    <3>2. verify_ap_rep(ContextAt(q.made), MessageAt(q.made))
      BY DEF verify_ap_rep, MessageAt, ApReqOf
    <3>3. result = "AcceptedMutually"
      BY <1>2, <2>4, <3>1, <3>2, AcceptHeader
    <3> QED BY <2>5, <3>3
  <2>6. CASE ~ config.emit_ap_rep
    <3>1. response.headers \in {<<>>, << <<Word>> >>}
      BY <2>3, <2>6 DEF AcceptedHeaders
    <3> QED BY <1>2, <2>6, <3>1, PlainHeaders
  <2> QED BY <2>5, <2>6
<1> QED BY <1>1, <1>3, <1>4, OrderedReturn

\* A token that was just made is current, and in no cache.
LEMMA OrderedContext ==
    ASSUME IInv, OInv, NEW c \in Calls, SpnegoContext(c)
    PROVE  OInv'
<1>1. PICK new : new = [call |-> c, authorization |-> TokenAt(clock), made |-> clock]
  OBVIOUS
<1>2. new.call = c /\ new.made = clock
  BY <1>1
<1>3. clock \in 0 .. MaxTime /\ clock \in Nat /\ TokenAt(clock).form = "spnego"
  BY TimeAssumption DEF IInv, StateInv, TokenAt, Token, EncodeSpnegoToken, NegTokenInitKrb5,
                        NegTokenInit
<1>4. /\ UNCHANGED <<config, clock, responses, memory, pending>>
      /\ call[c].pc = "context"
      /\ requests' = requests \cup {new}
  BY <1>1, <1>3 DEF SpnegoContext, Send, TokenAt
<1>5. Updated(c, "retry", ContextAt(clock), call[c].result)
  BY CallUpdate DEF IInv, SpnegoContext
<1>6. /\ call'[c].pc = "retry" /\ call'[c].context = ContextAt(clock)
      /\ call'[c].result = call[c].result
  BY <1>5 DEF Updated
<1>61. call[c].context = NoContext
  BY <1>4 DEF IInv, ContextInv
<1>7. \A d \in Calls : d # c => Untouched(d)
  BY <1>2, <1>4, <1>5, CallerUntouched
<1>8. \A m \in memory : m[3] # c
  <2> SUFFICES ASSUME NEW m \in memory, m[3] = c PROVE FALSE
    OBVIOUS
  <2>1. PICK r \in requests : r.made # Nil /\ r.call = c
    BY DEF IInv, MemoryInv
  <2>2. r.made \in 0 .. MaxTime /\ call[c].context = ContextAt(r.made)
    BY <2>1 DEF IInv, RequestInv
  <2>3. call[c].context = NoContext
    BY <1>4 DEF IInv, ContextInv
  <2> QED BY <2>2, <2>3, ContextFacts
<1>9. ASSUME ~ InTrouble, Alone(c) PROVE InOrder(c)' /\ InSuccess(c)'
  <2>1. InOrder(c) /\ InSuccess(c)
    BY <1>9 DEF OInv
  <2>2. InSuccess(c)'
    BY <1>4, <1>6, <2>1 DEF InSuccess
  <2>3. clock' - ContextTime(call'[c].context) <= Skew
    BY <1>3, <1>4, <1>6, ContextFacts, TimeAssumption
  <2>4. InOrder(c)'
    BY <1>2, <1>3, <1>4, <1>6, <1>8, <2>1, <2>3 DEF InOrder
  <2> QED BY <2>2, <2>4
<1> QED BY <1>4, <1>61, <1>7, <1>9, OneCallStep

\* A response without an AP-REP: in order it is the challenge to a first
\* request.
LEMMA OrderedRefuse ==
    ASSUME IInv, OInv, ~ InTrouble, NEW r \in requests, r.call \in Calls,
           \/ challenge_response(r)
           \/ reject_response(r),
           Alone(r.call) => call[r.call].pc = "first" /\ challenge_response(r),
           UNCHANGED <<config, clock, call, requests, memory, pending>>
    PROVE  OInv'
<1>1. PICK headers : /\ headers \in PlainHeader /\ Respond(r, 401, headers)
                     /\ Alone(r.call) => headers = << <<Negotiate([form |-> "bare"])>> >>
  BY DEF challenge_response, reject_response, PlainHeader
<1>2. PICK x : x = Reply(r, 401, headers)
  OBVIOUS
<1>3. /\ responses' = responses \cup {x}
      /\ x.response = [status |-> 401, headers |-> headers]
  BY <1>1, <1>2 DEF Respond, Reply
<1>4. x.call = r.call
  BY <1>2 DEF Reply, InTrouble
<1>5. \A d \in Calls : d # r.call => Untouched(d)
  BY <1>3, <1>4 DEF Untouched
<1>6. ASSUME Alone(r.call) PROVE InOrder(r.call)' /\ InSuccess(r.call)'
  <2>1. InOrder(r.call) /\ InSuccess(r.call)
    BY <1>6 DEF OInv
  <2>2. InSuccess(r.call)'
    BY <2>1 DEF InSuccess
  <2>3. InOrder(r.call)'
    BY <1>1, <1>3, <1>4, <1>6, <2>1 DEF InOrder
  <2> QED BY <2>2, <2>3
<1> QED BY <1>5, <1>6, OneCallStep

\* In order a token arrives once, and while it is current: it is taken, unless
\* another of the same microsecond was.
LEMMA OrderedDeliver ==
    ASSUME IInv, OInv, NEW s \in Services, NEW r \in requests, Deliver(s, r)
    PROVE  OInv'
<1>1. UNCHANGED <<config, clock, call, requests, exposed>>
  BY DeliverOutcome
<1>2. SUFFICES ASSUME ~ InTrouble PROVE OInv'
  BY <1>1 DEF OInv, InTrouble
<1>3. PICK c : c = r.call
  OBVIOUS
<1>4. c \in Calls /\ (Alone(c) => InOrder(c) /\ InSuccess(c))
  BY <1>2, <1>3 DEF IInv, RequestInv, OInv
<1>5. /\ ~ \E q \in responses : q.call = c
      /\ \A p \in pending : p[1] # c
      /\ (r.authorization.form = "none") = (call[c].pc = "first")
      /\ call[c].pc # "done"
  BY <1>2, <1>3 DEF Deliver
<1>6. CASE r.made = Nil /\ challenge_response(r) /\ UNCHANGED <<memory, pending, executions, accepted>>
  <2>1. call[c].pc = "first"
    BY <1>5, <1>6 DEF IInv, RequestInv, NoAuthorization
  <2> QED BY <1>1, <1>2, <1>3, <1>4, <1>6, <2>1, OrderedRefuse
<1>7. CASE r.made # Nil
  <2>1. r.made \in 0 .. MaxTime /\ call[c].context = ContextAt(r.made)
    BY <1>3, <1>7 DEF IInv, RequestInv
  <2>2. /\ ContextAt(r.made) # NoContext /\ ContextTime(ContextAt(r.made)) = r.made
        /\ ContextTime(MessageAt(r.made)) = r.made /\ r.made \in Nat
    BY <2>1, ContextFacts, SentAsMade, NameAssumption
  <2>3. ASSUME Alone(c)
        PROVE  /\ call[c].pc = "retry" /\ Validates(MessageAt(r.made))
               /\ ~ Seen(s, MessageAt(r.made))
    <3>1. InOrder(c)
      BY <1>4, <2>3
    <3>2. call[c].pc = "retry"
      BY <1>4, <1>5, <2>1, <2>2, <3>1 DEF IInv, ContextInv, InOrder
    <3>3. clock - r.made <= Skew /\ r.made <= clock /\ clock \in Nat
      BY <1>3, <1>4, <1>7, <2>1, <2>2, <3>1, <3>2, TimeAssumption DEF InOrder, IInv, StateInv
    <3>4. Validates(MessageAt(r.made))
      <4>1. MessageAt(r.made).key = TicketKey
        BY DEF MessageAt, ApReqOf, ContextAt
      <4> QED BY <2>2, <3>3, <4>1, TimeAssumption DEF Validates
    <3>5. \A m \in memory : m[3] # c
      BY <1>5, <3>1, <3>2 DEF InOrder
    <3>6. ~ Seen(s, MessageAt(r.made))
      <4> SUFFICES ASSUME NEW m \in memory, m[2] = ReplayKey(MessageAt(r.made)) PROVE FALSE
        BY DEF Seen
      <4>1. PICK q \in requests, name \in Names : /\ q.made # Nil /\ q.call = m[3]
                                                  /\ m[2] = ReplayKey(Sent(q.made, name))
        BY DEF IInv, MemoryInv
      <4>2. q.made \in 0 .. MaxTime /\ m[3] \in Calls /\ call[m[3]].context = ContextAt(q.made)
        BY <4>1 DEF IInv, RequestInv
      <4>3. q.made = r.made
        <5>1. MessageAt(r.made) = Sent(r.made, TicketName)
          BY SentAsMade
        <5>2. ReplayKey(Sent(r.made, TicketName)) = ReplayKey(Sent(q.made, name))
          BY <4>1, <5>1
        <5> QED BY <2>1, <4>2, <5>2, OneToken, NameAssumption
      <4>4. SameInstant(c, m[3])
        BY <1>4, <2>1, <4>2, <4>3, Instants
      <4> QED BY <2>3, <3>5, <4>2, <4>4 DEF Alone
    <3> QED BY <3>2, <3>4, <3>6
  <2>4. CASE /\ challenge_response(r) \/ reject_response(r)
             /\ ~ Validates(MessageAt(r.made)) \/ Seen(s, MessageAt(r.made))
             /\ UNCHANGED <<memory, pending>>
    BY <1>1, <1>2, <1>3, <1>4, <2>3, <2>4, OrderedRefuse
  <2>5. ASSUME NEW name \in Names, Taken(s, r, name), Forwarded(r, name) PROVE OInv'
    <3>1. PICK headers : headers = IF config.emit_ap_rep THEN ApRepHeader(ApReqOf(call[c].context))
                                   ELSE <<>>
      OBVIOUS
    <3>2. PICK p : p = <<c, headers>>
      OBVIOUS
    <3>3. p[1] = c /\ p[2] = headers /\ pending' = pending \cup {p}
      BY <1>3, <2>1, <2>5, <3>1, <3>2 DEF Forwarded, MessageAt
    <3>4. PICK m : m = <<CacheOf(s), ReplayKey(Sent(r.made, name)), r.call>>
      OBVIOUS
    <3>5. m[3] = c /\ memory' = memory \cup {m} /\ UNCHANGED responses
      BY <1>3, <2>5, <3>4 DEF Taken
    <3>6. \A d \in Calls : d # c => Untouched(d)
      BY <1>1, <3>3, <3>5 DEF Untouched
    <3>7. ASSUME Alone(c) PROVE InOrder(c)' /\ InSuccess(c)'
      <4>1. InOrder(c) /\ InSuccess(c) /\ call[c].pc = "retry"
        BY <1>4, <2>3, <3>7
      <4>2. InSuccess(c)'
        BY <1>1, <4>1 DEF InSuccess
      <4>3. InOrder(c)'
        BY <1>1, <1>5, <3>1, <3>3, <3>5, <4>1 DEF InOrder
      <4> QED BY <4>2, <4>3
    <3>8. UNCHANGED config /\ call'[c].context = call[c].context
      BY <1>1
    <3> QED BY <1>4, <3>6, <3>7, <3>8, OneCallStep
  <2>6. \/ /\ challenge_response(r) \/ reject_response(r)
           /\ ~ Validates(MessageAt(r.made)) \/ Seen(s, MessageAt(r.made))
           /\ UNCHANGED <<memory, pending>>
        \/ \E name \in Names : Taken(s, r, name) /\ Forwarded(r, name)
    <3>1. \/ /\ r.made # Nil
             /\ InTrouble \/ ~ Validates(MessageAt(r.made)) \/ Seen(s, MessageAt(r.made))
             /\ challenge_response(r) \/ reject_response(r)
             /\ UNCHANGED <<memory, pending, executions, accepted>>
          \/ \E name \in Names :
                /\ Taken(s, r, name)
                /\ Forwarded(r, name) \/ (InTrouble /\ UNCHANGED <<pending, executions>>)
      BY <1>7, DeliverOutcome
    <3> QED BY <1>2, <3>1
  <2> QED BY <2>4, <2>5, <2>6
<1>8. r.made = Nil => challenge_response(r) /\ UNCHANGED <<memory, pending, executions, accepted>>
  BY DeliverOutcome DEF Taken
<1> QED BY <1>6, <1>7, <1>8

LEMMA OrderedInner ==
    ASSUME IInv, OInv, NEW p \in pending, InnerResponds(p) \/ InnerFails(p)
    PROVE  OInv'
<1>1. UNCHANGED <<config, clock, call, requests, memory>>
  BY DEF InnerResponds, InnerFails
<1>2. SUFFICES ASSUME ~ InTrouble PROVE OInv'
  BY <1>1 DEF OInv, InTrouble
<1>3. InnerResponds(p)
  BY <1>2 DEF InnerFails
<1>4. PICK c : c = p[1]
  OBVIOUS
<1>5. c \in Calls /\ (Alone(c) => InOrder(c) /\ InSuccess(c))
  BY <1>2, <1>4 DEF IInv, PendingInv, OInv
<1>6. PICK own : own = IF config.inner = 401 THEN << <<Word>> >> ELSE <<>>
  OBVIOUS
<1>7. PICK headers : headers = IF p[2] = <<>> THEN own ELSE p[2]
  OBVIOUS
<1>8. PICK q : q = [call |-> p[1]]
  OBVIOUS
<1>9. PICK status : status = config.inner /\ Respond(q, status, headers)
  BY <1>3, <1>6, <1>7, <1>8 DEF InnerResponds
<1>10. PICK x : x = Reply(q, status, headers)
  OBVIOUS
<1>11. responses' = responses \cup {x} /\ x.response.headers = headers /\ x.call = c
  BY <1>2, <1>4, <1>8, <1>9, <1>10 DEF Respond, Reply, InTrouble
<1>12. pending' = pending \ {p}
  BY <1>3 DEF InnerResponds
<1>13. \A d \in Calls : d # c => Untouched(d)
  BY <1>1, <1>4, <1>11, <1>12 DEF Untouched
<1>14. ASSUME Alone(c) PROVE InOrder(c)' /\ InSuccess(c)'
  <2>1. InOrder(c) /\ InSuccess(c)
    BY <1>5, <1>14
  <2>2. call[c].pc \in {"retry", "done"}
    BY <1>4, <2>1 DEF InOrder
  <2>3. call[c].pc = "retry" => headers \in AcceptedHeaders(c)
    <3> SUFFICES ASSUME call[c].pc = "retry" PROVE headers \in AcceptedHeaders(c)
      OBVIOUS
    <3>1. p[2] = IF config.emit_ap_rep THEN ApRepHeader(ApReqOf(call[c].context)) ELSE <<>>
      BY <1>4, <2>1 DEF InOrder
    <3>2. ApRepHeader(ApReqOf(call[c].context)) # <<>>
      BY DEF ApRepHeader
    <3>3. own \in {<<>>, << <<Word>> >>}
      BY <1>6
    <3> QED BY <1>7, <3>1, <3>2, <3>3 DEF AcceptedHeaders
  <2>4. AcceptedHeaders(c)' = AcceptedHeaders(c)
    BY <1>1 DEF AcceptedHeaders
  <2>5. InSuccess(c)'
    BY <1>1, <2>1 DEF InSuccess
  <2>6. InOrder(c)'
    BY <1>1, <1>11, <1>12, <2>1, <2>2, <2>3, <2>4 DEF InOrder
  <2> QED BY <2>5, <2>6
<1> QED BY <1>1, <1>5, <1>13, <1>14, OneCallStep

LEMMA OrderedTick ==
    ASSUME IInv, OInv, Tick
    PROVE  OInv'
<1>1. UNCHANGED <<config, call, requests, responses, memory, pending>> /\ clock' = clock + 1
  BY DEF Tick
<1> SUFFICES ASSUME ~ InTrouble, NEW c \in Calls, Alone(c)' PROVE InOrder(c)' /\ InSuccess(c)'
  BY <1>1 DEF OInv, InTrouble
<1>2. InOrder(c) /\ InSuccess(c)
  BY <1>1, Instants DEF OInv
<1>3. InSuccess(c)'
  BY <1>1, <1>2 DEF InSuccess
<1>4. clock \in Nat
  BY TimeAssumption DEF IInv, StateInv
<1>5. AcceptedHeaders(c)' = AcceptedHeaders(c)
  BY <1>1 DEF AcceptedHeaders
<1>6. ASSUME call[c].pc = "retry" PROVE clock' - ContextTime(call'[c].context) <= Skew
  <2>1. PICK q \in requests : /\ q.made \in 0 .. MaxTime
                              /\ call[c].context = ContextAt(q.made)
    BY <1>6, OwnContext DEF IInv, ContextInv
  <2>2. ContextTime(call[c].context) = q.made /\ q.made \in Nat
    BY <2>1, ContextFacts
  <2>3. clock - ContextTime(call[c].context) < Skew
    BY <1>6 DEF Tick
  <2>4. ContextTime(call'[c].context) = q.made
    BY <1>1, <2>2
  <2> QED BY <1>1, <1>4, <2>2, <2>3, <2>4, TimeAssumption
<1>7. \A r \in requests : r.call = c => r.made = Nil \/ r.made <= clock'
  <2> SUFFICES ASSUME NEW r \in requests, r.call = c, r.made # Nil PROVE r.made <= clock'
    OBVIOUS
  <2>1. r.made \in Nat /\ r.made <= clock
    BY <1>2, TimeAssumption DEF IInv, RequestInv, InOrder
  <2> QED BY <1>1, <1>4, <2>1
<1>8. InOrder(c)'
  BY <1>1, <1>2, <1>5, <1>6, <1>7 DEF InOrder
<1> QED BY <1>3, <1>8

LEMMA OrderedNext ==
    ASSUME IInv, OInv, [Next]_vars
    PROVE  OInv'
<1>1. ASSUME NEW c \in Calls,
             \/ send_with_negotiate(c) \/ authorize_request(c)
             \/ SpnegoContext(c) \/ NoTicket(c) \/ SenderFails(c)
      PROVE  OInv'
  BY <1>1, OrderedSend, OrderedAuthorize, OrderedContext, OrderedFail
<1>2. ASSUME NEW c \in Calls, NEW response \in Arriving(c),
             FirstResponse(c, response) \/ FinalResponse(c, response)
      PROVE  OInv'
  BY <1>2, OrderedFirstResponse, OrderedFinalResponse
<1>3. CASE Restart
  BY <1>3 DEF Restart, OInv, InTrouble
<1>4. CASE UNCHANGED vars
  <2>1. UNCHANGED config /\ \A c \in Calls : Untouched(c)
    BY <1>4 DEF vars, Untouched
  <2>2. \A c \in Calls : Alone(c)' => Alone(c)
    BY <1>4, Instants DEF vars
  <2> QED BY <2>1, <2>2, UntouchedStep DEF OInv, InTrouble
<1> QED BY <1>1, <1>2, <1>3, <1>4, OrderedDeliver, OrderedInner, OrderedTick DEF Next

\* Without trouble a call with a ticket succeeds, with a verified AP-REP where
\* the layer emits them: its token arrives once and while it is current, so that
\* it is neither stale nor a replay, unless another call read the same microsecond.
THEOREM CallsSucceed == Spec => []CallSucceeds
<1>1. Init => OInv
  BY DEF Init, OInv, InOrder, InSuccess, Idle
<1>2. IInv /\ OInv /\ [Next]_vars => OInv'
  BY OrderedNext
<1>3. OInv => CallSucceeds
  BY DEF OInv, InSuccess, CallSucceeds
<1> QED BY <1>1, <1>2, <1>3, Invariance, PTL DEF Spec
=============================================================================
