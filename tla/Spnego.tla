------------------------------- MODULE Spnego -------------------------------
(***************************************************************************)
(* SPNEGO tokens and HTTP Negotiate headers: what src/spnego.rs and         *)
(* src/http.rs make of the bytes they are given.                            *)
(*                                                                          *)
(* A Kerberos message is a record of what its receiver distinguishes:       *)
(*   id          "ApReq", "ApRep" or "KrbError", the token id before it     *)
(*   key         the session key its encrypted part opens with              *)
(*   client, ctime, cusec    of the authenticator, or echoed in an AP-REP   *)
(* A mech token is [oid, message], or Nil where it is left out.             *)
(* The bytes behind "Negotiate" are a record with a field form:             *)
(*   "bare"      nothing follows         "garbage"  no base64 or DER        *)
(*   "raw"       a mech token that is not wrapped in SPNEGO                 *)
(*   "spnego"    fields <<tag, value>> of a negotiation token, the choice   *)
(*               between NegTokenInit and NegTokenResp, and whether they    *)
(*               are wrapped as an initial context token                    *)
(* MICs and request flags are carried in the fields 1 and 3 and never read. *)
(***************************************************************************)
EXTENDS Integers, Sequences

CONSTANT Nil    \* an absent field, None

\* The first and the last of a set of positions.
FirstOf(positions) == CHOOSE i \in positions : \A j \in positions : i <= j
LastOf(positions) == CHOOSE i \in positions : \A j \in positions : j <= i

-----------------------------------------------------------------------------
(* Mech tokens.                                                             *)

KerberosMechanisms == {"krb5", "ms_legacy_krb5"}

Krb5MechToken(message) == [oid |-> "krb5", message |-> message]

\* Krb5MechToken::decode: the message of a mech token.  The outer OID has to
\* be krb5 itself although a mechanism list may name the legacy one.
Krb5Message(token) ==
    IF token # Nil /\ token.oid = "krb5" THEN token.message ELSE Nil

-----------------------------------------------------------------------------
(* Negotiation tokens: values of the two types, and their fields.           *)

Malformed == [form |-> "malformed"]

NegTokenInit(mechs, token) == [form |-> "init", mechs |-> mechs, token |-> token]
NegTokenInitKrb5(token) == NegTokenInit(<<"krb5">>, token)

NegTokenResp(state, mech, token) ==
    [form |-> "resp", state |-> state, mech |-> mech, token |-> token]
accept_completed(token) == NegTokenResp("AcceptCompleted", "krb5", token)
reject == NegTokenResp("Reject", Nil, Nil)

NegStates == <<"AcceptCompleted", "AcceptIncomplete", "Reject", "RequestMic">>
NegStateValue(state) == (CHOOSE i \in 1 .. Len(NegStates) : NegStates[i] = state) - 1

\* A field is written if it is present.
Push(fields, tag, value) == IF value = Nil THEN fields ELSE Append(fields, <<tag, value>>)

\* The value of a field; where a tag is repeated the last one counts.
FieldValue(fields, tag) ==
    LET found == {i \in DOMAIN fields : fields[i][1] = tag}
    IN  IF found = {} THEN Nil ELSE fields[LastOf(found)][2]

KnownTags(fields) == \A i \in DOMAIN fields : fields[i][1] \in 0 .. 3

EncodeNegTokenInit(t) == Push(Push(<<>>, 0, t.mechs), 2, t.token)
decode_neg_token_init(fields) ==
    IF KnownTags(fields) /\ FieldValue(fields, 0) \notin {Nil, <<>>}
    THEN NegTokenInit(FieldValue(fields, 0), FieldValue(fields, 2))
    ELSE Malformed

EncodeNegTokenResp(t) ==
    Push(Push(Push(<<>>, 0, IF t.state = Nil THEN Nil ELSE NegStateValue(t.state)),
              1, t.mech), 2, t.token)
decode_neg_token_resp(fields) ==
    LET state == FieldValue(fields, 0)
    IN  IF KnownTags(fields) /\ state \in {Nil} \cup 0 .. 3
        THEN NegTokenResp(IF state = Nil THEN Nil ELSE NegStates[state + 1],
                          FieldValue(fields, 1), FieldValue(fields, 2))
        ELSE Malformed

\* SpnegoToken::encode: only an initial token has the outer wrapping.
EncodeSpnegoToken(t) ==
    IF t.form = "init"
    THEN [form |-> "spnego", wrapped |-> TRUE, choice |-> "init", fields |-> EncodeNegTokenInit(t)]
    ELSE [form |-> "spnego", wrapped |-> FALSE, choice |-> "resp", fields |-> EncodeNegTokenResp(t)]

\* SpnegoToken::decode: wrapped or not, but a wrapped one has to be initial.
DecodeSpnegoToken(bytes) ==
    CASE bytes.form # "spnego" -> Malformed
      [] bytes.form = "spnego" /\ bytes.choice = "init" -> decode_neg_token_init(bytes.fields)
      [] bytes.form = "spnego" /\ bytes.choice = "resp" ->
             IF bytes.wrapped THEN Malformed ELSE decode_neg_token_resp(bytes.fields)

\* A raw mech token is taken for the SPNEGO token it stands for.
raw_krb5_negotiate_token(token) ==
    LET message == Krb5Message(token)
    IN  IF message = Nil THEN Malformed
        ELSE CASE message.id = "ApReq"    -> NegTokenInitKrb5(token)
               [] message.id = "ApRep"    -> accept_completed(token)
               [] message.id = "KrbError" -> [reject EXCEPT !.token = token]

parse_negotiate_header(bytes) ==
    IF bytes.form = "raw" THEN raw_krb5_negotiate_token(bytes.token)
    ELSE DecodeSpnegoToken(bytes)

ensure_kerberos_mechanism(mechs) == \E i \in DOMAIN mechs : mechs[i] \in KerberosMechanisms

\* The AP-REQ of a token, Nil where there is none for Kerberos.  Any offered
\* Kerberos mechanism will do; the token is still taken for the first one's.
krb5_ap_req(token) ==
    LET offered == CASE token.form = "init" -> token.mechs
                     [] token.form = "resp" -> <<token.mech>>
                     [] OTHER -> <<>>
        message == IF ensure_kerberos_mechanism(offered) THEN Krb5Message(token.token) ELSE Nil
    IN  IF message # Nil /\ message.id = "ApReq" THEN message ELSE Nil

-----------------------------------------------------------------------------
(* Response headers.  A header value is a sequence of symbols: the words of *)
(* its challenges, commas, quotes and backslashes, or NotText if it is not  *)
(* a string.  The symbol of a Negotiate challenge carries the bytes that    *)
(* follow the word.                                                         *)

Comma == [sym |-> ","]
Quote == [sym |-> "quote"]
Backslash == [sym |-> "backslash"]
Word == [sym |-> "word"]
Negotiate(bytes) == [sym |-> "Negotiate", bytes |-> bytes]

NotText == << [sym |-> "not text"] >>

\* Within quotes or not, and behind a backslash or not, after each symbol.
Unquoted == [quoted |-> FALSE, escaped |-> FALSE]
QuotingAfter(state, symbol) ==
    CASE state.escaped -> [state EXCEPT !.escaped = FALSE]
      [] ~ state.escaped /\ symbol.sym = "backslash" /\ state.quoted ->
             [state EXCEPT !.escaped = TRUE]
      [] ~ state.escaped /\ symbol.sym = "quote" -> [state EXCEPT !.quoted = ~ @]
      [] OTHER -> state

\* The parts of a header value between the commas that are not quoted: the
\* positions at which they begin.
WwwAuthenticateSegments(value) ==
    LET state[i \in 0 .. Len(value)] ==
            IF i = 0 THEN Unquoted ELSE QuotingAfter(state[i - 1], value[i])
    IN  {1} \cup {i + 1 : i \in {j \in DOMAIN value : value[j].sym = ","
                                                  /\ state[j - 1] = Unquoted}}

\* The bytes of the first segment that begins with the scheme, or Nil.
negotiate_challenge(value) ==
    LET found == {i \in WwwAuthenticateSegments(value) \cap DOMAIN value :
                      value[i].sym = "Negotiate"}
    IN  IF found = {} THEN Nil ELSE value[FirstOf(found)].bytes

\* www_authenticate_negotiate_header: the first header that is no text or
\* holds a challenge decides.
www_authenticate_negotiate_header(headers) ==
    LET decisive == {i \in DOMAIN headers : \/ headers[i] = NotText
                                            \/ negotiate_challenge(headers[i]) # Nil}
        header == headers[FirstOf(decisive)]
    IN  CASE headers = <<>> -> [error |-> "MissingWwwAuthenticate"]
          [] headers # <<>> /\ decisive = {} -> [error |-> "MissingNegotiateChallenge"]
          [] decisive # {} /\ header = NotText -> [error |-> "InvalidHeader"]
          [] OTHER -> [error |-> "None", bytes |-> negotiate_challenge(header)]

-----------------------------------------------------------------------------
(* The initiator's side.                                                    *)

\* An initiator context, of which only what answers are checked against.
\* A bug: the microseconds are not compared.
verify_ap_repSeconds(context, message) ==
    message.key = context.key /\ message.ctime = context.ctime

\* InitiatorContext::verify_ap_rep: the AP-REP opens with the session key and
\* echoes the authenticator's time.
verify_ap_rep(context, message) ==
    /\ message.key = context.key
    /\ message.ctime = context.ctime
    /\ message.cusec = context.cusec

classify_negotiate_challenge(context, bytes) ==
    LET token == parse_negotiate_header(bytes)
        message == Krb5Message(token.token)
    IN  CASE bytes.form = "bare" -> "Challenge"
          [] bytes.form # "bare" /\ token.form # "resp" -> "InvalidToken"
          [] token.form = "resp" /\ token.state = "Reject" -> "Rejected"
          [] token.form = "resp" /\ token.state \in {"AcceptIncomplete", "RequestMic"}
                                 /\ token.token = Nil -> "Challenge"
          [] token.form = "resp" /\ token.state \in {"AcceptCompleted", Nil}
                                 /\ token.token = Nil -> "Accepted"
          [] OTHER -> IF message = Nil THEN "InvalidToken"
                      ELSE CASE message.id = "ApRep" ->
                                  IF verify_ap_rep(context, message)
                                  THEN "AcceptedMutually" ELSE "InvalidToken"
                             [] message.id = "KrbError" -> "Rejected"
                             [] message.id = "ApReq" -> "InvalidToken"

\* ClientNegotiateResponse; "AcceptedMutually" is Accepted with an AP-REP.
Classifications == {"NoAuthenticateHeader", "NoNegotiateChallenge", "Challenge",
                    "Accepted", "AcceptedMutually", "Rejected", "InvalidToken"}

classify_negotiate_response(context, headers) ==
    LET challenge == www_authenticate_negotiate_header(headers)
    IN  CASE challenge.error = "MissingWwwAuthenticate" -> "NoAuthenticateHeader"
          [] challenge.error = "MissingNegotiateChallenge" -> "NoNegotiateChallenge"
          [] challenge.error = "InvalidHeader" -> "InvalidToken"
          [] challenge.error = "None" -> classify_negotiate_challenge(context, challenge.bytes)

\* Whether the first response is answered with a token: "retry", "done", or
\* "error" for a header that is no text.
should_retry_with_negotiate(response) ==
    LET challenge == www_authenticate_negotiate_header(response.headers)
    IN  CASE response.status # 401 -> "done"
          [] response.status = 401 /\ challenge.error = "None" -> "retry"
          [] response.status = 401 /\ challenge.error = "InvalidHeader" -> "error"
          [] OTHER -> "done"
=============================================================================
