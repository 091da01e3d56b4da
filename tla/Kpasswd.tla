------------------------------ MODULE Kpasswd -------------------------------
(***************************************************************************)
(* Messages of the password-change protocol: the frames of src/kadmin.rs,   *)
(* the KRB-PRIV messages of src/krb_priv.rs, and what the client of         *)
(* src/client/kpasswd.rs builds and makes of an answer.                     *)
(*                                                                          *)
(* An encrypted part is a record with the key that opens it.  Messages have *)
(* the length one, and so has the header of a frame; keys are of one        *)
(* enctype.  A timestamp stands for seconds and microseconds.               *)
(***************************************************************************)
EXTENDS Integers, Sequences

CONSTANT Nil    \* an absent field, None

CHANGE_PASSWORD_REQUEST_VERSION == 65408
CHANGE_PASSWORD_REPLY_VERSION == 1
HEADER_LEN == 1

KPASSWD_SUCCESS == 0
KPASSWD_AUTHERROR == 3
KPASSWD_SOFTERROR == 4
KPASSWD_ACCESSDENIED == 5
KPASSWD_INITIAL_FLAG_NEEDED == 7

-----------------------------------------------------------------------------
(* Messages.                                                                *)

ApReq(ticket, subkey, time) ==
    [type |-> "AP-REQ", ticket |-> ticket, subkey |-> subkey, time |-> time]
ApRep(key, subkey, time) ==
    [type |-> "AP-REP", key |-> key, subkey |-> subkey, time |-> time]
KrbError(e_data) == [type |-> "KRB-ERROR", e_data |-> e_data]

\* build_krb_priv: the part is encrypted under the given key; its timestamp,
\* sequence number and addresses are not read by the receiver of a reply.
build_krb_priv(user_data, key) ==
    [type |-> "KRB-PRIV", key |-> key, user_data |-> user_data]

\* The user data of a KRB-PRIV, or Nil if the key does not open it.
decrypt_krb_priv_enc_part(krb_priv, key) ==
    IF krb_priv.key = key THEN krb_priv.user_data ELSE Nil

\* ChangePasswdData::for_target: the target is always named, the client's own
\* principal too.
ChangePasswdData(new_passwd, target) == [new_passwd |-> new_passwd, target |-> target]

-----------------------------------------------------------------------------
(* Frames.                                                                  *)

Frame(version, payload_length, body) ==
    [message_length |-> HEADER_LEN + Len(body), version |-> version,
     payload_length |-> payload_length, body |-> body]

\* parse_header: the frame is as long as it says, or longer; what follows it in
\* the buffer is left alone.
parse_header(frame) == frame.message_length \in HEADER_LEN .. HEADER_LEN + Len(frame.body)
Body(frame) == SubSeq(frame.body, 1, frame.message_length - HEADER_LEN)

\* Request::encode and Request::parse.
EncodeRequest(request) ==
    Frame(CHANGE_PASSWORD_REQUEST_VERSION, 1, <<request.ap_req, request.krb_priv>>)
ParseRequest(bytes) ==
    IF /\ parse_header(bytes)
       /\ bytes.version = CHANGE_PASSWORD_REQUEST_VERSION
       /\ bytes.payload_length \in 1 .. Len(Body(bytes)) - 1
    THEN [ap_req |-> Body(bytes)[1], krb_priv |-> Body(bytes)[2]]
    ELSE Nil

\* Reply::encode and Reply::parse: an AP-REP and a KRB-PRIV, or, if the first
\* has length zero, a KRB-ERROR.
EncodeReply(reply) ==
    IF reply.krb_error # Nil
    THEN Frame(CHANGE_PASSWORD_REPLY_VERSION, 0, <<reply.krb_error>>)
    ELSE Frame(CHANGE_PASSWORD_REPLY_VERSION, 1, <<reply.ap_rep, reply.krb_priv>>)
WellFormedReply(bytes) ==
    /\ parse_header(bytes)
    /\ bytes.version = CHANGE_PASSWORD_REPLY_VERSION
    /\ bytes.payload_length < Len(Body(bytes))
ParseReply(bytes) ==
    IF bytes.payload_length = 0
    THEN [ap_rep |-> Nil, krb_priv |-> Nil, krb_error |-> Body(bytes)[1]]
    ELSE [ap_rep |-> Body(bytes)[1], krb_priv |-> Body(bytes)[2], krb_error |-> Nil]

-----------------------------------------------------------------------------
(* The client.                                                              *)

\* build_kpasswd_request: a fresh key is the subkey of the authenticator and
\* encrypts the change.
build_kpasswd_request(ticket, change_data, reply_key, timestamp) ==
    [ap_req    |-> ApReq(ticket, reply_key, timestamp),
     krb_priv  |-> build_krb_priv(change_data, reply_key)]

\* A bug: the timestamp is not compared.
verify_kpasswd_ap_repAnyTime(reply, request) ==
    \/ reply.krb_error # Nil
    \/ reply.ap_rep.key = request.ap_req.ticket.key

\* Whether the AP-REP of a reply answers the request; a KRB-ERROR has none.
verify_kpasswd_ap_rep(reply, request) ==
    \/ reply.krb_error # Nil
    \/ /\ reply.ap_rep.key = request.ap_req.ticket.key
       /\ reply.ap_rep.time = request.ap_req.time

\* The key of the KRB-PRIV in a reply.
\* A bug: the subkey that the server chose is ignored.
result_keyOwn(reply, request) == request.ap_req.subkey
result_key(reply, request) ==
    IF reply.ap_rep # Nil /\ reply.ap_rep.subkey # Nil THEN reply.ap_rep.subkey
    ELSE request.ap_req.subkey

\* Reply::decrypt_result: the code in the KRB-ERROR or in the KRB-PRIV, or Nil.
decrypt_result(reply, key) ==
    IF reply.krb_error # Nil THEN reply.krb_error.e_data
    ELSE decrypt_krb_priv_enc_part(reply.krb_priv, key)

\* What change_password_for_with_options makes of an answer: "ok" and "refused"
\* for success and another code in a KRB-PRIV; "claimed" and "denied", which
\* the caller does not tell from them, for the same in a KRB-ERROR, which has no
\* AP-REP; "error" for an answer it cannot take.
Outcome(bytes, request) ==
    LET reply == ParseReply(bytes)
        code == decrypt_result(reply, result_key(reply, request))
        taken == WellFormedReply(bytes)
        protected == reply.krb_error = Nil
    IN  CASE ~ taken -> "error"
          [] taken /\ ~ verify_kpasswd_ap_rep(reply, request) -> "error"
          [] OTHER -> CASE code = Nil -> "error"
                        [] code = KPASSWD_SUCCESS -> IF protected THEN "ok" ELSE "claimed"
                        [] OTHER -> IF protected THEN "refused" ELSE "denied"
=============================================================================
