------------------------------ MODULE GssToken ------------------------------
(***************************************************************************)
(* GSS-API per-message tokens (MicToken and WrapToken of src/spnego.rs):    *)
(* a sender that builds tokens call by call, a network that changes them,   *)
(* and a receiver.                                                          *)
(*                                                                          *)
(* Bytes are sequences of units: a header (a record), a unit of data        *)
(* ([data |-> n], n = 0 for the filler), or the unit at some place of a     *)
(* checksum or a ciphertext.  Checksums and ciphertexts are free: they are  *)
(* equal only when key, usage and contents are.                             *)
(***************************************************************************)
EXTENDS Integers, Sequences, FiniteSets

CONSTANTS Nil,           \* an absent field, None
          Keys,          \* the keys of one context
          Supported,     \* those of them with a supported enctype
          Payloads,      \* sequences of data units
          Usages,
          Seqs, Ecs, Rrcs,
          ChecksumLen,   \* hmac_len of the enctype
          Overhead,      \* what encryption adds: confounder and hmac
          MaxTokens,     \* bound: tokens the sender sends
          MaxBuilt,      \* bound: those of them that are built call by call
          MaxCalls       \* bound: calls on one token

VARIABLES token,    \* the sender's token, Nil before it is made
          sealing,  \* history: sealing of the token was requested
          made,     \* history: what was last protected in the token
          calls,    \* calls made on the token
          sent,     \* history: the tokens sent: [bytes, sealing, made, current]
          outcome   \* of the receiver's last token, Nil before

vars == <<token, sealing, made, calls, sent, outcome>>

ACCEPTOR_SEAL == 22
ACCEPTOR_SIGN == 23
INITIATOR_SEAL == 24
INITIATOR_SIGN == 25
ASSUME UsagesAssumption == Usages \subseteq ACCEPTOR_SEAL .. INITIATOR_SIGN

\* The two flags that the code looks at.
FlagSets == SUBSET {"acceptor", "sealed"}

\* What is protected, the units of bytes, and tokens.
Plain == [data : Nat] \cup [id : {"mic", "wrap"}, flags : FlagSets, ec : Nat, rrc : Nat, seq : Int]
Contents == Keys \X Int \X Seq(Plain)
Unit == Plain \cup [mac : Contents, at : Nat] \cup [secret : Contents, at : Nat]
Option == Seq(Unit) \cup {Nil}
Token == [id : {"mic", "wrap"}, flags : FlagSets, ec : Nat, rrc : Nat, seq : Int,
          payload : Option, checksum : Option, body : Option]
Protected == [id : {"mic", "wrap"}, flags : FlagSets, seq : Int, payload : Payloads,
              key : Supported, usage : Int]

ASSUME TokenAssumption ==
    /\ Supported \subseteq Keys /\ Payloads \subseteq Seq([data : Nat])
    /\ Seqs \subseteq Int /\ Ecs \subseteq Nat /\ Rrcs \subseteq Nat
    /\ ChecksumLen \in Nat \ {0} /\ Overhead \in Nat
ASSUME NilAssumption == Nil \notin Seq(Unit) /\ Nil \notin Token /\ Nil \notin Protected

-----------------------------------------------------------------------------
(* Cryptography, as an ideal one.                                           *)

Checksum(key, usage, data) ==
    [i \in 1 .. ChecksumLen |-> [mac |-> <<key, usage, data>>, at |-> i]]

encrypt_message(key, usage, plaintext) ==
    [i \in 1 .. Len(plaintext) + Overhead |->
        [secret |-> <<key, usage, plaintext>>, at |-> i]]

\* Nil: the integrity check failed.
decrypt_message(key, usage, bytes) ==
    LET secret == bytes[1].secret
    IN  IF /\ bytes # <<>> /\ "secret" \in DOMAIN bytes[1]
           /\ secret[1] = key /\ secret[2] = usage
           /\ bytes = encrypt_message(key, usage, secret[3])
        THEN secret[3] ELSE Nil

-----------------------------------------------------------------------------
(* Tokens.  Calls on a token return [ok, token]: a failing call may have    *)
(* changed it.                                                              *)

wrap_header(flags, ec, rrc, seq) ==
    [id |-> "wrap", flags |-> flags, ec |-> ec, rrc |-> rrc, seq |-> seq]
wrap_checksum_header(flags, seq) == wrap_header(flags, 0, 0, seq)
mic_header(flags, seq) == [id |-> "mic", flags |-> flags, ec |-> 0, rrc |-> 0, seq |-> seq]

NewMic(flags, seq) ==
    [id |-> "mic", flags |-> flags, ec |-> 0, rrc |-> 0, seq |-> seq,
     payload |-> Nil, checksum |-> Nil, body |-> Nil]
NewWrap(flags, seq) == [NewMic(flags, seq) EXCEPT !.id = "wrap"]

is_sealed(t) == t.id = "wrap" /\ "sealed" \in t.flags

with_payload(t, payload) == [t EXCEPT !.payload = payload]

rotate_right(bytes, count) ==
    LET n == Len(bytes) IN [i \in 1 .. n |-> bytes[((i - 1 - count) % n) + 1]]
\* A bug: the count is not reduced modulo the length.
rotate_leftUnreduced(bytes, count) ==
    IF count >= Len(bytes) THEN bytes
    ELSE SubSeq(bytes, count + 1, Len(bytes)) \o SubSeq(bytes, 1, count)
rotate_left(bytes, count) ==
    LET n == Len(bytes) IN [i \in 1 .. n |-> bytes[((i - 1 + count) % n) + 1]]

mic_compute_checksum(t, key, usage) ==
    IF t.payload = Nil \/ key \notin Supported THEN Nil
    ELSE Checksum(key, usage, Append(t.payload, mic_header(t.flags, t.seq)))
wrap_compute_checksum(t, key, usage) ==
    IF t.payload = Nil \/ key \notin Supported THEN Nil
    ELSE Checksum(key, usage, Append(t.payload, wrap_checksum_header(t.flags, t.seq)))

mic_set_checksum(t, key, usage) ==
    LET checksum == mic_compute_checksum(t, key, usage)
    IN  IF t.checksum # Nil \/ checksum = Nil THEN [ok |-> FALSE, token |-> t]
        ELSE [ok |-> TRUE, token |-> [t EXCEPT !.checksum = checksum]]

wrap_set_checksum(t, key, usage) ==
    LET checksum == wrap_compute_checksum(t, key, usage)
    IN  IF t.checksum # Nil \/ is_sealed(t) \/ checksum = Nil
        THEN [ok |-> FALSE, token |-> t]
        ELSE [ok |-> TRUE,
              token |-> [t EXCEPT !.checksum = checksum,
                                  !.ec = IF @ = 0 THEN Len(checksum) ELSE @]]

mic_new_initiator(payload, key) ==
    mic_set_checksum(with_payload(NewMic({}, 0), payload), key, INITIATOR_SIGN)
wrap_new_initiator(payload, key) ==
    wrap_set_checksum([with_payload(NewWrap({}, 0), payload) EXCEPT !.ec = ChecksumLen],
                      key, INITIATOR_SEAL)

\* A bug: the token is marked as sealed only once there is a ciphertext.
encrypt_payload_with_confounderLate(t, key, usage) ==
    LET plaintext == t.payload \o [i \in 1 .. t.ec |-> [data |-> 0]]
                     \o <<wrap_header(t.flags \cup {"sealed"}, t.ec, 0, t.seq)>>
    IN  IF t.body # Nil \/ t.payload = Nil \/ key \notin Supported THEN [ok |-> FALSE, token |-> t]
        ELSE [ok |-> TRUE,
              token |-> [t EXCEPT !.flags = @ \cup {"sealed"}, !.checksum = Nil,
                            !.body = rotate_right(encrypt_message(key, usage, plaintext), t.rrc)]]
\* The token counts as sealed from here on, whether the rest succeeds or not.
encrypt_payload_with_confounder(t, key, usage) ==
    LET flagged == [t EXCEPT !.flags = @ \cup {"sealed"}]
        plaintext == t.payload \o [i \in 1 .. t.ec |-> [data |-> 0]]
                     \o <<wrap_header(flagged.flags, t.ec, 0, t.seq)>>
    IN  IF t.body # Nil THEN [ok |-> FALSE, token |-> t]
        ELSE IF t.payload = Nil \/ key \notin Supported THEN [ok |-> FALSE, token |-> flagged]
        ELSE [ok |-> TRUE,
              token |-> [flagged EXCEPT
                !.body = rotate_right(encrypt_message(key, usage, plaintext), t.rrc),
                !.checksum = Nil]]

new_initiator_sealed(payload, key) ==
    encrypt_payload_with_confounder(with_payload(NewWrap({"sealed"}, 0), payload),
                                    key, INITIATOR_SEAL)

\* Nil: the token is not complete.
mic_encode(t) ==
    IF t.checksum = Nil THEN Nil ELSE <<mic_header(t.flags, t.seq)>> \o t.checksum
wrap_encode(t) ==
    LET header == wrap_header(t.flags, t.ec, t.rrc, t.seq)
    IN  IF is_sealed(t) THEN IF t.body = Nil THEN Nil ELSE <<header>> \o t.body
        ELSE IF t.payload = Nil \/ t.checksum = Nil \/ Len(t.checksum) # t.ec THEN Nil
        ELSE <<header>> \o t.payload \o t.checksum

validate_gss_sender(flags, expect_from_acceptor) ==
    ("acceptor" \in flags) = expect_from_acceptor

\* Both decodings check the header first; Nil: refused.
IsHeader(bytes, id, expect_from_acceptor) ==
    /\ bytes # <<>>
    /\ "id" \in DOMAIN bytes[1] /\ bytes[1].id = id
    /\ validate_gss_sender(bytes[1].flags, expect_from_acceptor)

mic_decode(bytes, expect_from_acceptor) ==
    IF ~ IsHeader(bytes, "mic", expect_from_acceptor) THEN Nil
    ELSE [NewMic(bytes[1].flags, bytes[1].seq) EXCEPT !.checksum = Tail(bytes)]
wrap_decode(bytes, expect_from_acceptor) ==
    LET rest == Tail(bytes)
        t == [NewWrap(bytes[1].flags, bytes[1].seq) EXCEPT
                !.ec = bytes[1].ec, !.rrc = bytes[1].rrc]
    IN  IF ~ IsHeader(bytes, "wrap", expect_from_acceptor) THEN Nil
        ELSE IF is_sealed(t) THEN IF rest = <<>> THEN Nil ELSE [t EXCEPT !.body = rest]
        ELSE IF t.ec > Len(rest) THEN Nil
        ELSE [t EXCEPT !.payload = SubSeq(rest, 1, Len(rest) - t.ec),
                       !.checksum = SubSeq(rest, Len(rest) - t.ec + 1, Len(rest))]

\* A bug: the header inside the ciphertext is not compared.
decrypt_payloadAnyHeader(t, key, usage) ==
    LET plaintext == decrypt_message(key, usage, rotate_left(t.body, t.rrc))
    IN  IF ~ is_sealed(t) \/ t.body = Nil \/ key \notin Supported THEN Nil
        ELSE IF plaintext = Nil \/ Len(plaintext) < 1 + t.ec THEN Nil
        ELSE SubSeq(plaintext, 1, Len(plaintext) - 1 - t.ec)
decrypt_payload(t, key, usage) ==
    LET plaintext == decrypt_message(key, usage, rotate_left(t.body, t.rrc))
    IN  IF ~ is_sealed(t) \/ t.body = Nil \/ key \notin Supported THEN Nil
        ELSE IF plaintext = Nil \/ Len(plaintext) < 1 + t.ec THEN Nil
        ELSE IF plaintext[Len(plaintext)] # wrap_header(t.flags, t.ec, 0, t.seq) THEN Nil
        ELSE SubSeq(plaintext, 1, Len(plaintext) - 1 - t.ec)

mic_verify(t, key, usage) ==
    LET expected == mic_compute_checksum(t, key, usage)
    IN  expected # Nil /\ t.checksum # Nil /\ expected = t.checksum
wrap_verify(t, key, usage) ==
    LET expected == wrap_compute_checksum(t, key, usage)
    IN  IF is_sealed(t) THEN decrypt_payload(t, key, usage) # Nil
        ELSE expected # Nil /\ t.checksum # Nil /\ expected = t.checksum

-----------------------------------------------------------------------------
(* The sender.                                                              *)

Init ==
    /\ token = Nil /\ sealing = FALSE /\ made = Nil /\ calls = 0
    /\ sent = {} /\ outcome = Nil

\* What a successful call protected.
Protection(t, key, usage) ==
    [id |-> t.id, flags |-> t.flags, seq |-> t.seq, payload |-> t.payload,
     key |-> key, usage |-> usage]

\* The token is t after a call that did or did not protect its payload.
Becomes(t, protects, key, usage) ==
    /\ token' = t
    /\ made' = IF protects THEN Protection(t, key, usage) ELSE made
    /\ calls' = calls + 1
    /\ outcome' = Nil
    /\ UNCHANGED sent

Unmade(bound) == token = Nil /\ Cardinality(sent) < bound
Called == token # Nil /\ calls < MaxCalls

New(id, flags, seq) ==
    /\ Unmade(MaxBuilt)
    /\ Becomes(IF id = "mic" THEN NewMic(flags, seq) ELSE NewWrap(flags, seq), FALSE, Nil, 0)
    /\ sealing' = (id = "wrap" /\ "sealed" \in flags)

\* The constructors that also protect; after an error there is no token.
NewInitiator(call, payload, key) ==
    LET result == CASE call = "mic"    -> mic_new_initiator(payload, key)
                    [] call = "wrap"   -> wrap_new_initiator(payload, key)
                    [] call = "sealed" -> new_initiator_sealed(payload, key)
    IN  /\ Unmade(MaxTokens) /\ result.ok
        /\ Becomes(result.token, TRUE, key,
                   IF call = "mic" THEN INITIATOR_SIGN ELSE INITIATOR_SEAL)
        /\ sealing' = (call = "sealed")

\* ec and rrc are public fields: a sender sets them before it protects.
SetCounts(ec, rrc) ==
    /\ Called /\ token.id = "wrap" /\ made = Nil
    /\ Becomes([token EXCEPT !.ec = ec, !.rrc = rrc], FALSE, Nil, 0)
    /\ UNCHANGED sealing

WithPayload(payload) ==
    /\ Called
    /\ Becomes(with_payload(token, payload), FALSE, Nil, 0)
    /\ UNCHANGED sealing

SetChecksum(key, usage) ==
    LET result == IF token.id = "mic" THEN mic_set_checksum(token, key, usage)
                                      ELSE wrap_set_checksum(token, key, usage)
    IN  /\ Called
        /\ Becomes(result.token, result.ok, key, usage)
        /\ UNCHANGED sealing

EncryptPayload(key, usage) ==
    LET result == encrypt_payload_with_confounder(token, key, usage)
    IN  /\ Called /\ token.id = "wrap"
        /\ Becomes(result.token, result.ok, key, usage)
        /\ sealing' = TRUE

Encoded == IF token.id = "mic" THEN mic_encode(token) ELSE wrap_encode(token)

\* The token is sent and the sender goes on with the next one.
Send ==
    /\ token # Nil /\ Encoded # Nil
    /\ sent' = sent \cup {[bytes |-> Encoded, sealing |-> sealing, made |-> made,
                            current |-> \/ token.id = "mic" \/ is_sealed(token)
                                        \/ token.payload = made.payload]}
    /\ token' = Nil /\ made' = Nil /\ sealing' = FALSE /\ calls' = 0 /\ outcome' = Nil

\* A token that cannot be sent is given up.
GiveUp ==
    /\ token # Nil /\ Encoded = Nil /\ calls = MaxCalls
    /\ token' = Nil /\ made' = Nil /\ sealing' = FALSE /\ calls' = 0 /\ outcome' = Nil
    /\ UNCHANGED sent

-----------------------------------------------------------------------------
(* The network and the receiver.                                            *)

\* The same body, turned further with the count kept in step.
Turned(bytes, n) ==
    <<[bytes[1] EXCEPT !.rrc = @ + n]>> \o rotate_right(Tail(bytes), n)

\* What may arrive instead of some bytes that were sent.
Altered(bytes) ==
    LET Headers == {[bytes[1] EXCEPT !.flags = f] : f \in FlagSets}
                   \cup {[bytes[1] EXCEPT !.ec = n] : n \in Ecs}
                   \cup {[bytes[1] EXCEPT !.rrc = n] : n \in Rrcs}
                   \cup {[bytes[1] EXCEPT !.seq = n] : n \in Seqs}
                   \cup {s.bytes[1] : s \in sent}
    IN  {<<h>> \o Tail(bytes) : h \in Headers}
        \cup {SubSeq(bytes, 1, Len(bytes) - 1), Append(bytes, [data |-> 0])}

\* of: the sent token that this is, turned or not; Nil when it was altered.
Arriving ==
    {[of |-> s, bytes |-> s.bytes] : s \in sent}
    \cup {[of |-> s, bytes |-> Turned(s.bytes, n)] :
            s \in {x \in sent : is_sealed(x.bytes[1])}, n \in Rrcs}
    \cup UNION {{[of |-> Nil, bytes |-> b] : b \in Altered(s.bytes)} : s \in sent}

\* A receiver's last call on a token: verify, or decrypt_and_set_payload.
\* verify leaves the payload of a sealed token out.
Accepts(t, call, key, usage) ==
    IF call = "decrypt" THEN decrypt_payload(t, key, usage) # Nil
    ELSE IF t.id = "mic" THEN mic_verify(t, key, usage) ELSE wrap_verify(t, key, usage)
decrypt_and_set_payload(t, call, key, usage) ==
    IF call = "decrypt" THEN [t EXCEPT !.payload = decrypt_payload(t, key, usage)] ELSE t

\* The receiver decodes, gives a MIC the payload it has for it, and then
\* verifies or decrypts.  (What the sender is doing does not matter to it: it is
\* given tokens between two of the sender's.)
Receive(m, expect_from_acceptor, payload, call, key, usage) ==
    LET decoded == IF m.bytes[1].id = "mic" THEN mic_decode(m.bytes, expect_from_acceptor)
                                            ELSE wrap_decode(m.bytes, expect_from_acceptor)
        t == IF decoded.id = "mic" THEN with_payload(decoded, payload) ELSE decoded
        ok == decoded # Nil /\ Accepts(t, call, key, usage)
    IN  /\ token = Nil /\ outcome = Nil
        /\ outcome' = [of |-> m.of, ok |-> ok, expected |-> expect_from_acceptor,
                       had |-> payload, call |-> call, key |-> key, usage |-> usage,
                       token |-> IF ok THEN decrypt_and_set_payload(t, call, key, usage) ELSE Nil]
        /\ UNCHANGED <<token, sealing, made, calls, sent>>

Next ==
    \/ \E id \in {"mic", "wrap"}, flags \in FlagSets, seq \in Seqs : New(id, flags, seq)
    \/ \E call \in {"mic", "wrap", "sealed"}, payload \in Payloads, key \in Keys :
            NewInitiator(call, payload, key)
    \/ \E ec \in Ecs, rrc \in Rrcs : SetCounts(ec, rrc)
    \/ \E payload \in Payloads : WithPayload(payload)
    \/ \E key \in Keys, usage \in Usages : SetChecksum(key, usage) \/ EncryptPayload(key, usage)
    \/ Send
    \/ GiveUp
    \/ \E m \in Arriving, expect \in BOOLEAN, payload \in Payloads,
          call \in {"verify", "decrypt"}, key \in Keys, usage \in Usages :
            Receive(m, expect, payload, call, key, usage)

Spec == Init /\ [][Next]_vars

-----------------------------------------------------------------------------
(* Properties.                                                              *)

Options(S) == S \cup {Nil}

TypeOK ==
    /\ sealing \in BOOLEAN /\ calls \in 0 .. MaxCalls
    /\ token # Nil => /\ token.flags \in FlagSets /\ token.seq \in Seqs \cup {0}
                      /\ token.payload \in Options(Payloads)
    /\ made # Nil => token # Nil /\ made.payload \in Payloads
    /\ Cardinality(sent) <= MaxTokens
    /\ outcome # Nil => outcome.ok = (outcome.token # Nil)

\* A payload that a receiver has from a token it accepted (decode followed by
\* verify or decrypt_and_set_payload) is one that the sender protected, in a
\* token of that kind, with those flags, that sequence number, key and usage:
\* no change of a header, no exchange of bodies, no rotation, truncation or
\* reflection gets anything else accepted, although neither ec nor rrc is under
\* the checksum of a token that is not sealed.
Authentic ==
    outcome # Nil /\ outcome.ok =>
        \E s \in sent :
            LET t == outcome.token
            IN  /\ s.made.id = t.id /\ s.made.flags = t.flags /\ s.made.seq = t.seq
                /\ s.made.key = outcome.key /\ s.made.usage = outcome.usage
                /\ t.payload \in {s.made.payload, Nil}
                /\ t.payload = Nil => is_sealed(t) /\ outcome.call = "verify"

\* Whatever calls built a token that could be sent (a checksum replaced by
\* encryption, filler, any rotation count, failed calls in between), the
\* receiver with the right key, usage and direction accepts it and has the
\* payload that was protected, also when the body was turned on the way.
\* Not so for a payload that was replaced after the checksum was made.
Delivered ==
    LET s == outcome.of
        matching == /\ s.current
                    /\ outcome.key = s.made.key /\ outcome.usage = s.made.usage
                    /\ outcome.expected = ("acceptor" \in s.made.flags)
                    /\ outcome.call = "decrypt" => "sealed" \in s.made.flags /\ s.made.id = "wrap"
                    /\ s.made.id = "mic" => outcome.had = s.made.payload
    IN  outcome # Nil /\ outcome.of # Nil =>
            (matching => /\ outcome.ok
                         /\ outcome.token.payload \in {s.made.payload} \cup
                                (IF is_sealed(outcome.token) /\ outcome.call = "verify"
                                 THEN {Nil} ELSE {}))

\* Once sealing of a token was requested, by its flags or by a call of
\* encrypt_payload_with_confounder that may have failed, nothing of the token
\* but ciphertext is sent, whatever is called on it afterwards.
SealedIsSecret ==
    \A s \in sent : s.sealing =>
        \A i \in 2 .. Len(s.bytes) : "secret" \in DOMAIN s.bytes[i]
=============================================================================
