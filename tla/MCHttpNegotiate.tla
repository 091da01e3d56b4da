-------------------------- MODULE MCHttpNegotiate ---------------------------
(* Instance of HttpNegotiate for TLC: two calls of one principal.            *)
EXTENDS HttpNegotiate, TLC

CONSTANTS c1, c2, s1, s2, alice, key, forged, plain, typed

\* Two calls in a network that mixes up and repeats; one call, with its ticket's
\* name altered, of a server with two services that restarts; two calls in
\* order, for all options.
MCConfigs ==
    LET Config(shared, emit, reject_invalid, inner, calls, services, names, trouble) ==
            [shared : shared, emit_ap_rep : emit, reject_invalid : reject_invalid,
             inner : inner, calls : calls, services : services, names : names,
             trouble : trouble]
        one == {{s} : s \in Services}
    IN  Config({TRUE}, {TRUE}, {TRUE}, {200}, {Calls}, one, {{TicketName}}, {"network"})
        \cup Config({TRUE}, {TRUE}, {FALSE}, {200}, {{c} : c \in Calls}, {Services}, {Names},
                    {"crash"})
        \cup Config(BOOLEAN, BOOLEAN, BOOLEAN, {200, 401}, {Calls}, {Services},
                    {{TicketName}}, {"none"})

MCSymmetry == Permutations(Calls) \cup Permutations(Services)

\* Responses of proxies: a challenge behind other schemes, one that only
\* looks like it inside quotes, a header that is no text, an AP-REP under
\* another key, and an acceptance without one.
MCStrays ==
    {[status |-> 401, headers |-> << <<Word>>, <<Word, Comma, Negotiate([form |-> "bare"])>> >>],
     [status |-> 401, headers |-> << <<Word, Quote, Backslash, Quote, Comma, Negotiate([form |-> "bare"]), Quote>> >>],
     [status |-> 401, headers |-> << NotText >>],
     [status |-> 200, headers |-> << <<Negotiate([form |-> "raw",
         token |-> Krb5MechToken([id |-> "ApRep", key |-> forged,
                                  ctime |-> 1, cusec |-> 0])])>> >>],
     [status |-> 200, headers |-> << <<Negotiate(EncodeSpnegoToken(accept_completed(Nil)))>> >>]}
=============================================================================
