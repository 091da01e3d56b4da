---------------------------- MODULE MCAsExchange ----------------------------
\* Instance of AsExchange: enctypes 17 and 18 are supported, 23 is not.
EXTENDS AsExchange

MCSupported == {17, 18}
Account(etypes, salt, preauth) == [etypes |-> etypes, salt |-> salt, preauth |-> preauth]
MCAccounts == {Account(e, s, p) : e \in {{17, 18}, {17}, {18, 23}},
                                  s \in {"default", "old name"}, p \in BOOLEAN}

MCEtypeLists == {<<>>, <<23>>, <<18, 17>>, <<17, 18>>, <<23, 18, 17>>}

Entry(etype, v, salt) ==
    [principal |-> Client, realm |-> "R", etype |-> etype, kvno |-> v, timestamp |-> v,
     key |-> Key(etype, salt, v)]

\* Complete keytabs, a poor one, and two with a single enctype.
SmallKeytabs == {<<Entry(17, 1, "default")>>,
                 <<Entry(18, 1, "default"), Entry(18, 2, "default")>>}
MCKeytabs == {<<Entry(17, 1, s), Entry(18, 1, s), Entry(17, 2, s), Entry(18, 2, s)>> :
                  s \in {"default", "old name"}}
        \cup {<<Entry(17, 1, "default"), Entry(23, 2, "default")>>} \cup SmallKeytabs

\* A KDC in order: one login of any kind to an account of any kind.  Trouble:
\* two logins with a choice of credentials, with and without preauthentication.
Orderly == {[account |-> a, in_order |-> TRUE, logins |-> Login, max |-> 1] : a \in MCAccounts}
Troubled ==
    {[account |-> a, in_order |-> FALSE, max |-> 2,
      logins |-> {l \in Login : /\ l.etypes = <<18, 17>>
                                /\ l.credentials.entries \in SmallKeytabs \cup {<<>>}}] :
        a \in {Account({17, 18}, "old name", TRUE), Account({17, 18}, "default", FALSE)}}
MCCases == Orderly \cup Troubled
MCServices == {"krbtgt"}
=============================================================================
