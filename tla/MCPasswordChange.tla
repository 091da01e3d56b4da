-------------------------- MODULE MCPasswordChange --------------------------
(* Instance of PasswordChange for TLC.                                       *)
EXTENDS PasswordChange, TLC

CONSTANTS s1, s2, p0, p1, p2, alice, alice2, bob

MCConfigs ==
    [credentials : {"password"}, troubled : {TRUE}, subkeys : {FALSE}, targets : {{Me}}]
    \cup [credentials : {"none"}, troubled : {TRUE}, subkeys : {TRUE}, targets : {{Me}}]
    \cup [credentials : {"password", "keytab", "none"}, troubled : {FALSE},
          subkeys : BOOLEAN, targets : {Targets}]

MCSymmetry == Permutations(Servers) \cup Permutations(Passwords \ {InitialPassword})
=============================================================================
