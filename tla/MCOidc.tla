------------------------------- MODULE MCOidc --------------------------------
(* Two codes, two clients of which each registered one redirect, and two *)
(* verifiers with their challenges.                                      *)
EXTENDS OidcCodes, TLC

CONSTANTS k1, k2, rp1, rp2, u1, u2, v1, v2, h1, h2

TwoCodes == {k1, k2}
TwoClients == {rp1, rp2}
TwoRedirects == {u1, u2}
TwoVerifiers == {v1, v2}
TwoChallenges == {h1, h2}
MCAllowed == {<<rp1, u1>>, <<rp2, u2>>}
MCS256 == (v1 :> h1) @@ (v2 :> h2)
=============================================================================
