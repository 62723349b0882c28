----------------------------- MODULE MCGraphApi -----------------------------
(* One seeded account with one number, two more ids, one MSISDN in two     *)
(* spellings and another one; one registered token, two rules.             *)
EXTENDS GraphApi, TLC

CONSTANTS w1, n1, x, d1, d1b, d2, t1, k1, k2

MCDigitsOf == (d1 :> 1) @@ (d1b :> 1) @@ (d2 :> 2)
MCSeedOwner == n1 :> w1
MCSeedDisplay == n1 :> d1
=============================================================================
