--------------------------- MODULE MCStatusLadder ---------------------------
(* The instance of StatusLadder that TLC checks: one message sent from the  *)
(* seeded number, one received on a number created at run time.  Messages   *)
(* meet only where all timers are cancelled and all rows replaced, and      *)
(* StatusLadderProofs covers any number of them.                            *)
EXTENDS StatusLadder, TLC

CONSTANTS out1, in1, p1, p2

MCOutbound == {out1}
MCInbound == {in1}
MCPhones == {p1, p2}
MCPhoneOf == (out1 :> p1) @@ (in1 :> p2)
MCSeedPhones == {p1}
=============================================================================
