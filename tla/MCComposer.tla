----------------------------- MODULE MCComposer -----------------------------
(* Two conversations of different numbers, a message of the app under test *)
(* in one of them, one upload.                                             *)
EXTENDS Composer, TLC

CONSTANTS a, c, n1, n2, ma, p

MCNumberOf == (a :> n1) @@ (c :> n2)
MCChatOf == ma :> a
MCButtonOf == ma :> "interactive"
=============================================================================
