---------------------------- MODULE MCClientStore ----------------------------
(* The instance of ClientStore that TLC checks: two messages of two statuses,  *)
(* two disruptions, three frames at once, and a file to import, of a time when *)
(* there was only the first message.                                           *)
EXTENDS ClientStore

OldFile == {[m \in Ids |-> IF m = 1 THEN 1 ELSE 0]}
==============================================================================
