--------------------------- MODULE MCConversations ---------------------------
(* One number and the wa_ids two people use in turn: a person moves away   *)
(* and back, a second one takes the number that became free.  The second   *)
(* run has a third wa_id, so that there are moves between different ones   *)
(* on their way at once.                                                   *)
EXTENDS Conversations, TLC

CONSTANTS a, b, c

\* No wa_id is special.
Symmetry == Permutations(WaIds)
==============================================================================
