------------------------------ MODULE MCConsole ------------------------------
(* One seeded account with two numbers; a snapshot file of another world;  *)
(* links to what is there and to what is gone.                              *)
EXTENDS Console

Number(n) == [id |-> n, grade |-> 0]
MCSeed == <<Account(1, 0, <<Number(1), Number(2)>>)>>
MCSnapshot == <<Account(2, 0, <<Number(2)>>)>>
MCSnapshotRules == <<[id |-> 0, left |-> 1]>>
MCSnapshotLog == <<[id |-> -1, time |-> -2], [id |-> 0, time |-> -1]>>
MCLinks ==
  {Landing, PathFor("chats", Scope(2, 2)), PathFor("templates", Scope(1, 0)),
   PathFor("webhooks", NoScope), PathFor("settings", NoScope)}
==============================================================================
