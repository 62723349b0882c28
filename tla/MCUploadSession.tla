--------------------------- MODULE MCUploadSession ---------------------------
(* The instances of UploadSession that TLC checks: a file of two bytes and two *)
(* appends at a time, and one client alone whose put fails.                     *)
EXTENDS UploadSession

CONSTANTS h1, h2

MCTwo == {h1, h2}
==============================================================================
