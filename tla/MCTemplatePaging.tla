--------------------------- MODULE MCTemplatePaging ---------------------------
(* The instance of TemplatePaging that TLC checks: four templates over two   *)
(* milliseconds, pages of two, one walk in either direction.                 *)
EXTENDS TemplatePaging

MCTemplates == 1 .. 4
=============================================================================
