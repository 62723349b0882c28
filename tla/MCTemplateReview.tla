--------------------------- MODULE MCTemplateReview ---------------------------
(* The instance of TemplateReview that TLC checks: a seeded template and one  *)
(* created at run time, two languages of one name in one account.             *)
EXTENDS TemplateReview, TLC

CONSTANTS t1, t2, w1

MCTemplates == {t1, t2}
MCSeeded == {t1}
MCWabas == {w1}
MCWabaOf == (t1 :> w1) @@ (t2 :> w1)
MCNameOf == (t1 :> "hello") @@ (t2 :> "hello")
MCLanguageOf == (t1 :> "en") @@ (t2 :> "pt")
=============================================================================
