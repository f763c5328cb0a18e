--------------------------- MODULE MCMailPipeline ---------------------------
(* Values of the constants of MailPipeline for TLC. *)
EXTENDS MailPipeline, TLC
CONSTANTS m1, m2, s1, s2, pdf, img
TwoAndNone == (m1 :> <<pdf, img>>) @@ (m2 :> <<>>)
=============================================================================
