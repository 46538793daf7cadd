---------------------------- MODULE MCMailFiles ----------------------------
(***************************************************************************)
(* MailFiles with a mail of two copies and a mail of one.                  *)
(***************************************************************************)
EXTENDS MailFiles, TLC

CONSTANTS m1, m2

MCMails == {m1, m2}
MCNodes == m1 :> 2 @@ m2 :> 1
=============================================================================
