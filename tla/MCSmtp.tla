------------------------------- MODULE MCSmtp -------------------------------
(***************************************************************************)
(* Instances of SmtpServer for TLC.                                        *)
(***************************************************************************)
EXTENDS SmtpProperties, TLC

\* The clients and the mailboxes of a domain are interchangeable.
ClientSymmetry == Permutations(Clients)
Symmetry == Permutations(Clients) \cup Permutations(Local)
=============================================================================
