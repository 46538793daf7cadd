--------------------------- MODULE MCSupervision ---------------------------
(***************************************************************************)
(* Instances of Supervision for TLC.                                       *)
(***************************************************************************)
EXTENDS Supervision, TLC

\* The clients are interchangeable, and so are the peers.
Symmetry == Permutations(Clients) \cup Permutations(Peers)
=============================================================================
