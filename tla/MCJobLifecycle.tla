--------------------------- MODULE MCJobLifecycle ---------------------------
(***************************************************************************)
(* Instances of JobLifecycle for TLC.                                      *)
(***************************************************************************)
EXTENDS JobLifecycle, TLC

CONSTANTS q1, q2, q3

\* Requests are interchangeable: no action tells one from another.
RequestSymmetry == Permutations(Requests)

=============================================================================
