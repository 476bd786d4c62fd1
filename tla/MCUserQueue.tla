---------------------------- MODULE MCUserQueue ----------------------------
(***************************************************************************)
(* Instances of UserQueue for TLC.                                         *)
(***************************************************************************)
EXTENDS UserQueue, TLC

CONSTANTS u1, u2, j1, j2, j3, j4

\* Three jobs of one user, one of another.
ThreeAndOne == j1 :> u1 @@ j2 :> u1 @@ j3 :> u1 @@ j4 :> u2

=============================================================================
