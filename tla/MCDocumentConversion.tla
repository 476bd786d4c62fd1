------------------------ MODULE MCDocumentConversion ------------------------
(***************************************************************************)
(* Instances of DocumentConversion for TLC.                                *)
(***************************************************************************)
EXTENDS DocumentConversion, TLC

CONSTANTS c1, c2, c3, plan, site

DistinctNames == c1 :> plan @@ c2 :> site
Sizes == c1 :> 1 @@ c2 :> 10
EqualNames == c1 :> plan @@ c2 :> plan
=============================================================================
