------------------------- MODULE MCProviderKeyPool -------------------------
(***************************************************************************)
(* Instances of ProviderKeyPool for TLC.                                   *)
(***************************************************************************)
EXTENDS ProviderKeyPool, TLC

CONSTANTS w1, w2, k1, k2

(* A key is being replaced: one client knows the old one only *)
Rotation == w1 :> {k1} @@ w2 :> {k1, k2}

FlatBackoff == <<1>>
=============================================================================
