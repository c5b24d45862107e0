------------------------- MODULE MCConfigPublishing -------------------------
(* Three drafts, two of them with one tag, and one of an unknown tenant.    *)
EXTENDS ConfigPublishing, TLC

CONSTANTS d1, d2, d3, d4

SharedTag == (d1 :> "v1") @@ (d2 :> "v1") @@ (d3 :> "v2") @@ (d4 :> "v2")

PublicationSymmetry == Permutations(Publication)
=============================================================================
