-------------------------------- MODULE MCMaterials --------------------------------
(* TLC instance of Materials: the two files have the same name. *)
EXTENDS Materials, TLC

CONSTANTS u1, u2, u3

NameOf == u1 :> "spot.mp4" @@ u2 :> "spot.mp4" @@ u3 :> "logo.png"
Same == Permutations({u1, u2}) \cup Permutations(Jobs)
================================================================================
