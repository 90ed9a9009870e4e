------------------------------ MODULE MCGatewayCache ------------------------------
(* TLC instance of GatewayCache: the second bundle has other bytes under a file name *)
(* of the first.                                                                     *)
EXTENDS GatewayCache, TLC

CONSTANTS a1, a2, a3

AssetNames == a1 :> "clip.mp4" @@ a2 :> "logo.png" @@ a3 :> "clip.mp4"
TwoBundles == << <<a1, a2>>, <<a3>> >>
Same == Permutations(Requests)
================================================================================
