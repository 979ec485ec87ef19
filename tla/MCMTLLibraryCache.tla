------------------------- MODULE MCMTLLibraryCache -------------------------
(* Two names; three requests compete for the first, one uses the second.   *)
EXTENDS MTLLibraryCache, TLC

CONSTANTS r1, r2, r3, r4, vertexMain, fragmentMain

MCNameOf == r1 :> vertexMain @@ r2 :> vertexMain @@ r3 :> vertexMain @@ r4 :> fragmentMain
=============================================================================
