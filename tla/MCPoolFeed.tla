----------------------------- MODULE MCPoolFeed -----------------------------
(* A V2 pair of a factory filed under UniswapV3, seeded as UniswapV2, and an    *)
(* Aerodrome pool of a factory filed right, which is not seeded.                *)
EXTENDS PoolFeed, TLC

CONSTANTS p1, p2

MCPools == {p1, p2}
MCFactoryOf == (p1 :> "baseswap") @@ (p2 :> "aerodrome")
MCKindOf == (p1 :> "V2") @@ (p2 :> "Aerodrome")
MCSeedDexOf == (p1 :> "UniswapV2") @@ (p2 :> None)

=============================================================================
