----------------------- MODULE MCChainExtensionStep -----------------------
(***************************************************************************)
(* Every client that knows part of a tree of two forks, every finalised    *)
(* block and every datum over it, the numbers off by one included.         *)
(***************************************************************************)
EXTENDS ChainExtensionStep, TLC

CONSTANTS g, a1, a2, a3, b2, c1, c2

MCBlocks == {g, a1, a2, a3, b2, c1, c2}
MCNumber == (g :> 0) @@ (a1 :> 1) @@ (a2 :> 2) @@ (a3 :> 3) @@ (b2 :> 2)
            @@ (c1 :> 1) @@ (c2 :> 2)
MCAncestors == (g :> {g}) @@ (a1 :> {g, a1}) @@ (a2 :> {g, a1, a2})
               @@ (a3 :> {g, a1, a2, a3}) @@ (b2 :> {g, a1, b2})
               @@ (c1 :> {g, c1}) @@ (c2 :> {g, c1, c2})
MCData == {[hash |-> b, number |-> n] : b \in MCBlocks, n \in 0..4}
=============================================================================
