---------------------------- MODULE MCNativePrices ----------------------------
(***************************************************************************)
(* Instances of NativePrices for TLC.                                      *)
(***************************************************************************)
EXTENDS NativePrices, TLC

\* Two ETH networks whose prices differ, one without a price, and another native
\* token.
MCNetworks    == {"ethereum", "base", "zora", "polygon"}
MCEthNetworks == {"ethereum", "base", "zora"}
MCWrapped     == [n \in MCNetworks |-> CASE n = "ethereum" -> 3
                                         [] n = "base" -> 4
                                         [] n = "zora" -> 0
                                         [] n = "polygon" -> 1]

JobSymmetry == Permutations(Jobs)
=============================================================================
