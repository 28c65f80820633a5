------------------------- MODULE MCEvmClientProvider -------------------------
(***************************************************************************)
(* Instances of EvmClientProvider for TLC.                                 *)
(***************************************************************************)
EXTENDS EvmClientProvider

\* A network with a fallback URL and one without.
MCNetworks == {"ethereum", "base"}
MCUrls     == [n \in MCNetworks |-> IF n = "ethereum" THEN 2 ELSE 1]
=============================================================================
