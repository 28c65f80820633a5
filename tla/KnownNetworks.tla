---------------------------- MODULE KnownNetworks ----------------------------
(***************************************************************************)
(* allKnownDefinitions of network/definition/providers.go: the networks    *)
(* the program knows, as far as their identity goes.  A token file is      *)
(* looked up by identifier, its tokens are kept by chain ID, prices by     *)
(* DEXScreener id and the balances of a portfolio by name.                 *)
(***************************************************************************)

Network(id, name, chain, dex) ==
  [id |-> id, name |-> name, chain |-> chain, dex |-> dex]

AllKnownDefinitions == {
  Network("ethereum",      "Ethereum Mainnet",       1,       "ethereum"),
  Network("bsc",           "BNB Smart Chain",        56,      "bsc"),
  Network("polygon",       "Polygon PoS",            137,     "polygon"),
  Network("arbitrum",      "Arbitrum One",           42161,   "arbitrum"),
  Network("avalanche",     "Avalanche C-Chain",      43114,   "avalanche"),
  Network("base",          "Base Mainnet",           8453,    "base"),
  Network("blast",         "Blast Mainnet",          81457,   "blast"),
  Network("celo",          "Celo Mainnet",           42220,   "celo"),
  Network("core",          "Core Blockchain",        1116,    "core"),
  Network("fantom",        "Fantom Opera",           250,     "fantom"),
  Network("gnosis",        "Gnosis Chain",           100,     "gnosis"),
  Network("linea",         "Linea Mainnet",          59144,   "linea"),
  Network("manta",         "Manta Pacific Mainnet",  169,     "manta"),
  Network("mantle",        "Mantle Network",         5000,    "mantle"),
  Network("metis",         "Metis Andromeda Mainnet",1088,    "metis"),
  Network("optimism",      "OP Mainnet",             10,      "optimism"),
  Network("polygon_zkevm", "Polygon zkEVM",          1101,    "polygonzkevm"),
  Network("scroll",        "Scroll",                 534352,  "scroll"),
  Network("zksync",        "zkSync Era Mainnet",     324,     "zksync"),
  Network("zora",          "Zora Mainnet",           7777777, "zora") }
==============================================================================
