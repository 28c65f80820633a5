------------------------------ MODULE MCRestApi ------------------------------
(***************************************************************************)
(* Instances of RestApi for TLC.                                           *)
(***************************************************************************)
EXTENDS RestApi, TLC

\* Two wallets; a client spells the first one in another case and asks for one
\* that is never listed.
MCWallets   == {"0xAa", "0xBb"}
MCAddresses == {"0xaa", "0xcc"}
MCWalletOf  == [a \in MCAddresses |-> IF a = "0xaa" THEN "0xAa" ELSE "none"]

MCNames  == {"ethereum", "Base", "nowhere", ""}
MCLower  == [n \in MCNames |-> IF n = "Base" THEN "base" ELSE n]
MCActive == {"ethereum", "base"}
MCCfg    == {"ethereum", ""}

\* No filter, blanks only, one network in another case alone and beside one as it
\* is, one that does not exist beside a blank.
MCFilters == {{}, {""}, {"Base"}, {"ethereum", "Base"}, {"nowhere", ""}}

MCRequests ==
  [route : {"all"}, address : {"0xaa"}, networks : MCFilters]
    \cup [route : {"wallet"}, address : MCAddresses, networks : MCFilters]
    \cup [route : {"network"}, address : {"0xaa"}, networks : {{"Base"}, {"nowhere"}}]
    \cup [route : {"failed"}, address : {"0xaa"}, networks : {{}}]

\* The clients are interchangeable.
ClientSymmetry == Permutations(Clients)
=============================================================================
