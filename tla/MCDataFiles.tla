----------------------------- MODULE MCDataFiles -----------------------------
(***************************************************************************)
(* Instances of DataFiles for TLC.                                         *)
(***************************************************************************)
EXTENDS DataFiles, KnownNetworks

Name(stem, id)  == [stem |-> stem, id |-> id, json |-> TRUE]
Entry(t, chain) == [token |-> t, chain |-> chain]

\* Three files for one network, of which one is not spelled like it; one for
\* another; one that names no network; one that is no JSON file.
MCNames == << Name("Base", "base"), Name("base", "base"), Name("base", "base"),
              Name("bsc", "bsc"), Name("nova", "nova"),
              [stem |-> "zora", id |-> "zora", json |-> FALSE] >>

\* Files with an entry of the other network before one of their own.
BaseFile == << Entry("t1", 56), Entry("t2", 8453) >>
BscFile  == << Entry("t1", 56) >>
MCContents == << {Absent, BaseFile}, {Absent, BaseFile},
                 {Absent, Broken, BaseFile}, {Absent, BscFile},
                 {BscFile}, {BscFile} >>

Line(is, wallet, form) == [is |-> is, wallet |-> wallet, form |-> form]

\* Addresses in two spellings after a comment and a malformed line; a line that
\* is too long.
MCWalletFiles == {
  << Line("comment", "w1", "lower"), Line("address", "w2", "mixed") >>,
  << Line("malformed", "w2", "lower"), Line("address", "w1", "lower"),
     Line("address", "w2", "mixed") >>,
  << Line("address", "w1", "mixed"), Line("endless", "w2", "mixed") >> }
=============================================================================
