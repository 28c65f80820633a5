--------------------------- MODULE MCTokenPriceLoad ---------------------------
(***************************************************************************)
(* Instances of TokenPriceLoad for TLC.                                    *)
(***************************************************************************)
EXTENDS TokenPriceLoad

\* Two networks DEXScreener knows, with a network it does not between them.
MCDefinitions == << [dex |-> "ethereum", tokens |-> <<"t1", "t2", "t3">>],
                    [dex |-> "", tokens |-> <<"t4">>],
                    [dex |-> "base", tokens |-> <<"t5">>] >>
MCNoDex == ""

\* An unreadable price before a readable one, and no price.
MCNoPrice == 0
Second == [bad |-> 1, price |-> 2]
Absent == [bad |-> 0, price |-> MCNoPrice]
MCQuotes == {Second, Absent}

\* Sizes of a batch: a negative one, one token, one that leaves a rest, one that
\* fits.
MCSizes == {-1, 1, 2, 3}
=============================================================================
