-------------------------- MODULE MCPortfolioService --------------------------
(***************************************************************************)
(* Instances of PortfolioService for TLC.                                  *)
(***************************************************************************)
EXTENDS PortfolioService, TLC

\* A batch asks for the native balance and for one token.
MCItems == {"native", "token"}

\* A batch that brings a balance, one whose token fails beside a native balance,
\* and one that fails as a whole.
Complete == [errs |-> {}, held |-> {"native", "token"}, value |-> 1]
Partial  == [errs |-> {"token"}, held |-> {"native"}, value |-> 2]
Failed   == [errs |-> {"batch"}, held |-> {}, value |-> 0]

MCOutcomes   == {Complete, Partial, Failed}
MCFewOutcomes == {Partial, Failed}

MCNetworks == {1, 2}
MCOneNetwork == {1}

\* The wallets are interchangeable, and so are the requests.
Symmetry == Permutations(Wallets) \cup Permutations(Requests)
=============================================================================
