--------------------------- MODULE MCNetworkFetch ---------------------------
(***************************************************************************)
(* Instances of NetworkFetch for TLC.                                      *)
(***************************************************************************)
EXTENDS NetworkFetch, Amounts

MCChain == 1
Entry(t, c) == [token |-> t, chain |-> c]

\* A file that cannot be used, a file with an entry of another chain between two
\* of its own, and a file that lists a token twice.
MCFiles == { << >>,
             << Entry("t1", MCChain), Entry("t2", 2), Entry("t3", MCChain) >>,
             << Entry("t1", MCChain), Entry("t1", MCChain) >> }

\* Whatever the amount behind a balance that a wallet is told of: shown it is off by
\* a unit at most and never nothing, and its value is as near to it as the floats
\* allow (bigint_utils.go:16-28, :56-77 on the results of evm_client.go:178, portfolio_service.go:271).
AmountsNear == \A w \in Wallets :
  (\E x \in ToSet(balances[w]) : x.balance = "some") => ShownNear /\ ValueNear
=============================================================================
