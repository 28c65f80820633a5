---------------------------- MODULE PortfolioTypes ----------------------------
(***************************************************************************)
(* What the portfolio service and the specification of what it promises    *)
(* have in common: requests, jobs, tasks and the outcome of a fetch.       *)
(*                                                                         *)
(* A request is one call of FetchAllWalletsPortfolio or of                 *)
(* FetchSingleWalletPortfolioByAddress.  It has a job per wallet, and a    *)
(* job has a task per active network.                                      *)
(***************************************************************************)
EXTENDS Naturals, FiniteSets

CONSTANTS
  Requests,      \* the calls of the service, each made at most once
  Wallets,       \* the addresses of data/wallets.txt
  Networks,      \* positions in NetworkDefinitionProvider.activeNetworkDefs
  Items,         \* what a batch asks for: the native balance, the tokens
  Outcomes       \* what fetchBalancesForNetwork may return for a network

\* The places a PortfolioError of a task comes from: GetClient, the batch call
\* as a whole, or one sub-request of the batch.
ErrorKinds == {"client", "batch"} \cup Items

\* networkErrors, the tokens of networkBalances and what they are worth.
Outcome == [errs : SUBSET ErrorKinds, held : SUBSET Items, value : Nat]

ASSUME TypesAssumption ==
  /\ IsFiniteSet(Requests) /\ IsFiniteSet(Wallets) /\ IsFiniteSet(Networks)
  /\ Networks \subseteq Nat
  /\ Outcomes \subseteq Outcome

Jobs  == Requests \X Wallets
Tasks == Jobs \X Networks

RequestOf(j) == j[1]
WalletOf(j)  == j[2]
JobOf(t)     == t[1]
NetworkOf(t) == t[2]

JobsOf(r)  == {j \in Jobs : RequestOf(j) = r}
TasksOf(j) == {t \in Tasks : JobOf(t) = j}

\* The outcome of a task that has none yet, and the one GetClient's error gives.
Nothing       == [errs |-> {}, held |-> {}, value |-> 0]
ClientFailure == [errs |-> {"client"}, held |-> {}, value |-> 0]

\* A wallet has an entry for a network only if it holds something there.
NoEntry    == [held |-> {}, value |-> 0]
EntryOf(o) == IF o.held = {} THEN NoEntry ELSE [held |-> o.held, value |-> o.value]
WorthOf(o) == EntryOf(o).value

NoAnswer  == [portfolios |-> {}, errors |-> {}]
NotAsked  == [wallets |-> {}, nets |-> {}]
=============================================================================
