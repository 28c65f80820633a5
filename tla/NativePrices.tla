----------------------------- MODULE NativePrices -----------------------------
(***************************************************************************)
(* The pricing loop of fetchSingleWalletPortfolio with the two caches of   *)
(* the token price service it reads: the prices loaded at the start, which *)
(* never change, and globalNativePrices, one price of ETH for the process. *)
(*                                                                         *)
(* A network goroutine prices its balances while it holds the mutex of its *)
(* wallet's portfolio; goroutines of other wallets and other requests do   *)
(* the same under other mutexes.  The price of ETH is looked up and set in *)
(* separate critical sections.                                             *)
(***************************************************************************)
EXTENDS Naturals

CONSTANTS
  Jobs,        \* calls of fetchSingleWalletPortfolio
  Networks,    \* their active networks
  EthNetworks, \* those whose NativeSymbol is ETH, the globally priced symbol
  Wrapped      \* the cached price of a network's wrapped native token, or 0

\* GetPriceUSD finds nothing, or 0, for a network without a DEXScreener id,
\* without a wrapped token, or whose batch failed at the start.
ASSUME PricesAssumption ==
  /\ EthNetworks \subseteq Networks
  /\ Wrapped \in [Networks -> Nat]

Tasks == Jobs \X Networks

VARIABLES
  pc,       \* where the network's goroutine is in its pricing loop
  mu,       \* the mutex of a job's portfolio is held
  price,    \* priceUSD of the native balance
  global,   \* globalNativePrices["eth"], 0 when it is not there
  writer    \* history: the networks of a job that have set it

vars == <<pc, mu, price, global, writer>>

Inside == {"global", "wrapped", "set", "unlock"}

Init ==
  /\ pc = [t \in Tasks |-> "fetch"]
  /\ mu = [j \in Jobs |-> FALSE]
  /\ price = [t \in Tasks |-> 0]
  /\ global = 0
  /\ writer = [j \in Jobs |-> {}]

IsGlobal(t) == t[2] \in EthNetworks

\* mu.Lock() goes through.  Bug: the prices are looked up before it.
NoLock(j)   == TRUE
Unlocked(j) == ~mu[j]

\* The balances are there and the native one is not zero.
Lock(t) ==
  /\ pc[t] = "fetch" /\ Unlocked(t[1])
  /\ mu' = [mu EXCEPT ![t[1]] = TRUE]
  /\ pc' = [pc EXCEPT ![t] = IF IsGlobal(t) THEN "global" ELSE "wrapped"]
  /\ UNCHANGED <<price, global, writer>>

\* The batch brought no native balance: there is nothing to price.
NoNative(t) ==
  /\ pc[t] = "fetch"
  /\ pc' = [pc EXCEPT ![t] = "none"]
  /\ UNCHANGED <<mu, price, global, writer>>

\* GetGlobalNativeTokenPrice, 0 if it finds none.  Bug: only a network with a
\* price of its own asks for it.
OwnOnly(t) == IF Wrapped[t[2]] = 0 THEN 0 ELSE global
Looked(t)  == global

\* What follows the look at the global price.
AfterGlobal(t) == IF Looked(t) = 0 THEN "wrapped" ELSE "unlock"

\* The look at the global price, under its read lock.
ReadGlobal(t) ==
  /\ pc[t] = "global"
  /\ price' = [price EXCEPT ![t] = Looked(t)]
  /\ pc' = [pc EXCEPT ![t] = AfterGlobal(t)]
  /\ UNCHANGED <<mu, global, writer>>

\* Which price becomes global.  Bug: that of any native token.
SetForAny(t)  == Wrapped[t[2]] > 0
SetsGlobal(t) == Wrapped[t[2]] > 0 /\ IsGlobal(t)

\* GetPriceUSD of the wrapped native token.
ReadWrapped(t) ==
  /\ pc[t] = "wrapped"
  /\ price' = [price EXCEPT ![t] = Wrapped[t[2]]]
  /\ pc' = [pc EXCEPT ![t] = IF SetsGlobal(t) THEN "set" ELSE "unlock"]
  /\ UNCHANGED <<mu, global, writer>>

\* TrySetGlobalNativeTokenPrice ignores a price of 0 and overwrites what another
\* wallet has set since.
SetGlobal(t) ==
  /\ pc[t] = "set"
  /\ global' = IF price[t] > 0 THEN price[t] ELSE global
  /\ writer' = IF price[t] > 0 THEN [writer EXCEPT ![t[1]] = @ \cup {t[2]}]
                               ELSE writer
  /\ pc' = [pc EXCEPT ![t] = "unlock"]
  /\ UNCHANGED <<mu, price>>

Unlock(t) ==
  /\ pc[t] = "unlock"
  /\ mu' = [mu EXCEPT ![t[1]] = FALSE]
  /\ pc' = [pc EXCEPT ![t] = "priced"]
  /\ UNCHANGED <<price, global, writer>>

Step(t) == \/ Lock(t) \/ NoNative(t) \/ ReadGlobal(t) \/ ReadWrapped(t)
           \/ SetGlobal(t) \/ Unlock(t)

\* Every wallet is priced.
AllPriced == (\A t \in Tasks : pc[t] \in {"priced", "none"}) /\ UNCHANGED vars

Next == (\E t \in Tasks : Step(t)) \/ AllPriced

Spec == Init /\ [][Next]_vars

-----------------------------------------------------------------------------
(* Properties. *)

MutexHeld ==
  /\ \A j \in Jobs : mu[j] <=> \E n \in Networks : pc[<<j, n>>] \in Inside
  /\ \A j \in Jobs : \A m, n \in Networks :
       pc[<<j, m>>] \in Inside /\ pc[<<j, n>>] \in Inside => m = n

\* The type invariant, with the mutex: it is held exactly while one network
\* goroutine of the wallet prices.
PricesTypeOK ==
  /\ pc \in [Tasks -> {"fetch", "priced", "none"} \cup Inside]
  /\ mu \in [Jobs -> BOOLEAN]
  /\ price \in [Tasks -> Nat]
  /\ global \in Nat
  /\ writer \in [Jobs -> SUBSET Networks]
  /\ MutexHeld

EthPrices == {Wrapped[n] : n \in EthNetworks}

\* A native balance gets the price of its own network, or of ETH if it is ETH, and
\* none only if its own network has none.  No other coin's price leaks into the
\* global one, and losing the race for it costs nobody a price
\* (portfolio_service.go:219-249).
RightPrice ==
  /\ global \in {0} \cup EthPrices
  /\ \A t \in Tasks : pc[t] = "priced" =>
       /\ price[t] \in {Wrapped[t[2]]} \cup (IF IsGlobal(t) THEN EthPrices ELSE {})
       /\ price[t] = 0 => Wrapped[t[2]] = 0

\* A wallet sets the global price at most once, because its networks are priced
\* one after the other and the global price never disappears: however many
\* requests race, the price settles after one write per wallet at most.
OneWritePerWallet == \A j \in Jobs : \A m, n \in writer[j] : m = n

\* Once the global price is known it stays known, and every ETH balance whose
\* pricing starts after that gets a price, on a network without one of its own
\* too (:222-228).
KnownForAll ==
  [][global # 0 =>
       /\ global' # 0
       /\ \A t \in Tasks : pc[t] = "global" /\ pc'[t] # "global" => price'[t] # 0]_vars
=============================================================================
