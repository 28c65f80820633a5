# Balance Checker in TLA+

This directory models the program in `src/`: an HTTP service that fetches the
native and token balances of the wallets in `data/wallets.txt` from EVM
networks, prices them with cached DEXScreener prices and answers with one
portfolio per wallet. The modules are read beside the code: every action names
the lines it stands for in `PROJECT.json` ("map").

## The system

| Part | State it keeps | Operations | Interacts with |
|---|---|---|---|
| Portfolio service (`app/service/portfolio_service.go`) | per request: semaphore, WaitGroup, results channel, error slice; per wallet: WaitGroup, mutex, portfolio, errors; for the process: `failedWallets` under `s.mu` | `FetchAllWalletsPortfolio`, `FetchSingleWalletPortfolioByAddress`, `GetFailedWallets` | called by the REST handlers, calls every provider below |
| Token price service (`app/service/token_price_service.go`) | `cachedPrices` under an RWMutex, `globalNativePrices` under another, counters of one load | `LoadAndCacheTokenPrices` (once, at the start), `GetPriceUSD`, `GetGlobalNativeTokenPrice`, `TrySetGlobalNativeTokenPrice` | calls the DEXScreener client from a goroutine per batch |
| DEXScreener client (`client/dexscreener_client.go`) | none | `GetTokenPairsByAddresses` | the price service |
| EVM client provider (`network/client/evm_client_provider.go`) | `clients` under one mutex, held while dialling | `GetClient` | network goroutines of all requests |
| EVM client (`network/client/evm_client.go`) | the ABI, parsed once | `NewEVMClient` (primary URL, then fallbacks), `GetBalances` (one JSON-RPC batch) | network goroutines |
| Network definitions (`network/definition/providers.go`) | the active networks, fixed at the start from the names of the token files | `GetAllNetworkDefinitions` and lookups | both services |
| Token loader, wallet loader | none: the files are read again by every request | `GetTokensByNetwork`, `GetWallets`, `GetWalletByAddress` | both services |
| REST API (`restapi/`) | none | `/portfolios`, `/portfolios/failed`, `/portfolios/{wallet}`, `/portfolios/{wallet}/networks/{network}` | the portfolio service |
| Configuration, `main.go` | the configuration, read-only after the start | load, start, serve, shut down | everything |
| Amounts (`pkg/utils/bigint_utils.go`) | none | `FormatBigInt`, `CalculateValueUSD` | EVM client, portfolio service |

What is hard in it:

- a request runs a goroutine per wallet and one per wallet and network; they
  share a semaphore of the request, a mutex and a WaitGroup per wallet, a
  buffered channel and, between requests, the client cache, the failed wallets
  and the global native price;
- a client that cannot be created, a batch that fails as a whole and an item of
  a batch that fails alone must each lose nothing else;
- the price load updates counters and a map from several goroutines without a
  lock;
- the global native price is checked and set in separate steps;
- prices are never refreshed while files are read again by every request, file
  after file, by readers whose directory changes between two of them;
- the server runs in a goroutine of its own, and a signal, its failure and the
  five seconds of the shutdown race for the end of the process.

What makes each part correct: the portfolio service answers every request with
exactly what its fetches brought, within its limits, and leaves nothing
running; the price load ends and caches what the batches answered; the client
provider keeps one client per network; the batch turns every item into a
balance or an error; the loaders agree on which networks have tokens; the
handlers tell no less than happened; nothing is served before the prices are
there, and a shutdown in time loses no answer.

## The modules

| Module | What it is |
|---|---|
| `PortfolioTypes` | requests, jobs (wallets of a request), tasks (networks of a job), outcomes of a fetch |
| `PortfolioPromise` | the abstract specification: fetches settle in any order, the answer is a function of the outcomes |
| `PortfolioService` | the goroutines of `portfolio_service.go` step by step, its properties, and its mapping to `PortfolioPromise` |
| `MCPortfolioService` | the instances TLC checks |
| `PortfolioServiceProofs` | the counters and contents of `PortfolioService`: types, limits, totals, quiet answers, that it implements `PortfolioPromise`, and that its goroutines never wait in a circle |
| `NativePrices`, `MCNativePrices`, `NativePricesProofs` | the pricing of native balances under the wallets' mutexes and the global price they share |
| `NetworkFetch`, `MCNetworkFetch` | one network of a request: token file, batch, replies, balances and errors |
| `Amounts` | how an amount is shown and valued, as operators on bounded numbers |
| `ClientPromise` | the abstract specification of `GetClient`: one atomic step |
| `EvmClientProvider`, `MCEvmClientProvider` | `GetClient` with its mutex and dials, and its mapping to `ClientPromise` |
| `ClientProofs` | the proofs about package `client`: `EvmClientProvider` and `NetworkFetch`, whose variables it has side by side, and `Amounts` |
| `TokenPriceLoad`, `MCTokenPriceLoad`, `TokenPriceLoadProofs` | the price load of the start: goroutines, counters, map, cache |
| `RestApi`, `MCRestApi`, `RestApiProofs` | the handlers: filter, files, statuses, messages, failed wallets |
| `KnownNetworks` | the networks the program knows, by what tells them apart |
| `Lists` | `Keep`, the loops that go through a list and append what they want of it |
| `DataFiles`, `MCDataFiles`, `DataFilesProofs` | the files of `data/`, their readers and the operator who edits them |
| `FoldLemmas` | what sums over functions and flattened and filtered sequences are, for any of them |
| `Configuration` | the numeric settings as `Load` leaves them |
| `ServerLifecycle`, `MCServerLifecycle`, `ServerLifecycleProofs` | the process from `main` to its exit |

`PortfolioService` takes the call of a client, of a batch and the pricing as
steps with an outcome. The modules below it justify the outcomes: `Atomic` that
`GetClient` may be one step, `EveryItemTold` that a fetch is balances beside
errors or one error alone, `NativePrices` that a value depends
on nothing another wallet can take away. `RestApi` is what stands above it: it
takes the whole fan-out as one step that brings any wallets' errors. `DataFiles`
is where the files come from that `NetworkFetch`, `RestApi` and `TokenPriceLoad`
take as they find them, `Configuration` gives the limits that
`LimitAssumption` and `LoadAssumption` assume, and `ServerLifecycle` is the frame
around them all: the price load is one of its steps, a handler two.

### PortfolioService

`rpc[r]` is where the goroutine of request `r` is: `idle`, `all` or `single`
while the call runs, then `done`, or `refused` when the call returned before it
started a goroutine (files that cannot be read, an unknown wallet, no network
left by the filter). `wpc[j]` is the goroutine of wallet job `j`: its loop over
the networks, the send of its portfolio, the two critical sections for its
errors, the deferred `wg.Done`. `npc[t]` is the goroutine of network task `t`:
`GetClient`, the batch call, the critical section (two steps, because `+=` reads
and writes), the two deferred functions in their order.

| Action | Code |
|---|---|
| `Refuse`, `StartAll`, `StartSingle` | lines 57-131 and 415-460: everything until the goroutines run |
| `Acquire` | 169-172: the send on the semaphore, `wg.Add`, `go` |
| `GetClient`, `GetClientFails` | the call of line 176; it runs under the provider's mutex from start to end, so it is one step |
| `FetchBalances` | 186-187 with 313-399: any outcome in `Outcomes` |
| `LockWallet`, `MergeOutcome` | 189-302, and 179-182 for the error of `GetClient` |
| `ReleaseSlot`, `Finish` | the deferred functions of 174 and 173, last in, first out |
| `AwaitNetworks`, `SendResult`, `MarkFailed`, `CollectErrors`, `LeaveAll`, `RespondSingle` | 306-310, 118-130, 462-469 |
| `RespondAll` | 133-142 |

Abstracted: amount and price of what a wallet holds on a network are one natural
number, the value; error texts are the place an error comes from; slices that
are only appended to are sets; the file's wallets are distinct.

`PortfolioPromise` has no goroutine, lock or counter. `Implements` states that
every behaviour of `PortfolioService` is one of it: `settled` is the set of
tasks whose merge has left the mutex, `total` is the wallet's running total,
`failed` is `failedWallets`. A lost addition, an answer given too early, an
error that is dropped, a portfolio of another request are all steps
`PortfolioPromise` does not have.

### EvmClientProvider

A call of `GetClient` is `Lock`, a look into `clients` (`ReturnCached` or
`StartDial`), a dial per URL (`DialSucceeds`, `DialNext`, `DialFails`) and the
deferred unlock (`Return`). That a dial fails is what `NewEVMClient` is written for
(`evm_client.go:60-78`), and more than this build does: the URLs of
`definition/providers.go` are all https, for which `ethclient.DialContext` opens no
connection, and the look at the chain's id after it is commented out (68-71). So a
network that does not answer is found out by the batch, outside the mutex, and the
failed dials of the model, here and in `GetClient` of `PortfolioService`, are a
superset of the program's steps. All properties hold with them. `clients` maps a network to the call that made its
client. `Promise` maps the call to one step of `ClientPromise`, taken when the
result is there; `Atomic` is that refinement.

### NetworkFetch

`file` is the token file a request read, a sequence of entries with a chain.
`Prepare` is the request list of lines 320-352 and the elements `GetBalances`
builds of it; `Answered` and `CallFails` are `BatchCallContext`; `Collect`
decodes every element and sorts the results. `AppendCopies` says whether
`append(erc20MethodID, ...)` (`evm_client.go:108`) allocates: with the 32 bytes of
capacity the ID's slice has, it does, since 36 are needed. With room for them the
concurrent calls would share `scratch`, and `OwnBalances` would fail. An amount
is `zero` or `some` (what becomes of its digits is in `Amounts`); the texts of
errors are left out.

### Amounts

`FormatBigInt` and `CalculateValueUSD` divide by a power of ten in a `big.Float`,
whose precision is that of the larger number and at least 64 bits, and the value
goes through `float64`, with 53. The operators do the same with `FloatBits` and
`DoubleBits`: `Quotient` finds the exponent that gives the quotient its bits and
rounds to the nearest, halves to even. `Power` is a recursive function, because the
provers know nothing of `^`. `MCNetworkFetch` extends this module:
`AmountsNear` says of every state with a balance that any amount behind it is
shown and valued as near as the floats allow.

### NativePrices

`pc[t]` follows line 189-302 for the native balance of network `t` of a wallet:
the mutex, the look at the global price, the price of the wrapped token, the write
of the global price, the unlock. `global` is `globalNativePrices["eth"]`, and 0
stands for a missing entry, as in the code, where both make line 232 true.
`Looked` is the look at it and `SetGlobal` the write, which ignores a price of 0
(`token_price_service.go:77-80`).
`writer` is a history variable. Two requests, or two wallets of one, can value ETH
at two prices while the global price is being found, and the last writer wins;
the properties say that this is all that can happen.

### TokenPriceLoad

`Launch` is the loop of `LoadAndCacheTokenPrices` with its semaphore, `Ask` the
request of a batch, and `script` what the goroutine has left to do with its
reply. `counts` holds the two counters, read and written in two steps
(`ReadCount`, `WriteCount`); `EnterMap` and `LeaveMap` are the write of
`platformsWithCachedPrices`, and `ConcurrentMapWrites` the runtime's reaction to
two goroutines inside. With more than one goroutine, which is the default, the
report may lose counts and the process may be killed before it serves. `raced` is a
history variable, the counters two goroutines were adding to at once: a counter that
never met that is exact, and with one goroutine none meets it and the process
survives (`ExactUnlessRaced`). `Launch` takes `wg.Add` and the semaphore in one step,
since only the loader does either and nothing waits for the first. Also followed from the code: a
negative batch size is replaced in the service (`token_price_service.go:306`) but
not in the client (`dexscreener_client.go:48`), which then refuses every batch.

### RestApi

`Receive` is the router and the query, `ReadAllWallets` and `ReadOneWallet` the
wallet file and the filter of networks, `ReadTokens` the token directory,
`Fetch` the fan-out with its marks in `failedWallets` in one step
(`PortfolioService` has the steps it is made of), `Respond` the answer, and
`GetFailedWallets` the list. `EditFiles` changes the files between any two of
these steps. `Tracked` has the difference between the routes: blanks in a filter
are dropped for `/portfolios`, so that only blanks mean all networks and not
those of the configuration; for one wallet a filter of only blanks matches no
network, which is an error. The sums of totals and the JSON are left out.

### DataFiles

`dir` is `data/tokens`, `walletFile` is `data/wallets.txt`; a reader is the price
load of the start or a request. What tells names apart is their stem as written,
the stem in lower case and the extension.

| Action | Code |
|---|---|
| `Activate` | `NewNetworkDefinitionProvider`: the files activate networks, in lower case and each once |
| `StartLoad`, `FinishLoad` | the tokens the price load asks prices for (`token_price_service.go:89-102`) |
| `ReadWallets` | `GetWallets` and `GetWalletByAddress` |
| `ListTokens` | the call of `GetTokensByNetwork` for the networks a filter leaves, up to the listing of the directory |
| `ReadFile` | one turn of its loop: a file that is gone or broken is skipped, of the others the entries of the network's chain stay |
| `EditTokens`, `EditWallets` | the operator, between any two of these |

`touched` is a history variable: the files edited since a reader listed them. With
it `SteadyFilesWhole` and `PricedUnlessEdited` say that a token is missing, or has
no price, only because of an edit of one of its own network's files. They speak
of files spelled like the network's identifier. A file like `Base.json` activates
`base` and is then read by nobody, because the loader looks the stem up as
written (`tokenloader/loader.go:57`); the instance has such a file.

### Configuration and ServerLifecycle

`Configuration` is what `Load` makes of missing, zero and negative numbers, and the
two places where the services have a fallback of their own (five and one
goroutines), which `ServesReady` shows are never used.

`stage` is where `main` is, `srv` the goroutine of `ListenAndServe`, `conn[c]` the
connection of a client and the request on it, `grace` the context of five seconds.

| Action | Code |
|---|---|
| `LoadConfig`, `LoadPrices` | `main.go:36-136`; each may end the process |
| `StartServer`, `RegisterSignals` | 160-170: the goroutine runs from the first, signals are caught from the second |
| `BeginShutdown`, `ShutdownDone`, `ShutdownLate` | 171-183: the signal, the call of `Shutdown` and its two ends |
| `Listen`, `ServeReturns`, `ServerFatal` | 161-166 in their goroutine: `ListenAndServe` returns, and only then is the error looked at |
| `Connect`, `Accept`, `Handle`, `Answer` | `net/http` and a handler |
| `CloseStale` | one poll of `Shutdown` |
| `Signal`, `GraceOver` | from outside; a second signal is lost or waits unread |

`net/http` is not in the repository and is modelled from how `main.go` uses it:
`Shutdown` closes the listener first, so what is in the kernel's backlog is
refused, then polls until no connection is busy; every poll closes idle connections
and those that have been new for five seconds (`CloseStale`). `ServeReturns` and `ServerFatal` are two steps, so a listener
that fails just before the signal still ends the process during the shutdown;
that is the one way `CutOnlyLate` allows besides the end of the five seconds.


## The runs

| Run | Instance | What it shows |
|---|---|---|
| `portfolio_fan_out` | 1 request, 2 wallets, 2 networks, 2 slots, 3 outcomes | type invariant; the semaphore holds; totals lose no addition; the channel never blocks a wallet for good; no late write; every request is answered |
| `portfolio_requests` | 2 requests, 2 wallets, 1 network, 1 slot | an answered request is quiet; the refinement of `PortfolioPromise` |
| `portfolio_global_limit` | 2 requests, 1 wallet, 2 networks, 1 slot | finding: the limit is per request |
| `portfolio_last_fetch` | 2 requests, 1 wallet, 1 network | finding: failed wallets are never cleared |
| `price_load` | 1 and 2 goroutines, batch sizes -1, 1, 2 and 3, 3 networks | type invariant; semaphore and WaitGroup count the goroutines; no token is lost between batches; the cache is complete; the report never counts too much and, at a counter no two goroutines met at, not too little; with one goroutine none meets and the map is safe; the load ends |
| `client_provider` | 3 calls, 2 networks, 1 and 2 URLs | type invariant with one call inside; one client per network; the refinement of `ClientPromise`; every call returns |
| `native_prices` | 2 wallets, 4 networks, 3 of them ETH at different prices or none | type invariant with the mutex; every native balance has a right price; the global price stays and is written once per wallet |
| `network_fetch` | 2 wallets, 3 token files, every reply; amounts to 300 with 6 and 4 bits | type invariant; every listed item is told and a failed batch is one error; no mixed-up wallets; amounts are shown and valued as near as the floats allow |
| `rest_api` | 2 clients, 2 wallets, 5 filters, all routes | type invariant; messages; filters; what was told is listed |
| `rest_unknown_network` | 1 client | finding: a status |
| `data_files` | the price load and 1 request, 6 names of token files, 2 edits, the 20 known networks | type invariant with each network active once; tokens on their chain; untouched files count wholly and once; no price only after an edit; a listed address is found |
| `server_lifecycle` | 2 clients, settings of -1, 0 and 1 | type invariant; nothing is served before prices and settings are there; only a late shutdown cuts answers; a signal ends the process |

Bounds. Two wallets and two networks are the smallest instance in which two
tasks of one wallet race for its mutex, two wallets race for the request's slots
and one of them can wait for a slot another wallet holds. With one slot every
other task waits; with two, two tasks run and the others wait. Two requests are
enough for what requests share (the client cache and the failed wallets), since
an action changes the state of one request only. `Outcomes` has one fetch that
brings everything, one that brings an error beside a balance, and one that fails
as a whole; a client's failure is an action. Wallets, and where there are two,
requests, are interchangeable, which the runs without a liveness property use as
symmetry.

For the price load two batches of one network and one of another are what races
for a counter, for the map and for the cache of one network; the network without
a DEXScreener id between them has to be passed over. Batch sizes are the ones
below and at the length of a list, with a negative one. The size and the limit are
read from the configuration, so `Init` chooses them. Three calls of
`GetClient` let one hold the mutex, one wait for the same network and one for
another; one network has a fallback URL and one has none. For the global price
two networks with different prices of ETH, one without a price and one with
another coin give every branch of lines 220-255, and two wallets every order of
them. A token file with an entry of another chain between two of its own, one with
a token twice and an empty one are the cases of the loader and the batch. A
client's request of every kind meets every state of the files at every step; two
clients are needed for the list of failed wallets.

The floats of `Amounts` have 6 and 4 bits instead of 64 and 53, so that amounts up
to 300 (nine bits) need up to eight times what the float holds exactly, as 2^67
does of a big.Float; decimals 0 to 2 and the prices 1, 3 and 7 give exact and
periodic quotients and products that round. In `data_files`, three names belong to
one network, one of them spelled otherwise, one to another, one to none, and one
is no JSON file; the contents of the first four vary, one of them up to broken
JSON. `MaxEdits` bounds the edits to two, both after the start, since an edit
before it is another initial state: two are what it takes to have one between
the start and the listing and one between the listing and a read. The settings of
`server_lifecycle` are -1, 0 and 1, below, at and above every bound of `Load`;
with two clients one can be served while the other one waits, leaves or comes too
late.

Fairness. `FairSpec` of `PortfolioService` is weakly fair to each goroutine that can run, which is
what the Go scheduler gives, and so to `GetClient` and `FetchBalances`: a dial
ends at once, and with other URLs by `defaultProviderConnectionTimeout`, a batch by
`rpc_call_timeout_seconds`. Nothing is fair to a client: a request may never
come. The weak fairness of `Acquire` is enough though wallets compete for slots,
because every wallet acquires only finitely often. The other two are alike:
`TokenPriceLoad` is fair to the loader and to each batch's goroutine, whose
request ends by the client's timeout, and `EvmClientProvider` to each call, whose
dials end in the same way. A Go mutex hands itself to a waiter that has
waited a millisecond, and each other call has it only once. `ServerLifecycle` is fair to `main` and to the timer of
the shutdown and to nothing else: a handler may hang, a client may stay, a signal
may not come, and `SignalEnds` holds all the same. `data_files` has no liveness
property and allows deadlock: when the request has its files and the edits are
used up there is nothing left to do.


## The proofs

`PortfolioServiceProofs` proves, for any finite sets of requests, wallets and
networks, any outcomes and any limit of at least one (the assumptions
`TypesAssumption` and `LimitAssumption`):

- `TypeCorrect`: the type invariant;
- `SlotsAreBounded`: no request has more than `MaxRoutines` holders of a slot;
- `AnsweredIsQuiet`: an answered request has no goroutine and no slot;
- `PortfoliosAreFinal`: a portfolio handed over is never written again.

None of them is inductive: that the semaphore's counter is at most its capacity
says nothing about how many goroutines are inside, and that `wg.Wait` returned
says nothing about how many are alive. `IInv` adds what connects them: `sem`
counts the holders, `wg` the live tasks, `outerWg` the live jobs
(`SlotCount`, `WgCount`, `OuterCount`), a job with a live task is in its loop, a
live job belongs to a running request (`Phases`), and a request for one wallet
has one job (`OneJob`). `AccountingInvariant` proves `IInv` inductive: one lemma
for the request's steps, one for the wallet's, one for the network's, with one
step per action. `SlotStep` and `WgStep` say how a counter follows the set it
counts when one task moves. The four theorems are consequences.

It then proves, from the same assumptions, `ServiceKeepsPromise`, that `PortfolioService` implements `PortfolioPromise`, and
`ResultsHaveRoom`, that no wallet blocks on the channel. `IInv` says how many run;
`RInv` adds what they carry: a portfolio holds exactly the outcomes merged into it
(`Contents`), the task in the critical section is alone and what it read of the
total is still the total (`Locked`), a merged outcome came from a fetch
(`Fetched`), the jobs and tasks are those the request asked for and a job past its
loop has seen all of them end (`Covered`), a wallet with errors is listed before
its job ends (`Marked`), and the channel and the errors hold what was handed over
(`Collected`). `StepMaps` maps every action: `MergeOutcome` is `Settle`,
`MarkFailed` is itself, `RespondAll` and `RespondSingle` are `Answer`, by
`AnswerMaps`, and the others are a start, a refusal or a stutter. The room in the
channel follows from `Collected` by counting: what was handed over and what is
about to be are different wallets of the request. `AnswersAddUp` is about the total: that it
is the sum over the networks merged (`Summed`) is kept by every `+=` because the
task that writes still finds what it read.

`ProcessIsBounded` is what remains of the documented limit, which is one of each
request (`GlobalFetchLimit`): the fetches of the whole process are at most
`MaxRoutines` for each request.

What `EveryRequestAnswered` has without fairness is proved too:

- `NobodyIsStuck`: while a request is open it can answer, or one of its own wallets
  or networks can take a step, whatever the other requests do. `JobGoes` and
  `TaskGoes` are the guards of those steps; TLC finds them equal to `ENABLED` of the
  steps on the instances above. A job waits for a slot, its tasks or room in the
  channel, a task for a mutex; who has a slot or a mutex is a task that waits at most
  for a mutex (`Held`, `LiveTaskGoes`), and there is room in the channel
  (`ResultsHaveRoom`);
- `WorkRunsOut`: `Work`, the steps every goroutine has left at its place, is a number
  that each step of the service makes smaller.

So the service stops only when every request that came is answered, and it does stop.
The price load, the client provider and the shutdown have theorems of this kind below.

`ClientProofs` proves, for any callers and networks and any number of
URLs (`ProviderAssumption`), `ProviderTypeCorrect`, `ClientIsUnique` and
`GetClientIsAtomic`: with the mutex held exactly while one call is inside
(`OneInside`, a part of `ProviderTypeOK`) a call that dials is the only one that
can fill the cache, so its network has no client when it succeeds, and the step
that sets the result is the atomic step of `ClientPromise`; every other step
leaves the mapped variables alone. `CallsReturn` is about the time the mutex is held:
a step is one of a call that has fewer steps left than before (`StepsLeft`: one for
each URL of its network, and four), and who waits for the mutex waits for a call that
waits for nobody.

`NativePricesProofs` proves, for any wallets, networks and prices
(`PricesAssumption`), the type invariant with the mutex (`PricesTypeCorrect`), and

- `WritesAreBounded`: a wallet that has written the global price leaves a global
  price behind, and a network that is about to write is inside its wallet's mutex;
  so the next network of the wallet finds the price and does not write. The
  invariant says this of a network at each place, and that the global price is
  never taken back;
- `PricesAreRight`: `Sourced` follows every price to where it came from, the global
  price to a network whose coin is ETH;
- `GlobalStaysKnown`: a global price that is known is never unknown again.

`RestApiProofs` proves, for any clients, wallets and filters (`ApiAssumption`),
`ApiTypeCorrect` and `ToldIsListed`: a request that no active network matches
never reaches the fan-out, an answer is given once, an answer's errors are in
`failedWallets` from before it was given, and nothing is ever removed from there.
`FiltersAreKept` follows the networks of a request through its steps
(`Filtered`), `MessagesTell` its errors (`EveryoneTold`).

`ServerLifecycleProofs` proves, for any clients and any integers in the
configuration (`ValuesAssumption`), `LifecycleTypeCorrect`, `ReadyBeforeServing` and
`OnlyLateExitsCut`. The invariant adds the order of `main` (`Order`): no server
before the prices, no connection before the server, and no answer cut before the
exit. `LoadedIsUsable` is about the settings alone. `SignalLeadsOut` is the way out:
after a signal main or its timer has a step to take, each of them brings the
end nearer (`StepsLeft`, at most three), and no step of a client, of the server or of
a second signal puts it off. With the fairness of `main` and the timer this is
`SignalEnds`.

`TokenPriceLoadProofs` proves, for any networks, sizes, replies and limits
(`LoadAssumption`), in the order in which they need each other:

- `LoadIsAccounted` and `RequestsAreBounded`: the semaphore and the WaitGroup count
  the goroutines, as in `PortfolioServiceProofs`. That every batch of the loop is a
  batch of `BatchIds` (`BatchesAreIds`) takes the bound of a rounded quotient, and
  two goroutines in the map are two slots (`TwoAreTwo`, `SerialLoadSurvives`);
- `BatchesAreSlices`: the slices the loop cuts, one after the other, are the tokens
  (`SlicesAreAll`);
- `LoadTypes`, with what a goroutine at each place holds (`PlaceOf`): a reply that
  fits its batch, and as its script an end of the script of that reply;
- `CacheComplete`: a price in the cache is one a reply brought (`FromReplies`), and
  a price a reply brought is in the cache or still in the script (`RepliesStored`).
  That the load asked for every batch (`Covered`) gives the rest;
- `ReportNotOver` and `ReportExactUnlessRaced`: what should have been written to a counter
  is what the replies are worth less what is left of the scripts (`Gained`), summed
  over the batches. Neither the counter nor what a goroutine has read of it
  is ever more (`Tally`). At a counter that is not in `raced` both are exactly that,
  since only one goroutine at a time is about to write it: one that reads while
  another is puts the counter into `raced` (`WhoReads`). With a limit of one a
  goroutine at work is alone (`Alone`, `SerialNotRaced`);
- `LoadIsNotStuck` and `LoadRunsOut`: while the load runs the loop or a goroutine can
  take a step (some batch of those left is the first of them, `NextBatch`), and every
  step leaves less to ask for or, with as much to ask for, less to do with the replies
  (`LoadShrinks`). It takes two numbers, because how much a reply brings is not known
  before it comes.

`ClientProofs` goes on with the fetches, for any wallets, files and replies
(`FetchAssumption`): `BalancesAreOwn`, because the append of a padded address never
fits behind the method's ID and no call's data is in the shared array;
`FetchTypes`; and `ItemsTold`, for which `Course` says what a fetch holds between
its steps: the batch its file makes, an answer to each of its elements or an
error of the whole, and in the end what those decode to. That a token listed twice
is told twice and no item takes another one's place is counting: `KeepCounts`
says that what is kept of a list has each element as often as the list.

It ends with the amounts, for any amount, decimals and price and any precisions of at
least `AmountsAssumption`: `ShownIsNear` and `ValueIsNear`, and from them and the types
`AmountsAreNear`. A rounding to `b` bits is monotone and leaves a number of `b` bits as
it is (`RoundedMonotone`, `RoundedExact`). A quotient is rounded once to the bits of the
float and then to the digits shown; when the amount leaves one bit of the float unused
the first rounding cannot carry the second over a half, and otherwise by one unit at
most (`ShownIsClose`). A value is three roundings (`ThreeRoundings`), each of them off
by at most half of its last bit.

`DataFilesProofs` proves, for any files, contents, networks, requests and edits
(`FilesAssumption`: the names are a list, definitions differ, and a
content is a list of entries or one of the two failures),

- `FilesTypes`, in which `ActiveApart` is the part that matters: of several names of
  a network only the first activates it, so no identifier is in `active` twice;
- `TokensAreOwn`, `NewTokensAreEdits` and `AddressesFound`;
- `FilesReadWhole`, from `Halves`: what a reader has of a network and what the files
  it has still to read hold of it are together what all the files hold, as long as
  nobody touches them. A file that is skipped holds nothing.

`IInv` joins to these the stages of the process (`Phases`: no request before the
load is done, and the load then has the tokens of all active networks) and what
nobody has before the listing (`Untouched`). `NewTokensAreEdits` needs all of it:
the two readers of a file read the same, unless it was edited after the first of
them listed it, though neither reads all files at once.

`FoldLemmas` is what these proofs rest on. The library's induction takes an operator
as a parameter; the lemmas use sets instead: a set with 0 and the successor of
each of its numbers has all of them (`NaturalSteps`, from the least element of the
rest), and so for finite sets (`SubsetSteps`) and sequences (`SequenceSteps`). From
that: a sum over a function's domain is what any order of adding gives
(`SumRemoves`, `SumMoves`, `SumCompares`), a flattened sequence has the elements and
the weight of its parts (`FlattenElements`, `WeightOfFlatten`), and `Keep` keeps
order and number and what differs apart (`KeepCounts`, `KeepApart`, `KeepConcat`).
`SumChanges` compares a sum over goroutines before and after a step, and `UnionBound`
bounds a union by its parts.

Only model-checked, on the instances above: what needs fairness, which is
`EveryRequestAnswered`, `LoadEnds`, `EveryCallReturns` and `SignalEnds`. `ENABLED` and
leads-to are beyond the provers used here, so the step from "somebody can go, and
every step leaves less to do" to "it ends" is TLC's. Every other property of a run is
stated by a theorem, except those of the runs under Findings, which do not hold.

## Findings

- `max_concurrent_routines` is documented as a limit "across all wallets and
  networks" (`README.md:23`); every request makes a semaphore of its own, so two
  requests run twice as many fetches (`portfolio_global_limit`).
- `GET /portfolios/failed` is documented to list the failures "during the last
  portfolio fetch operation" (`docs/swagger.yaml:205`); the list only grows
  (`portfolio_last_fetch`).
- A network that is not active is documented as 404 "Wallet or Network not
  found" (`docs/swagger.yaml:295`) and answered with 500
  (`rest_unknown_network`).

Of the same kind, visible in the modules and without a run:

- `GET /portfolios` answers 200 with a message where 500 is documented
  (`docs/swagger.yaml:192`), and a listed wallet is "not found" while the wallet file
  cannot be read (`AnswerAll` and `ReadOneWallet` of `RestApi`);
- a token file spelled with capitals activates its network but none of its tokens
  is read (`Activate` and `ReadFile` of `DataFiles`), and an address on two lines of
  the wallet file is a wallet twice;
- `config/config.yml` sets `max_parallel_goroutines: 30`, which `Load` does not
  read: its key is `max_concurrent_routines`, so the limit is the default of 10.
  `README.md:18` describes `server.tracked_networks`, which nothing reads either, and
  `README.md:17` says there is no HTTP server;
- `Load` has no default for `server.port`; without one the address is ":", a port the
  system chooses (`main.go:152`);
- a negative `maxTokensPerBatchRequest` passes `Load`, is replaced in the price service
  and refuses every batch in the DEXScreener client (`Replies` of `TokenPriceLoad`);
- an amount of 2^63 units or more may be shown off by one unit (`ShownNear` of
  `Amounts`).

## The plan

Done: the fan-out of a request and what it promises, with the refinement proved;
the price load; the client provider and its refinement; the global price; a
network's fetch and its amounts; the handlers; the files and their readers; the
configuration; the process from start to shutdown.

What is left is smaller than what is done:

1. a context that is cancelled by a client that leaves as an action of
   `PortfolioService`; until then it is one more fetch that fails as a whole, and
   so a wallet in the list of failed ones;
2. an address listed twice, as two jobs of one wallet in `PortfolioService`.

## Not modelled

- Logging, the setup of the loggers and of swagger: output, without influence on any
  decision.
- The texts of errors and messages beyond what the properties tell apart, the JSON and
  YAML formats, the wire formats of JSON-RPC and DEXScreener: the libraries that
  parse them appear as the outcomes the code sees.
- URLs, symbols and wrapped addresses of the hardcoded networks: data, of
  which `KnownNetworks` has the identifiers and chains.
- What nothing calls: `internal/config`, `slice_utils.go` with
  `selectBestPriceFromPairs`, `GetAllTokenPrices`, `GetNetworkDefinitionByName`,
  `GetNetworkDefinitionByChainID`, `GetAllClients`; the sections `coingecko` and
  `database` of the configuration.
- An infinite value of a balance, for which a float64 would have to overflow.
