--------------------------- MODULE PortfolioService ---------------------------
(***************************************************************************)
(* The fan-out of internal/app/service/portfolio_service.go.               *)
(*                                                                         *)
(* A request is one call of FetchAllWalletsPortfolio ("all") or of         *)
(* FetchSingleWalletPortfolioByAddress ("single"); several requests run at *)
(* once.  A request "all" starts a goroutine per wallet (a job); every job *)
(* walks over the active networks and, one slot of the request's semaphore *)
(* at a time, starts a goroutine per network (a task).  Tasks merge what   *)
(* they fetched into their job's portfolio under the job's mutex, jobs     *)
(* hand their portfolio and their errors to the request.                   *)
(*                                                                         *)
(* Abstracted: an amount and its price are one natural number, the USD     *)
(* value of what a wallet holds on a network; a message of an error is the *)
(* place it comes from; slices that are only appended to are sets.         *)
(***************************************************************************)
EXTENDS PortfolioTypes, FiniteSetsExt

CONSTANT
  MaxRoutines    \* maxConcurrentRoutines, the capacity of a semaphore

\* NewPortfolioService replaces a limit of zero or less by 1.
ASSUME LimitAssumption == MaxRoutines \in Nat \ {0}

VARIABLES
  \* per request
  rpc,            \* where the request is
  asked,          \* its wallets and its activeNetworkDefinitions
  sem,            \* networkSemaphore: slots taken
  outerWg,        \* the WaitGroup of FetchAllWalletsPortfolio
  results,        \* the buffered channel of portfolios
  allErrors,      \* allPortfolioErrors
  answer,         \* what the call returned
  \* per job
  wpc,            \* where the wallet's goroutine is
  todo,           \* the networks its loop has not reached
  wg,             \* the WaitGroup of fetchSingleWalletPortfolio
  mu,             \* the task that holds the job's mutex is inside
  errs,           \* singleWalletErrs
  byNetwork,      \* portfolio.BalancesByNetwork
  overall,        \* overallWalletTotalValueUSD
  \* per task
  npc,            \* where the network's goroutine is
  out,            \* networkBalances and networkErrors
  seen,           \* the value of overall its += has read
  \* of the process
  clients,        \* evmClientProvider.clients
  failedWallets   \* PortfolioServiceImpl.failedWallets

requestVars == <<rpc, asked, sem, outerWg, results, allErrors, answer>>
jobVars     == <<wpc, todo, wg, mu, errs, byNetwork, overall>>
taskVars    == <<npc, out, seen>>
vars        == <<requestVars, jobVars, taskVars, clients, failedWallets>>

\* A task that has taken a slot and not given it back; one that has started
\* and not called wg.Done; one whose outcome is in the portfolio.
Holding == {"client", "fetch", "merge", "locked", "release"}
Live    == Holding \cup {"finish"}
Merged  == {"release", "finish", "done"}

Holders(r)   == {t \in Tasks : RequestOf(JobOf(t)) = r /\ npc[t] \in Holding}
LiveTasks(j) == {t \in TasksOf(j) : npc[t] \in Live}
LiveJobs(r)  == {j \in JobsOf(r) : wpc[j] \notin {"none", "done"}}

Entry       == [held : SUBSET Items, value : Nat]
Portfolio   == [wallet : Wallets, nets : [Networks -> Entry], total : Nat]
WalletError == Wallets \X Networks \X ErrorKinds

PortfolioOf(j) ==
  [wallet |-> WalletOf(j), nets |-> byNetwork[j], total |-> overall[j]]

WalletErrors(j) == {<<WalletOf(j), e[1], e[2]>> : e \in errs[j]}

Init ==
  /\ rpc       = [r \in Requests |-> "idle"]
  /\ asked     = [r \in Requests |-> NotAsked]
  /\ sem       = [r \in Requests |-> 0]
  /\ outerWg   = [r \in Requests |-> 0]
  /\ results   = [r \in Requests |-> {}]
  /\ allErrors = [r \in Requests |-> {}]
  /\ answer    = [r \in Requests |-> NoAnswer]
  /\ wpc       = [j \in Jobs |-> "none"]
  /\ todo      = [j \in Jobs |-> {}]
  /\ wg        = [j \in Jobs |-> 0]
  /\ mu        = [j \in Jobs |-> FALSE]
  /\ errs      = [j \in Jobs |-> {}]
  /\ byNetwork = [j \in Jobs |-> [n \in Networks |-> NoEntry]]
  /\ overall   = [j \in Jobs |-> 0]
  /\ npc       = [t \in Tasks |-> "none"]
  /\ out       = [t \in Tasks |-> Nothing]
  /\ seen      = [t \in Tasks |-> 0]
  /\ clients       = {}
  /\ failedWallets = {}

-----------------------------------------------------------------------------
(* The request's goroutine. *)

\* The wallets or the tokens cannot be loaded, the wallet is not in the file,
\* or no network is left by the filter: the call returns before any goroutine.
Refuse(r) ==
  /\ rpc[r] = "idle"
  /\ rpc' = [rpc EXCEPT ![r] = "refused"]
  /\ UNCHANGED <<asked, sem, outerWg, results, allErrors, answer,
                 jobVars, taskVars, clients, failedWallets>>

\* The jobs of ws start on the networks nets; kind is what r was asked.
StartJobs(r, kind, ws, nets) ==
  /\ rpc[r] = "idle"
  /\ rpc'   = [rpc EXCEPT ![r] = kind]
  /\ asked' = [asked EXCEPT ![r] = [wallets |-> ws, nets |-> nets]]
  /\ wpc'   = [j \in Jobs |-> IF RequestOf(j) = r /\ WalletOf(j) \in ws
                              THEN "loop" ELSE wpc[j]]
  /\ todo'  = [j \in Jobs |-> IF RequestOf(j) = r /\ WalletOf(j) \in ws
                              THEN nets ELSE todo[j]]
  /\ UNCHANGED <<sem, results, allErrors, answer, wg, mu, errs, byNetwork,
                 overall, taskVars, clients, failedWallets>>

\* FetchAllWalletsPortfolio: wg.Add(1) and go for every wallet of the file.
StartAll(r) ==
  \E ws \in SUBSET Wallets, nets \in SUBSET Networks \ {{}} :
    /\ StartJobs(r, "all", ws, nets)
    /\ outerWg' = [outerWg EXCEPT ![r] = Cardinality(ws)]

\* FetchSingleWalletPortfolioByAddress runs its one job in its own goroutine.
StartSingle(r) ==
  \E w \in Wallets, nets \in SUBSET Networks \ {{}} :
    /\ StartJobs(r, "single", {w}, nets)
    /\ UNCHANGED outerWg

\* wg.Wait() of FetchAllWalletsPortfolio.  Bug: counting portfolios instead.
AllResultsIn(r) == Cardinality(results[r]) = Cardinality(asked[r].wallets)
JobsDone(r)     == outerWg[r] = 0

\* The call waits for its jobs, closes the channel and drains it.
RespondAll(r) ==
  /\ rpc[r] = "all" /\ JobsDone(r)
  /\ answer' = [answer EXCEPT ![r] = [portfolios |-> results[r],
                                      errors     |-> allErrors[r]]]
  /\ rpc' = [rpc EXCEPT ![r] = "done"]
  /\ UNCHANGED <<asked, sem, outerWg, results, allErrors,
                 jobVars, taskVars, clients, failedWallets>>

-----------------------------------------------------------------------------
(* A wallet's goroutine. *)

\* The send on networkSemaphore goes through.  Bug: one slot too many.
SlotAlmostFree(r) == sem[r] <= MaxRoutines
SlotFree(r)       == sem[r] < MaxRoutines

\* networkSemaphore <- struct{}{}, wg.Add(1) and go, for the loop's next network.
Acquire(j) ==
  LET r == RequestOf(j) IN
  /\ wpc[j] = "loop" /\ SlotFree(r)
  /\ \E n \in todo[j] :
       /\ \A m \in todo[j] : n <= m
       /\ todo' = [todo EXCEPT ![j] = @ \ {n}]
       /\ npc'  = [npc EXCEPT ![<<j, n>>] = "client"]
  /\ sem' = [sem EXCEPT ![r] = @ + 1]
  /\ wg'  = [wg EXCEPT ![j] = @ + 1]
  /\ UNCHANGED <<rpc, asked, outerWg, results, allErrors, answer, wpc, mu,
                 errs, byNetwork, overall, out, seen, clients, failedWallets>>

\* What follows the portfolio's hand-over: s.mu if there were errors.  Bug: the
\* errors are dropped.
NeverMark(j)   == "leave"
AfterResult(j) == IF errs[j] # {} THEN "mark" ELSE "leave"

\* wg.Wait() of fetchSingleWalletPortfolio.  Bug: it returns when its loop ends.
NoWait(j)       == TRUE
NetworksDone(j) == wg[j] = 0

\* fetchSingleWalletPortfolio waits for its tasks and returns.
AwaitNetworks(j) ==
  /\ wpc[j] = "loop" /\ todo[j] = {} /\ NetworksDone(j)
  /\ wpc' = [wpc EXCEPT ![j] = IF rpc[RequestOf(j)] = "single"
                               THEN AfterResult(j) ELSE "send"]
  /\ UNCHANGED <<requestVars, todo, wg, mu, errs, byNetwork, overall,
                 taskVars, clients, failedWallets>>

\* make(chan entity.WalletPortfolio, len(wallets)).  Bug: room for one only.
OneResult(r)       == 1
ResultsCapacity(r) == Cardinality(asked[r].wallets)

\* results <- walletPortfolioResult blocks while the buffer is full.
SendResult(j) ==
  LET r == RequestOf(j) IN
  /\ wpc[j] = "send" /\ Cardinality(results[r]) < ResultsCapacity(r)
  /\ results' = [results EXCEPT ![r] = @ \cup {PortfolioOf(j)}]
  /\ wpc' = [wpc EXCEPT ![j] = AfterResult(j)]
  /\ UNCHANGED <<rpc, asked, sem, outerWg, allErrors, answer, todo, wg, mu,
                 errs, byNetwork, overall, taskVars, clients, failedWallets>>

\* s.failedWallets[w.Address] = true under s.mu; nothing ever resets it.
MarkFailed(j) ==
  /\ wpc[j] = "mark"
  /\ failedWallets' = failedWallets \cup {WalletOf(j)}
  /\ wpc' = [wpc EXCEPT ![j] = IF rpc[RequestOf(j)] = "single"
                               THEN "leave" ELSE "collect"]
  /\ UNCHANGED <<requestVars, todo, wg, mu, errs, byNetwork, overall,
                 taskVars, clients>>

\* allPortfolioErrors = append(...) under errorMu.
CollectErrors(j) ==
  LET r == RequestOf(j) IN
  /\ wpc[j] = "collect"
  /\ allErrors' = [allErrors EXCEPT ![r] = @ \cup WalletErrors(j)]
  /\ wpc' = [wpc EXCEPT ![j] = "leave"]
  /\ UNCHANGED <<rpc, asked, sem, outerWg, results, answer, todo, wg, mu,
                 errs, byNetwork, overall, taskVars, clients, failedWallets>>

\* The deferred wg.Done() of the wallet's goroutine.
LeaveAll(j) ==
  LET r == RequestOf(j) IN
  /\ wpc[j] = "leave" /\ rpc[r] = "all"
  /\ wpc' = [wpc EXCEPT ![j] = "done"]
  /\ outerWg' = [outerWg EXCEPT ![r] = @ - 1]
  /\ UNCHANGED <<rpc, asked, sem, results, allErrors, answer, todo, wg, mu,
                 errs, byNetwork, overall, taskVars, clients, failedWallets>>

\* FetchSingleWalletPortfolioByAddress returns its only portfolio.
RespondSingle(j) ==
  LET r == RequestOf(j) IN
  /\ wpc[j] = "leave" /\ rpc[r] = "single"
  /\ wpc' = [wpc EXCEPT ![j] = "done"]
  /\ answer' = [answer EXCEPT ![r] = [portfolios |-> {PortfolioOf(j)},
                                      errors     |-> WalletErrors(j)]]
  /\ rpc' = [rpc EXCEPT ![r] = "done"]
  /\ UNCHANGED <<asked, sem, outerWg, results, allErrors, todo, wg, mu,
                 errs, byNetwork, overall, taskVars, clients, failedWallets>>

-----------------------------------------------------------------------------
(* A network's goroutine. *)

\* GetClient returns the cached client of the network or creates and caches it.
GetClient(t) ==
  /\ npc[t] = "client"
  /\ npc' = [npc EXCEPT ![t] = "fetch"]
  /\ clients' = clients \cup {NetworkOf(t)}
  /\ UNCHANGED <<requestVars, jobVars, out, seen, failedWallets>>

\* Every RPC URL of the network failed; the failure is not cached.
GetClientFails(t) ==
  /\ npc[t] = "client" /\ NetworkOf(t) \notin clients
  /\ npc' = [npc EXCEPT ![t] = "merge"]
  /\ out' = [out EXCEPT ![t] = ClientFailure]
  /\ UNCHANGED <<requestVars, jobVars, seen, clients, failedWallets>>

\* fetchBalancesForNetwork: the batch call returns, fails or times out.
FetchBalances(t) ==
  /\ npc[t] = "fetch"
  /\ \E o \in Outcomes : out' = [out EXCEPT ![t] = o]
  /\ npc' = [npc EXCEPT ![t] = "merge"]
  /\ UNCHANGED <<requestVars, jobVars, seen, clients, failedWallets>>

\* mu.Lock() goes through.  Bug: the task does not lock.
NoLock(j)   == TRUE
Unlocked(j) == ~mu[j]

\* mu.Lock(), and the read of "overallWalletTotalValueUSD +=".
LockWallet(t) ==
  LET j == JobOf(t) IN
  /\ npc[t] = "merge" /\ Unlocked(j)
  /\ mu'   = [mu EXCEPT ![j] = TRUE]
  /\ seen' = [seen EXCEPT ![t] = overall[j]]
  /\ npc'  = [npc EXCEPT ![t] = "locked"]
  /\ UNCHANGED <<requestVars, wpc, todo, wg, errs, byNetwork, overall, out,
                 clients, failedWallets>>

\* The rest of the critical section: the errors, and the entry and the total of
\* the wallet if it holds something on the network; mu.Unlock().
MergeOutcome(t) ==
  LET j == JobOf(t)
      n == NetworkOf(t) IN
  /\ npc[t] = "locked"
  /\ errs' = [errs EXCEPT ![j] = @ \cup ({n} \X out[t].errs)]
  /\ IF out[t].held = {}
     THEN UNCHANGED <<byNetwork, overall>>
     ELSE /\ byNetwork' = [byNetwork EXCEPT ![j][n] = EntryOf(out[t])]
          /\ overall'   = [overall EXCEPT ![j] = seen[t] + out[t].value]
  /\ mu'   = [mu EXCEPT ![j] = FALSE]
  /\ seen' = [seen EXCEPT ![t] = 0]
  /\ npc'  = [npc EXCEPT ![t] = "release"]
  /\ UNCHANGED <<requestVars, wpc, todo, wg, out, clients, failedWallets>>

\* Bug: GetClient's early return keeps its slot.
ReleaseUnlessNoClient(t) ==
  LET r == RequestOf(JobOf(t)) IN
  /\ npc[t] = "release"
  /\ sem' = [sem EXCEPT ![r] = IF out[t] = ClientFailure THEN @ ELSE @ - 1]
  /\ npc' = [npc EXCEPT ![t] = "finish"]
  /\ UNCHANGED <<rpc, asked, outerWg, results, allErrors, answer, jobVars,
                 out, seen, clients, failedWallets>>

\* The deferred functions run last in, first out: <-networkSemaphore ...
ReleaseSlot(t) ==
  LET r == RequestOf(JobOf(t)) IN
  /\ npc[t] = "release"
  /\ sem' = [sem EXCEPT ![r] = @ - 1]
  /\ npc' = [npc EXCEPT ![t] = "finish"]
  /\ UNCHANGED <<rpc, asked, outerWg, results, allErrors, answer, jobVars,
                 out, seen, clients, failedWallets>>

\* ... and then wg.Done().
Finish(t) ==
  LET j == JobOf(t) IN
  /\ npc[t] = "finish"
  /\ wg'  = [wg EXCEPT ![j] = @ - 1]
  /\ npc' = [npc EXCEPT ![t] = "done"]
  /\ UNCHANGED <<requestVars, wpc, todo, mu, errs, byNetwork, overall, out,
                 seen, clients, failedWallets>>

-----------------------------------------------------------------------------
RequestStep(r) == Refuse(r) \/ StartAll(r) \/ StartSingle(r) \/ RespondAll(r)

JobStep(j) == \/ Acquire(j) \/ AwaitNetworks(j) \/ SendResult(j)
              \/ MarkFailed(j) \/ CollectErrors(j)
              \/ LeaveAll(j) \/ RespondSingle(j)

TaskStep(t) == \/ GetClient(t) \/ GetClientFails(t) \/ FetchBalances(t)
               \/ LockWallet(t) \/ MergeOutcome(t)
               \/ ReleaseSlot(t) \/ Finish(t)

\* Every request has been answered and the service waits for more.
Terminated ==
  /\ \A r \in Requests : rpc[r] \in {"done", "refused"}
  /\ UNCHANGED vars

Next == \/ \E r \in Requests : RequestStep(r)
        \/ \E j \in Jobs : JobStep(j)
        \/ \E t \in Tasks : TaskStep(t)
        \/ Terminated

Spec == Init /\ [][Next]_vars

\* The Go scheduler runs every goroutine that can run, dials and batch calls end,
\* by their timeouts at the latest, and nothing obliges a client to send a request.
Fairness ==
  /\ \A r \in Requests : WF_vars(RespondAll(r))
  /\ \A j \in Jobs : WF_vars(JobStep(j))
  /\ \A t \in Tasks : WF_vars(TaskStep(t))

FairSpec == Spec /\ Fairness

-----------------------------------------------------------------------------
(* Properties. *)

\* The variables hold what the code's types allow: the type invariant.
TypeOK ==
  /\ rpc       \in [Requests -> {"idle", "all", "single", "done", "refused"}]
  /\ asked     \in [Requests -> [wallets : SUBSET Wallets,
                                 nets    : SUBSET Networks]]
  /\ sem       \in [Requests -> 0..MaxRoutines]
  /\ outerWg   \in [Requests -> Nat]
  /\ results   \in [Requests -> SUBSET Portfolio]
  /\ allErrors \in [Requests -> SUBSET WalletError]
  /\ answer    \in [Requests -> [portfolios : SUBSET Portfolio,
                                 errors     : SUBSET WalletError]]
  /\ wpc       \in [Jobs -> {"none", "loop", "send", "mark", "collect",
                             "leave", "done"}]
  /\ todo      \in [Jobs -> SUBSET Networks]
  /\ wg        \in [Jobs -> Nat]
  /\ mu        \in [Jobs -> BOOLEAN]
  /\ errs      \in [Jobs -> SUBSET (Networks \X ErrorKinds)]
  /\ byNetwork \in [Jobs -> [Networks -> Entry]]
  /\ overall   \in [Jobs -> Nat]
  /\ npc       \in [Tasks -> {"none", "done"} \cup Live]
  /\ out       \in [Tasks -> Outcome]
  /\ seen      \in [Tasks -> Nat]
  /\ clients   \in SUBSET Networks
  /\ failedWallets \in SUBSET Wallets

\* A request never has more than MaxRoutines network goroutines between their
\* slot and its release, whatever the interleaving of its wallets: the
\* semaphore of portfolio_service.go:170-174 counts exactly its holders.
SlotsBounded == \A r \in Requests : Cardinality(Holders(r)) <= MaxRoutines

\* When a request is answered nothing of it still runs, and every slot it took
\* has been given back, on the path of GetClient's error too: the handler that
\* encodes the answer shares it with no goroutine (:133, :306).
QuietWhenAnswered ==
  \A r \in Requests : rpc[r] = "done" =>
    /\ LiveJobs(r) = {}
    /\ \A j \in JobsOf(r) : LiveTasks(j) = {}
    /\ sem[r] = 0 /\ outerWg[r] = 0

\* The total of every portfolio answered is the sum over its networks: no +=
\* of a network goroutine is lost to another one's (:189, :298, :308).
TotalsAddUp ==
  \A r \in Requests : \A p \in answer[r].portfolios :
    p.total = SumFunction([n \in Networks |-> p.nets[n].value])

\* The buffer of results has room for every wallet that is about to send: the
\* drain starts only after wg.Wait(), so a wallet that found it full would
\* block for good (:106, :119, :133-139).
ResultsFit ==
  \A r \in Requests :
    Cardinality(results[r]) + Cardinality({j \in JobsOf(r) : wpc[j] = "send"})
      <= ResultsCapacity(r)

\* A portfolio that left fetchSingleWalletPortfolio is never written again: its
\* BalancesByNetwork is a map handed out by reference (:306-310).
NoLateWrites ==
  [][\A j \in Jobs : wpc[j] \notin {"none", "loop"} =>
       UNCHANGED <<errs[j], byNetwork[j], overall[j]>>]_vars

\* The three counters of the code against what they count.
SlotCount  == \A r \in Requests : sem[r] = Cardinality(Holders(r))
WgCount    == \A j \in Jobs : wg[j] = Cardinality(LiveTasks(j))
OuterCount == \A r \in Requests :
  outerWg[r] = IF rpc[r] = "single" THEN 0 ELSE Cardinality(LiveJobs(r))

\* Where a job and its tasks can be while its request is where it is.
Phases == \A j \in Jobs :
  /\ wpc[j] \notin {"none", "done"} => rpc[RequestOf(j)] \in {"all", "single"}
  /\ wpc[j] \in {"send", "collect"} => rpc[RequestOf(j)] = "all"
  /\ rpc[RequestOf(j)] \in {"idle", "refused"} => wpc[j] = "none"
  /\ wpc[j] # "loop" => LiveTasks(j) = {}
  /\ wpc[j] = "none" => \A n \in Networks : npc[<<j, n>>] = "none"
  /\ wpc[j] = "loop" => \A n \in todo[j] : npc[<<j, n>>] = "none"

\* The call for one wallet has no second goroutine to wait for.
OneJob == \A r \in Requests : rpc[r] = "single" =>
  \A j, k \in LiveJobs(r) : j = k

\* Every counter counts what is alive, in every state of every request: the
\* inductive invariant behind SlotsBounded and QuietWhenAnswered.
Accounting == SlotCount /\ WgCount /\ OuterCount /\ Phases /\ OneJob

\* What the service does is what the specification of its answers promises.
Promise == INSTANCE PortfolioPromise WITH
  phase   <- [r \in Requests |->
                IF rpc[r] \in {"all", "single"} THEN "open" ELSE rpc[r]],
  settled <- {t \in Tasks : npc[t] \in Merged},
  outcome <- [t \in Tasks |-> IF npc[t] \in Merged THEN out[t] ELSE Nothing],
  total   <- overall,
  failed  <- failedWallets

\* Every answer is the one of PortfolioPromise: one portfolio per wallet with
\* all that its fetches brought and nothing else, all of their errors, given
\* only when every fetch has settled and every failing wallet is listed.
Implements == Promise!Spec

\* Every request that started goroutines is answered, though they share slots,
\* mutexes and a bounded channel and any fetch may fail (:57-143, :415-470).
EveryRequestAnswered ==
  \A r \in Requests : rpc[r] \in {"all", "single"} ~> rpc[r] = "done"

\* README.md:23 of the number of concurrent goroutines "used for fetching
\* balances across all wallets and networks": one limit for the process.
GlobalFetchLimit ==
  Cardinality(UNION {Holders(r) : r \in Requests}) <= MaxRoutines

\* docs/swagger.yaml:205: GetFailedWallets lists the wallets that "encountered
\* errors during the last portfolio fetch operation".  When a fetch of all
\* wallets ends and no other one runs, nothing else may be listed.
FailedListOfLastFetch ==
  [][\A r \in Requests :
       /\ rpc[r] = "all" /\ rpc'[r] = "done"
       /\ \A s \in Requests \ {r} : rpc[s] \notin {"all", "single"}
       => failedWallets' \subseteq {e[1] : e \in answer'[r].errors}]_vars
=============================================================================
