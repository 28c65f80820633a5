--------------------------- MODULE PortfolioPromise ---------------------------
(***************************************************************************)
(* What port.PortfolioService promises its caller, without goroutines,     *)
(* semaphores or locks.  A fetch settles once for every wallet and network *)
(* of a request, in any order; a request is answered when all of its       *)
(* fetches have settled and every wallet with an error is listed as        *)
(* failed; the answer is then a function of the outcomes alone.            *)
(***************************************************************************)
EXTENDS PortfolioTypes

VARIABLES
  phase,     \* "idle", "open", "done" or "refused", per request
  asked,     \* the wallets and the networks of a request
  settled,   \* the tasks whose outcome is known
  outcome,   \* their outcomes
  total,     \* the USD value of the settled tasks of a job
  failed,    \* the wallets GetFailedWallets lists
  answer     \* what the request was answered

vars == <<phase, asked, settled, outcome, total, failed, answer>>

AskedJobs(r)  == {j \in JobsOf(r) : WalletOf(j) \in asked[r].wallets}
AskedTasks(j) == {t \in TasksOf(j) : NetworkOf(t) \in asked[RequestOf(j)].nets}

\* The errors of a job: wallet, network and kind.
ErrorsOf(j) ==
  {<<WalletOf(j), e[1], e[2]>> :
     e \in UNION {{NetworkOf(t)} \X outcome[t].errs : t \in TasksOf(j)}}

PortfolioFor(j) ==
  [wallet |-> WalletOf(j),
   nets   |-> [n \in Networks |-> EntryOf(outcome[<<j, n>>])],
   total  |-> total[j]]

JobSettled(j) == AskedTasks(j) \subseteq settled

Init ==
  /\ phase   = [r \in Requests |-> "idle"]
  /\ asked   = [r \in Requests |-> NotAsked]
  /\ settled = {}
  /\ outcome = [t \in Tasks |-> Nothing]
  /\ total   = [j \in Jobs |-> 0]
  /\ failed  = {}
  /\ answer  = [r \in Requests |-> NoAnswer]

Refuse(r) ==
  /\ phase[r] = "idle"
  /\ phase' = [phase EXCEPT ![r] = "refused"]
  /\ UNCHANGED <<asked, settled, outcome, total, failed, answer>>

Begin(r) ==
  /\ phase[r] = "idle"
  /\ phase' = [phase EXCEPT ![r] = "open"]
  /\ \E ws \in SUBSET Wallets, nets \in SUBSET Networks \ {{}} :
       asked' = [asked EXCEPT ![r] = [wallets |-> ws, nets |-> nets]]
  /\ UNCHANGED <<settled, outcome, total, failed, answer>>

Settle(t) ==
  LET j == JobOf(t) IN
  /\ phase[RequestOf(j)] = "open"
  /\ j \in AskedJobs(RequestOf(j)) /\ t \in AskedTasks(j) \ settled
  /\ \E o \in Outcomes \cup {ClientFailure} :
       /\ outcome' = [outcome EXCEPT ![t] = o]
       /\ total' = [total EXCEPT ![j] = @ + WorthOf(o)]
  /\ settled' = settled \cup {t}
  /\ UNCHANGED <<phase, asked, failed, answer>>

MarkFailed(j) ==
  /\ phase[RequestOf(j)] = "open"
  /\ j \in AskedJobs(RequestOf(j)) /\ JobSettled(j) /\ ErrorsOf(j) # {}
  /\ failed' = failed \cup {WalletOf(j)}
  /\ UNCHANGED <<phase, asked, settled, outcome, total, answer>>

Answer(r) ==
  /\ phase[r] = "open"
  /\ \A j \in AskedJobs(r) :
       JobSettled(j) /\ (ErrorsOf(j) # {} => WalletOf(j) \in failed)
  /\ answer' = [answer EXCEPT ![r] =
       [portfolios |-> {PortfolioFor(j) : j \in AskedJobs(r)},
        errors     |-> UNION {ErrorsOf(j) : j \in AskedJobs(r)}]]
  /\ phase' = [phase EXCEPT ![r] = "done"]
  /\ UNCHANGED <<asked, settled, outcome, total, failed>>

Next == \/ \E r \in Requests : Refuse(r) \/ Begin(r) \/ Answer(r)
        \/ \E t \in Tasks : Settle(t)
        \/ \E j \in Jobs : MarkFailed(j)

Spec == Init /\ [][Next]_vars
=============================================================================
