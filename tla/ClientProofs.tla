---------------------------- MODULE ClientProofs ----------------------------
(***************************************************************************)
(* Proofs about package client: GetClient (EvmClientProvider), for any     *)
(* callers, networks and numbers of URLs, the fetches that use the client  *)
(* it returns (NetworkFetch), for any wallets and token files, and the     *)
(* amounts they show (Amounts), for any amount, price and precision.       *)
(***************************************************************************)
EXTENDS EvmClientProvider, MCNetworkFetch, FoldLemmas

-----------------------------------------------------------------------------
(* GetClient: the mutex makes it atomic. *)

\* The inductive invariant.  A call has a result from the end of its look or
\* dial on, and no earlier; without that a result could come a second time.
ProviderInv ==
  /\ ProviderTypeOK
  /\ SameClient
  /\ \A c \in Callers : at[c] \in {"unlock", "done"} <=> result[c] # NoClient

LEMMA ProviderStarts == ProviderInit => ProviderInv
<1> SUFFICES ASSUME ProviderInit PROVE ProviderInv
  OBVIOUS
<1> USE ProviderAssumption DEF ProviderInit
<1>1. ProviderTypeOK
  <2>1. \A c \in Callers : net[c] \in Networks /\ Urls[net[c]] \in Nat /\ url[c] = 0
    OBVIOUS
  <2>2. mu \in BOOLEAN /\ OneInside
    BY DEF OneInside, Inside
  <2> QED BY <2>1, <2>2 DEF ProviderTypeOK
<1>2. SameClient
  BY DEF SameClient
<1> QED BY <1>1, <1>2 DEF ProviderInv

\* Every step of a call, or of nobody, preserves the invariant.
LEMMA ProviderSteps == ProviderInv /\ [ProviderNext]_providerVars => ProviderInv'
<1> SUFFICES ASSUME ProviderInv, [ProviderNext]_providerVars PROVE ProviderInv'
  OBVIOUS
<1> USE ProviderAssumption
          DEF ProviderInv, ProviderTypeOK, OneInside, SameClient, Inside
<1>1. ASSUME NEW c \in Callers, Call(c) PROVE ProviderInv'
  BY <1>1 DEF Call
<1>2. ASSUME NEW c \in Callers, Lock(c) PROVE ProviderInv'
  BY <1>2 DEF Lock, Unlocked
<1>3. ASSUME NEW c \in Callers, ReturnCached(c) PROVE ProviderInv'
  BY <1>3 DEF ReturnCached
<1>4. ASSUME NEW c \in Callers, StartDial(c) PROVE ProviderInv'
  BY <1>4 DEF StartDial
<1>5. ASSUME NEW c \in Callers, DialSucceeds(c) PROVE ProviderInv'
  BY <1>5 DEF DialSucceeds
<1>6. ASSUME NEW c \in Callers, DialNext(c) PROVE ProviderInv'
  BY <1>6 DEF DialNext
<1>7. ASSUME NEW c \in Callers, DialFails(c) PROVE ProviderInv'
  BY <1>7 DEF DialFails, KeepCache
<1>8. ASSUME NEW c \in Callers, Return(c) PROVE ProviderInv'
  BY <1>8 DEF Return, Unlock
<1>9. CASE UNCHANGED providerVars
  BY <1>9 DEF providerVars
<1> QED BY <1>1, <1>2, <1>3, <1>4, <1>5, <1>6, <1>7, <1>8, <1>9
        DEF ProviderNext, Step, Idle

THEOREM MutexInvariant == ProviderSpec => []ProviderInv
BY ProviderStarts, ProviderSteps, PTL DEF ProviderSpec

\* The type invariant of the client provider holds in every state.
THEOREM ProviderTypeCorrect == ProviderSpec => []ProviderTypeOK
<1>1. ProviderInv => ProviderTypeOK
  BY DEF ProviderInv
<1> QED BY <1>1, MutexInvariant, PTL

\* Every call that got a client of a network got the one in the cache.
THEOREM ClientIsUnique == ProviderSpec => []SameClient
<1>1. ProviderInv => SameClient
  BY DEF ProviderInv
<1> QED BY <1>1, MutexInvariant, PTL

\* A step of a call is a step of ClientPromise when it decides the result, and
\* a stutter otherwise.
LEMMA StepMaps == ProviderInv /\ [ProviderNext]_providerVars => [Promise!Next]_Promise!vars
<1> SUFFICES ASSUME ProviderInv, [ProviderNext]_providerVars PROVE [Promise!Next]_Promise!vars
  OBVIOUS
<1> DEFINE Got == [c \in Callers |-> IF result[c] = NoClient
                            THEN [net |-> NoClient, client |-> NoClient]
                            ELSE [net |-> net[c], client |-> result[c]]]
<1> USE ProviderAssumption DEF ProviderInv, ProviderTypeOK
<1>1. ASSUME UNCHANGED <<clients, net, result>> PROVE UNCHANGED Promise!vars
  BY <1>1 DEF Promise!vars
<1>2. ASSUME NEW c \in Callers, NEW n \in Networks, net[c] = n,
             ReturnCached(c) \/ DialSucceeds(c)
      PROVE  Promise!GetClient(c, n)
  <2>1. /\ result[c] = NoClient /\ net' = net
        /\ clients' = [clients EXCEPT ![net[c]] = IF @ = NoClient THEN c ELSE @]
        /\ result' = [result EXCEPT ![c] = clients'[net[c]]]
    BY <1>2 DEF ReturnCached, DialSucceeds, SameClient
  <2>2. clients'[net[c]] # NoClient
    BY <2>1
  <2>3. Got' = [Got EXCEPT ![c] = [net |-> net[c], client |-> clients'[net[c]]]]
    BY <2>1, <2>2
  <2> QED BY <1>2, <2>1, <2>3 DEF Promise!GetClient, Promise!Nothing
<1>3. ASSUME NEW c \in Callers, NEW n \in Networks, net[c] = n, DialFails(c)
      PROVE  Promise!GetClientFails(c, n)
  <2>1. /\ result[c] = NoClient /\ net' = net /\ clients[net[c]] = NoClient
        /\ clients' = clients
        /\ result' = [result EXCEPT ![c] = DialError]
    BY <1>3 DEF DialFails, KeepCache, SameClient
  <2>2. Got' = [Got EXCEPT ![c] = [net |-> net[c], client |-> DialError]]
    BY <2>1
  <2> QED BY <1>3, <2>1, <2>2 DEF Promise!GetClientFails, Promise!Nothing
<1>4. ASSUME NEW c \in Callers,
             Call(c) \/ Lock(c) \/ StartDial(c) \/ DialNext(c) \/ Return(c)
      PROVE  UNCHANGED <<clients, net, result>>
  BY <1>4 DEF Call, Lock, StartDial, DialNext, Return
<1>5. CASE UNCHANGED providerVars
  BY <1>1, <1>5 DEF providerVars
<1>6. ASSUME NEW c \in Callers, Call(c) \/ Step(c)
      PROVE  Promise!Next \/ UNCHANGED Promise!vars
  <2>1. PICK n \in Networks : net[c] = n
    OBVIOUS
  <2>2. CASE ReturnCached(c) \/ DialSucceeds(c)
    BY <1>2, <2>1, <2>2 DEF Promise!Next
  <2>3. CASE DialFails(c)
    BY <1>3, <2>1, <2>3 DEF Promise!Next
  <2>4. CASE Call(c) \/ Lock(c) \/ StartDial(c) \/ DialNext(c) \/ Return(c)
    BY <1>1, <1>4, <2>4
  <2> QED BY <1>6, <2>2, <2>3, <2>4 DEF Step
<1> QED BY <1>5, <1>6 DEF ProviderNext, Idle

\* GetClient is atomic: the provider implements ClientPromise, which is what
\* PortfolioService relies on.
THEOREM GetClientIsAtomic == ProviderSpec => Atomic
<1>1. ProviderInit => Promise!Init
  BY DEF ProviderInit, Promise!Init, Promise!Nothing
<1> QED BY <1>1, MutexInvariant, StepMaps, PTL DEF ProviderSpec, Atomic, Promise!Spec

\* The steps a call has left, at most: every URL is dialled once.
StepsLeft(c) ==
  CASE at[c] = "idle" -> Urls[net[c]] + 4
    [] at[c] = "lock" -> Urls[net[c]] + 3
    [] at[c] = "look" -> Urls[net[c]] + 2
    [] at[c] = "dial" -> Urls[net[c]] - url[c] + 2
    [] at[c] = "unlock" -> 1
    [] OTHER -> 0

\* Every step is one of a call that comes nearer to its return and keeps the others
\* where they are.
OneComesNearer ==
  \E c \in Callers : /\ StepsLeft(c)' < StepsLeft(c)
                     /\ \A d \in Callers \ {c} : StepsLeft(d)' = StepsLeft(d)

\* Whoever waits for the mutex finds it free, or waits for a call that waits for nobody.
NobodyIsLockedOut ==
  (\E c \in Callers : at[c] = "lock") => Unlocked \/ \E d \in Callers : at[d] \in Inside

\* What EveryCallReturns has without fairness: a call returns after a step for each URL
\* of its network and four more, one of which waits, for calls that do so too (:43-45,
\* evm_client.go:60-78).
THEOREM CallsReturn ==
  ProviderSpec => /\ [](NobodyIsLockedOut /\ \A c \in Callers : StepsLeft(c) \in Nat)
                  /\ [][OneComesNearer]_providerVars
<1>0. ProviderInv => \A c \in Callers : Urls[net[c]] \in Nat /\ url[c] \in Nat
                                        /\ url[c] <= Urls[net[c]]
  BY ProviderAssumption DEF ProviderInv, ProviderTypeOK
<1>1. ProviderInv => NobodyIsLockedOut /\ \A c \in Callers : StepsLeft(c) \in Nat
  <2> SUFFICES ASSUME ProviderInv
               PROVE  NobodyIsLockedOut /\ \A c \in Callers : StepsLeft(c) \in Nat
    OBVIOUS
  <2>1. NobodyIsLockedOut
    BY DEF ProviderInv, ProviderTypeOK, OneInside, NobodyIsLockedOut, Unlocked
  <2>2. ASSUME NEW c \in Callers PROVE StepsLeft(c) \in Nat
    <3> DEFINE u == Urls[net[c]]
    <3>1. u \in Nat /\ url[c] \in Nat /\ url[c] <= u
      BY <1>0
    <3> QED BY <3>1 DEF StepsLeft
  <2> QED BY <2>1, <2>2
<1>2. ProviderInv /\ [ProviderNext]_providerVars => [OneComesNearer]_providerVars
  <2> SUFFICES ASSUME ProviderInv, NEW c \in Callers, Call(c) \/ Step(c)
               PROVE  OneComesNearer
    BY DEF ProviderNext, Idle
  <2>1. at \in [Callers -> {"idle", "lock", "done"} \cup Inside] /\ url \in [Callers -> Nat]
    BY DEF ProviderInv, ProviderTypeOK
  <2>2. /\ net' = net
        /\ \A d \in Callers \ {c} : at'[d] = at[d] /\ url'[d] = url[d]
    BY <2>1 DEF Step, Call, Lock, ReturnCached, StartDial, DialSucceeds, DialNext,
                DialFails, Return
  <2>3. \A d \in Callers \ {c} : StepsLeft(d)' = StepsLeft(d)
    BY <2>2 DEF StepsLeft
  <2>4. StepsLeft(c)' < StepsLeft(c)
    <3> DEFINE u == Urls[net[c]]
    <3>1. u \in Nat /\ Urls[net'[c]] = u /\ url[c] \in Nat /\ url[c] <= u
      BY <1>0, <2>2
    <3>2. \/ at[c] = "idle" /\ at'[c] = "lock"
          \/ at[c] = "lock" /\ at'[c] = "look"
          \/ at[c] = "look" /\ at'[c] = "unlock"
          \/ at[c] = "look" /\ at'[c] = "dial" /\ url'[c] = 1
          \/ at[c] = "dial" /\ at'[c] = "dial" /\ url'[c] = url[c] + 1
          \/ at[c] = "dial" /\ at'[c] = "unlock"
          \/ at[c] = "unlock" /\ at'[c] = "done"
      BY <2>1 DEF Step, Call, Lock, ReturnCached, StartDial, DialSucceeds, DialNext,
                  DialFails, Return
    <3> QED BY <3>1, <3>2 DEF StepsLeft
  <2> QED BY <2>3, <2>4 DEF OneComesNearer
<1> QED BY <1>1, <1>2, MutexInvariant, PTL DEF ProviderSpec

-----------------------------------------------------------------------------
(* The fetches: whose call data is sent. *)

\* The 36 bytes of the call data do not fit the 32 of the method ID's array.
LEMMA AppendAllocates == AppendCopies
BY DEF AppendCopies, WordSize, MethodIdCapacity

\* Nobody's call data is in the shared array.
Apart == /\ callData = [w \in Wallets |-> "own"]
         /\ replies \in [Wallets -> {replies[w] : w \in Wallets}]

LEMMA StepApart == Apart /\ OwnBalances /\ [Next]_vars => Apart' /\ OwnBalances'
<1> SUFFICES ASSUME Apart, OwnBalances, [Next]_vars PROVE Apart' /\ OwnBalances'
  OBVIOUS
<1> USE DEF Apart, OwnBalances
<1>1. ASSUME NEW w \in Wallets, Prepare(w) PROVE Apart' /\ OwnBalances'
  BY <1>1, AppendAllocates DEF Prepare
<1>2. ASSUME NEW w \in Wallets, Answered(w) PROVE Apart' /\ OwnBalances'
  <2>1. PICK r \in [DOMAIN batch[w] -> NativeReplies \cup TokenReplies] :
          replies' = [replies EXCEPT ![w] =
            [k \in DOMAIN r |-> [is |-> r[k], of |-> AskedFor(w, batch[w][k])]]]
    BY <1>2 DEF Answered
  <2>2. \A i : AskedFor(w, i) = w
    BY DEF AskedFor
  <2>3. \A k \in DOMAIN replies'[w] : replies'[w][k].of = w
    BY <2>1, <2>2
  <2>4. \A v \in Wallets : v # w => replies'[v] = replies[v]
    BY <2>1
  <2>5. Apart'
    BY <1>2, <2>1 DEF Answered
  <2>6. \A v \in Wallets : \A k \in DOMAIN replies'[v] : replies'[v][k].of = v
    BY <2>3, <2>4
  <2> QED BY <2>5, <2>6
<1>3. ASSUME NEW w \in Wallets, CallFails(w) \/ Collect(w)
      PROVE  Apart' /\ OwnBalances'
  BY <1>3 DEF CallFails, Collect
<1>4. CASE UNCHANGED vars
  BY <1>4 DEF vars
<1> QED BY <1>1, <1>2, <1>3, <1>4 DEF Next, Finished

\* No wallet gets what was asked for another one, however many fetch at once over
\* one client and whatever they append to the method ID.
THEOREM BalancesAreOwn == Spec => []OwnBalances
<1>1. Init => Apart /\ OwnBalances
  BY DEF Init, Apart, OwnBalances
<1> QED BY <1>1, StepApart, PTL DEF Spec

-----------------------------------------------------------------------------
(* What the results are made of. *)

\* Between its steps a fetch has the batch its file makes, an answer for every
\* element of it or an error, and in the end what those decode to.
Outcome(w) == IF err[w] THEN DropResults(w) ELSE Results(w)
Asked(w) ==
  batch[w] = IF pc[w] = "prepare" THEN <<>> ELSE BalanceRequests(TokensOfFile(file))
Replied(w) ==
  IF pc[w] \in {"prepare", "call"} THEN ~err[w]
  ELSE err[w] \/ /\ DOMAIN replies[w] = DOMAIN batch[w]
                 /\ \A k \in DOMAIN batch[w] : replies[w][k].is \in RepliesTo(batch[w][k])
Sorted(w) ==
  IF pc[w] = "done"
    THEN balances[w] = BalancesOf(Outcome(w)) /\ errors[w] = ErrorsOf(Outcome(w))
    ELSE balances[w] = <<>> /\ errors[w] = <<>>
Types ==
  /\ file \in Files
  /\ pc \in [Wallets -> {"prepare", "call", "collect", "done"}]
  /\ callData \in [Wallets -> {"own", "shared"}]
  /\ scratch \in Wallets \cup {NoWallet}
  /\ err \in [Wallets -> BOOLEAN]
  /\ DOMAIN batch = Wallets /\ DOMAIN replies = Wallets
  /\ DOMAIN balances = Wallets /\ DOMAIN errors = Wallets
Course == Types /\ \A w \in Wallets : Asked(w) /\ Replied(w) /\ Sorted(w)

LEMMA InitCourse == Init => Course
<1> SUFFICES ASSUME Init PROVE Course
  OBVIOUS
<1> USE DEF Init
<1>1. Types
  BY DEF Types
<1>2. ASSUME NEW w \in Wallets PROVE Asked(w) /\ Replied(w) /\ Sorted(w)
  BY DEF Asked, Replied, Sorted
<1> QED BY <1>1, <1>2 DEF Course

\* A step of one wallet's fetch leaves the others alone.
LEMMA OthersStay ==
  ASSUME Course, NEW v \in Wallets, UNCHANGED file,
         pc'[v] = pc[v], batch'[v] = batch[v], replies'[v] = replies[v],
         err'[v] = err[v], balances'[v] = balances[v], errors'[v] = errors[v]
  PROVE  Asked(v)' /\ Replied(v)' /\ Sorted(v)'
<1>1. Asked(v) /\ Replied(v) /\ Sorted(v)
  BY DEF Course
<1>2. Asked(v)'
  BY <1>1 DEF Asked
<1>3. Replied(v)'
  BY <1>1 DEF Replied
<1>4. Outcome(v)' = Outcome(v)
  BY DEF Outcome, Results, DropResults
<1>5. Sorted(v)'
  BY <1>1, <1>4 DEF Sorted
<1> QED BY <1>2, <1>3, <1>5

LEMMA StepCourse == Course /\ [Next]_vars => Course'
<1> SUFFICES ASSUME Course, [Next]_vars PROVE Course'
  OBVIOUS
<1>1. Types
  BY DEF Course
<1>2. ASSUME NEW w \in Wallets, Prepare(w) PROVE Course'
  <2>1. Types'
    BY <1>1, <1>2 DEF Prepare, Types
  <2>2. Replied(w) /\ Sorted(w) /\ pc[w] = "prepare"
    BY <1>2 DEF Course, Prepare
  <2>3. /\ pc'[w] = "call" /\ batch'[w] = BalanceRequests(TokensOfFile(file))
        /\ UNCHANGED <<file, replies, err, balances, errors>>
        /\ \A v \in Wallets \ {w} : pc'[v] = pc[v] /\ batch'[v] = batch[v]
    BY <1>1, <1>2 DEF Prepare, Types
  <2>4. Asked(w)' /\ Replied(w)' /\ Sorted(w)'
    BY <2>2, <2>3 DEF Asked, Replied, Sorted
  <2>5. ASSUME NEW v \in Wallets \ {w} PROVE Asked(v)' /\ Replied(v)' /\ Sorted(v)'
    BY <2>3, OthersStay
  <2> QED BY <2>1, <2>4, <2>5 DEF Course
<1>3. ASSUME NEW w \in Wallets, Answered(w) PROVE Course'
  <2>1. PICK r \in [DOMAIN batch[w] -> NativeReplies \cup TokenReplies] :
          /\ \A k \in DOMAIN r : r[k] \in RepliesTo(batch[w][k])
          /\ replies' = [replies EXCEPT ![w] =
               [k \in DOMAIN r |-> [is |-> r[k], of |-> AskedFor(w, batch[w][k])]]]
    BY <1>3 DEF Answered
  <2>2. Types'
    BY <1>1, <1>3, <2>1 DEF Answered, Types
  <2>3. Asked(w) /\ Replied(w) /\ Sorted(w) /\ pc[w] = "call"
    BY <1>3 DEF Course, Answered
  <2>4. /\ pc'[w] = "collect" /\ UNCHANGED <<file, batch, err, balances, errors>>
        /\ \A v \in Wallets \ {w} : pc'[v] = pc[v] /\ replies'[v] = replies[v]
        /\ DOMAIN replies'[w] = DOMAIN batch[w]
        /\ \A k \in DOMAIN batch[w] : replies'[w][k].is \in RepliesTo(batch[w][k])
    BY <1>1, <1>3, <2>1 DEF Answered, Types
  <2>5. Asked(w)' /\ Replied(w)' /\ Sorted(w)'
    BY <2>3, <2>4 DEF Asked, Replied, Sorted
  <2>6. ASSUME NEW v \in Wallets \ {w} PROVE Asked(v)' /\ Replied(v)' /\ Sorted(v)'
    BY <2>4, OthersStay
  <2> QED BY <2>2, <2>5, <2>6 DEF Course
<1>4. ASSUME NEW w \in Wallets, CallFails(w) PROVE Course'
  <2>1. Types'
    BY <1>1, <1>4 DEF CallFails, Types
  <2>2. Asked(w) /\ Replied(w) /\ Sorted(w) /\ pc[w] = "call"
    BY <1>4 DEF Course, CallFails
  <2>3. /\ pc'[w] = "collect" /\ err'[w]
        /\ UNCHANGED <<file, batch, replies, balances, errors>>
        /\ \A v \in Wallets \ {w} : pc'[v] = pc[v] /\ err'[v] = err[v]
    BY <1>1, <1>4 DEF CallFails, Types
  <2>4. Asked(w)' /\ Replied(w)' /\ Sorted(w)'
    BY <2>2, <2>3 DEF Asked, Replied, Sorted
  <2>5. ASSUME NEW v \in Wallets \ {w} PROVE Asked(v)' /\ Replied(v)' /\ Sorted(v)'
    BY <2>3, OthersStay
  <2> QED BY <2>1, <2>4, <2>5 DEF Course
<1>5. ASSUME NEW w \in Wallets, Collect(w) PROVE Course'
  <2>1. /\ pc[w] = "collect"
        /\ balances' = [balances EXCEPT ![w] = BalancesOf(Outcome(w))]
        /\ errors' = [errors EXCEPT ![w] = ErrorsOf(Outcome(w))]
        /\ pc' = [pc EXCEPT ![w] = "done"]
        /\ UNCHANGED <<file, batch, callData, scratch, replies, err>>
    BY <1>5 DEF Collect, Outcome
  <2>2. Types'
    BY <1>1, <2>1 DEF Types
  <2>3. Asked(w) /\ Replied(w)
    BY DEF Course
  <2>4. /\ pc'[w] = "done" /\ balances'[w] = BalancesOf(Outcome(w))
        /\ errors'[w] = ErrorsOf(Outcome(w))
        /\ \A v \in Wallets \ {w} :
             pc'[v] = pc[v] /\ balances'[v] = balances[v] /\ errors'[v] = errors[v]
    BY <1>1, <2>1 DEF Types
  <2>5. Outcome(w)' = Outcome(w)
    BY <2>1 DEF Outcome, Results, DropResults
  <2>6. Asked(w)' /\ Replied(w)'
    BY <2>1, <2>3, <2>4 DEF Asked, Replied
  <2>7. Sorted(w)'
    BY <2>4, <2>5 DEF Sorted
  <2>8. ASSUME NEW v \in Wallets \ {w} PROVE Asked(v)' /\ Replied(v)' /\ Sorted(v)'
    BY <2>1, <2>4, OthersStay
  <2> QED BY <2>2, <2>6, <2>7, <2>8 DEF Course
<1>6. CASE UNCHANGED vars
  <2>1. Types'
    BY <1>1, <1>6 DEF Types, vars
  <2>2. ASSUME NEW v \in Wallets PROVE Asked(v)' /\ Replied(v)' /\ Sorted(v)'
    BY <1>6, OthersStay DEF vars
  <2> QED BY <2>1, <2>2 DEF Course
<1> QED BY <1>2, <1>3, <1>4, <1>5, <1>6 DEF Next, Finished

-----------------------------------------------------------------------------
(* What the batch asks for. *)

Own(f) == {e \in ToSet(f) : e.chain = Chain}

\* The tokens of a file are those of its own entries, each as often as it has it.
LEMMA FileCounts ==
  ASSUME NEW f \in Files
  PROVE  /\ TokensOfFile(f) \in Seq(FileTokens)
         /\ \A i : Count(TokensOfFile(f), {i}) =
                     Cardinality({k \in DOMAIN f : f[k].token = i /\ f[k].chain = Chain})
<1> DEFINE v == Keep(f, Own(f))
<1>1. f \in Seq(ToSet(f)) /\ DOMAIN f = 1..Len(f) /\ \A k \in DOMAIN f : f[k] \in ToSet(f)
  BY FetchAssumption DEF ToSet
<1>2. /\ v \in Seq(ToSet(f)) /\ ToSet(v) = ToSet(f) \cap Own(f)
      /\ \A P : Count(v, P) = Count(f, P \cap Own(f))
  BY <1>1, KeepCounts
<1>3. TokensOfFile(f) = [k \in DOMAIN v |-> v[k].token]
  BY DEF TokensOfFile, Own
<1> HIDE DEF v
<1>4. DOMAIN v = 1..Len(v) /\ Len(v) \in Nat /\ \A k \in DOMAIN v : v[k] \in ToSet(f)
  BY <1>2
<1>5. \A e \in ToSet(f) : e.token \in FileTokens
  BY DEF FileTokens
<1>6. TokensOfFile(f) \in Seq(FileTokens)
  BY <1>3, <1>4, <1>5
<1>7. ASSUME NEW i
      PROVE  Count(TokensOfFile(f), {i}) =
               Cardinality({k \in DOMAIN f : f[k].token = i /\ f[k].chain = Chain})
  <2> DEFINE P == {e \in ToSet(f) : e.token = i}
  <2>1. {k \in DOMAIN TokensOfFile(f) : TokensOfFile(f)[k] \in {i}} = {k \in DOMAIN v : v[k] \in P}
    BY <1>3, <1>4
  <2>2. Count(TokensOfFile(f), {i}) = Count(v, P)
    BY <2>1 DEF Count
  <2>3. {k \in DOMAIN f : f[k] \in P \cap Own(f)}
          = {k \in DOMAIN f : f[k].token = i /\ f[k].chain = Chain}
    BY <1>1 DEF Own
  <2>4. Count(v, P) = Count(f, P \cap Own(f))
    BY <1>2
  <2>5. Count(f, P \cap Own(f)) = Cardinality({k \in DOMAIN f : f[k] \in P \cap Own(f)})
    BY DEF Count
  <2> QED BY <2>2, <2>3, <2>4, <2>5
<1> QED BY <1>6, <1>7

\* A batch has every item as often as it is listed.
LEMMA BatchCounts ==
  ASSUME file \in Files
  PROVE  /\ BalanceRequests(TokensOfFile(file)) \in Seq(Items)
         /\ \A i \in Items : Count(BalanceRequests(TokensOfFile(file)), {i}) = Listed(i)
<1> DEFINE ts == TokensOfFile(file)
           C(i) == Cardinality({k \in DOMAIN file : file[k].token = i /\ file[k].chain = Chain})
<1>1. ts \in Seq(FileTokens) /\ \A i : Count(ts, {i}) = C(i)
  BY FileCounts
<1> HIDE DEF ts
<1>2. ts \in Seq(Items) /\ <<Native>> \in Seq(Items)
  BY <1>1 DEF Items
<1>3. BalanceRequests(ts) \in Seq(Items)
  BY <1>2 DEF BalanceRequests
<1>4. \A i : Count(<<Native>>, {i}) = IF i = Native THEN 1 ELSE 0
  <2>1. \A i : {k \in DOMAIN <<Native>> : <<Native>>[k] \in {i}}
                 = IF i = Native THEN {1} ELSE {}
    OBVIOUS
  <2>2. Cardinality({1}) = 1 /\ Cardinality({}) = 0
    BY FS_EmptySet, FS_Singleton
  <2> QED BY <2>1, <2>2 DEF Count
<1>5. ASSUME NEW i \in Items PROVE Count(BalanceRequests(ts), {i}) = Listed(i)
  <2>1. Count(<<Native>> \o ts, {i}) = Count(<<Native>>, {i}) + Count(ts, {i})
    <3> DEFINE s == <<Native>>
    <3>1. s \in Seq(Items) /\ ts \in Seq(Items)
      BY <1>2
    <3> HIDE DEF s
    <3>2. Count(s \o ts, {i}) = Count(s, {i}) + Count(ts, {i})
      BY <3>1, CountOfConcat
    <3> QED BY <3>2 DEF s
  <2>2. Count(<<Native>> \o ts, {i}) = (IF i = Native THEN 1 ELSE 0) + C(i)
    BY <1>1, <1>4, <2>1
  <2>3. CASE i = Native
    <3>1. {k \in DOMAIN ts : ts[k] \in {i}} = {}
      BY <1>1, <2>3, FetchAssumption
    <3>a. Count(ts, {i}) = 0
      BY <3>1, FS_EmptySet DEF Count
    <3>b. Count(ts, {i}) = C(i)
      BY <1>1
    <3> HIDE DEF C
    <3>2. C(i) = 0
      BY <3>a, <3>b
    <3> QED BY <2>2, <2>3, <3>2 DEF BalanceRequests, Listed
  <2>4. CASE i # Native
    <3>1. C(i) = Listed(i)
      BY <2>4 DEF Listed
    <3>2. C(i) \in Nat
      <4>1. IsFiniteSet(DOMAIN file)
        <5>1. DOMAIN file = 1..Len(file) /\ 1 \in Int /\ Len(file) \in Int
          BY FetchAssumption
        <5>2. IsFiniteSet(1..Len(file))
          BY ONLY <5>1, FS_Interval
        <5> QED BY <5>1, <5>2
      <4>2. {k \in DOMAIN file : file[k].token = i /\ file[k].chain = Chain}
              \subseteq DOMAIN file
        OBVIOUS
      <4> QED BY <4>1, <4>2, FS_Subset, FS_CardinalityType
    <3> HIDE DEF C
    <3> QED BY <2>2, <2>4, <3>1, <3>2 DEF BalanceRequests
  <2> QED BY <2>3, <2>4
<1> QED BY <1>3, <1>5 DEF ts

-----------------------------------------------------------------------------
(* What the results tell. *)

\* The results of a batch that was answered.
LEMMA ResultsDecode ==
  ASSUME Course, NEW w \in Wallets, pc[w] \in {"collect", "done"}, ~err[w]
  PROVE  /\ batch[w] \in Seq(Items) /\ DOMAIN replies[w] = DOMAIN batch[w]
         /\ DOMAIN Results(w) = DOMAIN batch[w]
         /\ Results(w) \in Seq(ToSet(Results(w)))
         /\ \A k \in DOMAIN batch[w] :
              /\ batch[w][k] \in Items
              /\ replies[w][k].is \in RepliesTo(batch[w][k])
              /\ Results(w)[k] = Decode(batch[w][k], replies[w][k].is)
<1>1. Asked(w) /\ Replied(w) /\ file \in Files
  BY DEF Course, Types
<1>2. batch[w] \in Seq(Items)
  BY <1>1, BatchCounts DEF Asked
<1>3. DOMAIN batch[w] = 1..Len(batch[w]) /\ Len(batch[w]) \in Nat
      /\ \A k \in DOMAIN batch[w] : batch[w][k] \in Items
  BY <1>2
<1>4. DOMAIN Results(w) = DOMAIN batch[w]
  BY DEF Results
<1>5. Results(w) \in Seq(ToSet(Results(w)))
  <2> DEFINE rs == Results(w)
  <2>1. rs = [k \in 1..Len(batch[w]) |-> rs[k]]
    BY <1>3 DEF Results
  <2> HIDE DEF rs
  <2>2. \A k \in 1..Len(batch[w]) : rs[k] \in ToSet(rs)
    BY <1>3, <2>1 DEF ToSet
  <2> QED BY <1>3, <2>1, <2>2 DEF rs
<1> QED BY <1>1, <1>2, <1>3, <1>4, <1>5 DEF Replied, Results

Balance(x) == ~x.error /\ x.balance # "zero"

\* What a reply to an item becomes.
LEMMA DecodeTells ==
  ASSUME NEW i \in Items, NEW r \in RepliesTo(i)
  PROVE  /\ Decode(i, r).item = i
         /\ Decode(i, r).error <=> r \in Failures
         /\ Balance(Decode(i, r)) <=> r = "some"
         /\ Decode(i, r).error \/ Balance(Decode(i, r)) => Decode(i, r) \in Result
BY DEF Decode, Failures, Balance, RepliesTo, NativeReplies, TokenReplies, Bad, Found, Result

\* The sorting of any list of results.
LEMMA SortingCounts ==
  ASSUME NEW V, NEW rs \in Seq(V)
  PROVE  /\ ToSet(BalancesOf(rs)) = {x \in ToSet(rs) : Balance(x)}
         /\ ToSet(ErrorsOf(rs)) = {x \in ToSet(rs) : x.error}
         /\ \A P : /\ Count(BalancesOf(rs), P) =
                        Cardinality({k \in DOMAIN rs : rs[k] \in P /\ Balance(rs[k])})
                   /\ Count(ErrorsOf(rs), P) =
                        Cardinality({k \in DOMAIN rs : rs[k] \in P /\ rs[k].error})
<1> DEFINE B == {x \in ToSet(rs) : Balance(x)}
           E == {x \in ToSet(rs) : x.error}
<1>1. BalancesOf(rs) = Keep(rs, B) /\ ErrorsOf(rs) = Keep(rs, E)
  BY DEF BalancesOf, ErrorsOf, Visited, Balance
<1>2. \A k \in DOMAIN rs : rs[k] \in ToSet(rs)
  BY DEF ToSet
<1>3. \A P : /\ {k \in DOMAIN rs : rs[k] \in P \cap B}
                  = {k \in DOMAIN rs : rs[k] \in P /\ Balance(rs[k])}
             /\ {k \in DOMAIN rs : rs[k] \in P \cap E}
                  = {k \in DOMAIN rs : rs[k] \in P /\ rs[k].error}
  BY <1>2
<1>4. ToSet(rs) \cap B = B /\ ToSet(rs) \cap E = E
  OBVIOUS
<1> HIDE DEF B, E
<1>5. /\ ToSet(Keep(rs, B)) = B /\ ToSet(Keep(rs, E)) = E
      /\ \A P : Count(Keep(rs, B), P) = Count(rs, P \cap B)
      /\ \A P : Count(Keep(rs, E), P) = Count(rs, P \cap E)
  <2>1. \A S : /\ ToSet(Keep(rs, S)) = ToSet(rs) \cap S
               /\ \A P : Count(Keep(rs, S), P) = Count(rs, P \cap S)
    BY KeepCounts
  <2> QED BY <1>4, <2>1
<1>6. \A P : Count(rs, P) = Cardinality({k \in DOMAIN rs : rs[k] \in P})
  BY DEF Count
<1> QED BY <1>1, <1>3, <1>5, <1>6 DEF B, E

\* A batch that failed is one error.
LEMMA FailureTold ==
  ASSUME NEW w \in Wallets
  PROVE  BalancesOf(DropResults(w)) = <<>> /\ ErrorsOf(DropResults(w)) = <<Bad("batch")>>
<1> DEFINE e == Bad("batch")
<1>1. e.error /\ ToSet(<<e>>) = {e}
  <2>1. e.error
    BY DEF Bad
  <2> HIDE DEF e
  <2>2. ToSet(<<e>>) = {e}
    BY DEF ToSet
  <2> QED BY <2>1, <2>2
<1>2. BalancesOf(<<e>>) = Keep(<<e>>, {}) /\ ErrorsOf(<<e>>) = Keep(<<e>>, {e})
  <2>1. {x \in ToSet(<<e>>) : ~x.error /\ x.balance # "zero"} = {}
    BY <1>1
  <2>2. {x \in ToSet(<<e>>) : x.error} = {e}
    BY <1>1
  <2> HIDE DEF e
  <2> QED BY <2>1, <2>2, Zenon DEF BalancesOf, ErrorsOf, Visited
<1> HIDE DEF e
<1>3. Keep(<<e>>, {}) = <<>> /\ Keep(<<e>>, {e}) = <<e>>
  BY KeepOne
<1> QED BY <1>2, <1>3 DEF DropResults, e

LEMMA CourseTypes == Course => FetchTypeOK
<1> SUFFICES ASSUME Course PROVE FetchTypeOK
  OBVIOUS
<1>1. Types
  BY DEF Course
<1>2. ASSUME NEW w \in Wallets
      PROVE  /\ ToSet(batch[w]) \subseteq Items
             /\ ToSet(balances[w]) \cup ToSet(errors[w]) \subseteq Result
             /\ \A x \in ToSet(balances[w]) : ~x.error
             /\ \A x \in ToSet(errors[w]) : x.error
  <2>1. Asked(w) /\ Replied(w) /\ Sorted(w) /\ file \in Files
    BY <1>1 DEF Course, Types
  <2>2. ToSet(<<>>) = {}
    BY DEF ToSet
  <2>3. ToSet(batch[w]) \subseteq Items
    <3>1. BalanceRequests(TokensOfFile(file)) \in Seq(Items)
      BY <2>1, BatchCounts
    <3>2. ToSet(BalanceRequests(TokensOfFile(file))) \subseteq Items
      BY <3>1 DEF ToSet
    <3> QED BY <2>1, <2>2, <3>2 DEF Asked
  <2>4. CASE pc[w] # "done"
    BY <2>1, <2>2, <2>3, <2>4 DEF Sorted
  <2>5. CASE pc[w] = "done" /\ err[w]
    <3>1. balances[w] = <<>> /\ errors[w] = <<Bad("batch")>>
      BY <2>1, <2>5, FailureTold DEF Sorted, Outcome
    <3>2. ToSet(<<Bad("batch")>>) = {Bad("batch")}
      BY DEF ToSet
    <3>3. Bad("batch") \in Result /\ Bad("batch").error
      BY DEF Bad, Result
    <3> QED BY <2>2, <2>3, <3>1, <3>2, <3>3
  <2>6. CASE pc[w] = "done" /\ ~err[w]
    <3> DEFINE rs == Results(w)
    <3>1. balances[w] = BalancesOf(rs) /\ errors[w] = ErrorsOf(rs)
      BY <2>1, <2>6 DEF Sorted, Outcome
    <3>2. rs \in Seq(ToSet(rs))
      BY <2>6, ResultsDecode
    <3>3. ASSUME NEW x \in ToSet(rs) PROVE x.error \/ Balance(x) => x \in Result
      <4>1. PICK k \in DOMAIN batch[w] : x = rs[k]
        BY <2>6, ResultsDecode DEF ToSet
      <4> HIDE DEF rs
      <4>2. /\ batch[w][k] \in Items /\ replies[w][k].is \in RepliesTo(batch[w][k])
            /\ x = Decode(batch[w][k], replies[w][k].is)
        BY <2>6, <4>1, ResultsDecode DEF rs
      <4> QED BY <4>2, DecodeTells
    <3> HIDE DEF rs
    <3>4. /\ ToSet(BalancesOf(rs)) = {x \in ToSet(rs) : Balance(x)}
          /\ ToSet(ErrorsOf(rs)) = {x \in ToSet(rs) : x.error}
      BY <3>2, SortingCounts
    <3>5. \A x : Balance(x) => ~x.error
      BY DEF Balance
    <3> QED BY <2>3, <3>1, <3>3, <3>4, <3>5
  <2> QED BY <2>4, <2>5, <2>6
<1> QED BY <1>1, <1>2 DEF FetchTypeOK, Types

LEMMA CourseTold == Course => EveryItemTold
<1> SUFFICES ASSUME Course, NEW w \in Wallets, pc[w] = "done"
             PROVE  IF err[w] THEN balances[w] = <<>> /\ errors[w] = <<Bad("batch")>>
                    ELSE \A i \in Items :
                      /\ Answers(w, i, NativeReplies \cup TokenReplies) = Listed(i)
                      /\ Times(balances[w], i) = Answers(w, i, {"some"})
                      /\ Times(errors[w], i)   = Answers(w, i, Failures)
  BY DEF EveryItemTold
<1>1. Asked(w) /\ Sorted(w) /\ file \in Files
  BY DEF Course, Types
<1>2. CASE err[w]
  BY <1>1, <1>2, FailureTold DEF Sorted, Outcome
<1>3. ASSUME ~err[w], NEW i \in Items
      PROVE  /\ Answers(w, i, NativeReplies \cup TokenReplies) = Listed(i)
             /\ Times(balances[w], i) = Answers(w, i, {"some"})
             /\ Times(errors[w], i)   = Answers(w, i, Failures)
  <2> DEFINE rs == Results(w)
             b == batch[w]
             P == {x \in ToSet(rs) : x.item = i}
             r(k) == replies[w][k].is
  <2>1. /\ DOMAIN replies[w] = DOMAIN b /\ DOMAIN rs = DOMAIN b /\ rs \in Seq(ToSet(rs))
        /\ \A k \in DOMAIN b :
             b[k] \in Items /\ r(k) \in RepliesTo(b[k]) /\ rs[k] = Decode(b[k], r(k))
    BY <1>3, ResultsDecode
  <2>2. balances[w] = BalancesOf(rs) /\ errors[w] = ErrorsOf(rs)
    BY <1>1, <1>3 DEF Sorted, Outcome
  <2>3. Answers(w, i, NativeReplies \cup TokenReplies) = Listed(i)
    <3>1. {k \in DOMAIN b : b[k] = i /\ r(k) \in NativeReplies \cup TokenReplies}
            = {k \in DOMAIN b : b[k] \in {i}}
      BY <2>1 DEF RepliesTo
    <3>2. b = BalanceRequests(TokensOfFile(file))
      BY <1>1 DEF Asked
    <3>3. Count(b, {i}) = Listed(i)
      BY <1>1, <3>2, BatchCounts
    <3>4. Answers(w, i, NativeReplies \cup TokenReplies) =
            Cardinality({k \in DOMAIN b : b[k] = i /\ r(k) \in NativeReplies \cup TokenReplies})
      BY <2>1 DEF Answers
    <3> QED BY <3>1, <3>3, <3>4 DEF Count
  <2>4. ASSUME NEW k \in DOMAIN b
        PROVE  /\ rs[k].item = b[k] /\ rs[k] \in ToSet(rs)
               /\ rs[k].error <=> r(k) \in Failures
               /\ Balance(rs[k]) <=> r(k) = "some"
    <3> HIDE DEF rs, b, r
    <3>1. b[k] \in Items /\ r(k) \in RepliesTo(b[k]) /\ rs[k] = Decode(b[k], r(k))
      BY <2>1
    <3>2. rs[k] \in ToSet(rs)
      BY <2>1 DEF ToSet
    <3> QED BY <3>1, <3>2, DecodeTells
  <2> HIDE DEF rs, b, r
  <2>5. /\ {k \in DOMAIN rs : rs[k] \in P /\ Balance(rs[k])}
             = {k \in DOMAIN b : b[k] = i /\ r(k) \in {"some"}}
        /\ {k \in DOMAIN rs : rs[k] \in P /\ rs[k].error}
             = {k \in DOMAIN b : b[k] = i /\ r(k) \in Failures}
    BY <2>1, <2>4
  <2>6. \A kind : Answers(w, i, kind) = Cardinality({k \in DOMAIN b : b[k] = i /\ r(k) \in kind})
    BY <2>1 DEF Answers, b, r
  <2>7. /\ ToSet(balances[w]) \subseteq ToSet(rs) /\ ToSet(errors[w]) \subseteq ToSet(rs)
        /\ Count(balances[w], P) = Cardinality({k \in DOMAIN rs : rs[k] \in P /\ Balance(rs[k])})
        /\ Count(errors[w], P) = Cardinality({k \in DOMAIN rs : rs[k] \in P /\ rs[k].error})
    <3> HIDE DEF P
    <3>1. rs \in Seq(ToSet(rs))
      BY <2>1
    <3>2. /\ ToSet(BalancesOf(rs)) = {x \in ToSet(rs) : Balance(x)}
          /\ ToSet(ErrorsOf(rs)) = {x \in ToSet(rs) : x.error}
          /\ Count(BalancesOf(rs), P) =
               Cardinality({k \in DOMAIN rs : rs[k] \in P /\ Balance(rs[k])})
          /\ Count(ErrorsOf(rs), P) =
               Cardinality({k \in DOMAIN rs : rs[k] \in P /\ rs[k].error})
      BY <3>1, SortingCounts
    <3>3. balances[w] = BalancesOf(rs) /\ errors[w] = ErrorsOf(rs)
      BY <2>2
    <3>4. /\ ToSet(BalancesOf(rs)) \subseteq ToSet(rs)
          /\ ToSet(ErrorsOf(rs)) \subseteq ToSet(rs)
      BY <3>2
    <3> QED BY <3>2, <3>3, <3>4
  <2>8. ASSUME NEW s, ToSet(s) \subseteq ToSet(rs) PROVE Times(s, i) = Count(s, P)
    <3>1. \A k \in DOMAIN s : s[k] \in ToSet(rs)
      BY <2>8 DEF ToSet
    <3>2. {k \in DOMAIN s : s[k].item = i} = {k \in DOMAIN s : s[k] \in P}
      BY <3>1
    <3> QED BY <3>2 DEF Times, Count
  <2>9. Times(balances[w], i) = Count(balances[w], P) /\ Times(errors[w], i) = Count(errors[w], P)
    BY <2>7, <2>8
  <2> QED BY <2>3, <2>5, <2>6, <2>7, <2>9
<1> QED BY <1>2, <1>3

\* What a fetch returns has its type whatever the files and the replies are: only a
\* result with an amount is a balance, and an error has none.
THEOREM FetchTypes == Spec => []FetchTypeOK
<1> QED BY InitCourse, StepCourse, CourseTypes, PTL DEF Spec

\* However long the token file and whatever a node says of its tokens: each is asked
\* for as often as the file lists it on the chain, and told as a balance, as an error
\* or as nothing like each of those replies.  A batch that fails is one error.
THEOREM ItemsTold == Spec => []EveryItemTold
<1> QED BY InitCourse, StepCourse, CourseTold, PTL DEF Spec

-----------------------------------------------------------------------------
(* Powers: what a recursive function over the natural numbers is. *)

\* f has the powers of b up to n.
Powers(f, b, n) ==
  f \in [0..n -> Nat \ {0}] /\ f[0] = 1 /\ \A k \in 1..n : f[k] = b * f[k - 1]

LEMMA PowersExist ==
  ASSUME NEW b \in Nat \ {0}, NEW n \in Nat
  PROVE  \E f : Powers(f, b, n)
<1> DEFINE N == {m \in Nat : \E f : Powers(f, b, m)}
<1>1. 0 \in N
  <2>1. Powers([k \in 0..0 |-> 1], b, 0)
    BY DEF Powers
  <2> QED BY <2>1
<1>2. ASSUME NEW m \in Nat, m \in N PROVE m + 1 \in N
  <2>1. PICK f : Powers(f, b, m)
    BY <1>2
  <2> DEFINE g == [k \in 0..m + 1 |-> IF k = m + 1 THEN b * f[m] ELSE f[k]]
  <2>2. f[m] \in Nat \ {0} /\ b * f[m] \in Nat \ {0}
    BY <2>1 DEF Powers
  <2>3. g \in [0..m + 1 -> Nat \ {0}]
    BY <2>1, <2>2 DEF Powers
  <2>4. g[0] = 1
    BY <2>1 DEF Powers
  <2>5. ASSUME NEW k \in 1..m + 1 PROVE g[k] = b * g[k - 1]
    <3>1. k - 1 \in 0..m /\ k - 1 # m + 1 /\ k \in 0..m + 1 /\ k - 1 \in 0..m + 1
      OBVIOUS
    <3>2. g[k - 1] = f[k - 1]
      BY <3>1
    <3>3. CASE k = m + 1
      BY <3>1, <3>2, <3>3
    <3>4. CASE k # m + 1
      <4>1. k \in 1..m
        BY <3>4
      <4>2. g[k] = f[k] /\ f[k] = b * f[k - 1]
        BY <2>1, <3>1, <3>4, <4>1 DEF Powers
      <4> QED BY <3>2, <4>2
    <3> QED BY <3>3, <3>4
  <2>6. Powers(g, b, m + 1)
    <3> HIDE DEF g
    <3> QED BY <2>3, <2>4, <2>5 DEF Powers
  <2> QED BY <2>6
<1>3. Nat \subseteq N
  <2> HIDE DEF N
  <2> QED BY <1>1, <1>2, NaturalSteps
<1> QED BY <1>3

\* The function Power defines.
LEMMA PowerClimbs ==
  ASSUME NEW b \in Nat \ {0}
  PROVE  \E h \in [Nat -> Nat \ {0}] :
            h[0] = 1 /\ \A n \in Nat : h[n + 1] = b * h[n]
<1> DEFINE f(n) == CHOOSE g : Powers(g, b, n)
           h == [n \in Nat |-> f(n)[n]]
<1>1. ASSUME NEW n \in Nat PROVE Powers(f(n), b, n)
  BY PowersExist
<1> HIDE DEF f
<1>2. ASSUME NEW n \in Nat PROVE h[n] \in Nat \ {0}
  BY <1>1 DEF Powers
<1>3. h[0] = 1
  BY <1>1 DEF Powers
<1>4. ASSUME NEW n \in Nat PROVE h[n + 1] = b * h[n]
  <2> DEFINE M == {k \in Nat : k <= n => f(n)[k] = f(n + 1)[k]}
  <2>1. 0 \in M
    <3>1. n + 1 \in Nat
      OBVIOUS
    <3>2. f(n)[0] = 1 /\ f(n + 1)[0] = 1
      BY <1>1, <3>1 DEF Powers
    <3> QED BY <3>2
  <2>2. ASSUME NEW k \in Nat, k \in M PROVE k + 1 \in M
    <3> SUFFICES ASSUME k + 1 <= n PROVE f(n)[k + 1] = f(n + 1)[k + 1]
      OBVIOUS
    <3>1. k + 1 \in 1..n /\ k + 1 \in 1..n + 1 /\ (k + 1) - 1 = k /\ k <= n
      OBVIOUS
    <3>2. f(n)[k + 1] = b * f(n)[k]
      BY <1>1, <3>1 DEF Powers
    <3>3. f(n + 1)[k + 1] = b * f(n + 1)[k]
      BY <1>1, <3>1 DEF Powers
    <3> QED BY <2>2, <3>1, <3>2, <3>3
  <2>3. Nat \subseteq M
    <3> HIDE DEF M
    <3> QED BY <2>1, <2>2, NaturalSteps
  <2>4. f(n)[n] = f(n + 1)[n]
    BY <2>3
  <2>5. n + 1 \in 1..n + 1 /\ (n + 1) - 1 = n /\ n + 1 \in Nat
    OBVIOUS
  <2>6. f(n + 1)[n + 1] = b * f(n + 1)[n]
    BY <1>1, <2>5 DEF Powers
  <2> QED BY <2>4, <2>6
<1>5. h \in [Nat -> Nat \ {0}]
  BY <1>2
<1> HIDE DEF h
<1> QED BY <1>3, <1>4, <1>5

\* The equations of Power.
LEMMA PowerFacts ==
  ASSUME NEW b \in Nat \ {0}
  PROVE  /\ Power(b, 0) = 1
         /\ \A n \in Nat : Power(b, n) \in Nat \ {0} /\ Power(b, n + 1) = b * Power(b, n)
<1>1. PICK h \in [Nat -> Nat \ {0}] : h[0] = 1 /\ \A n \in Nat : h[n + 1] = b * h[n]
  BY PowerClimbs
<1>2. ASSUME NEW f, f = [k \in Nat |-> IF k = 0 THEN 1 ELSE b * f[k - 1]]
      PROVE  f = h
  <2>1. f[0] = 1
    BY <1>2
  <2>2. ASSUME NEW n \in Nat PROVE f[n + 1] = b * f[n]
    <3>1. n + 1 \in Nat /\ n + 1 # 0 /\ (n + 1) - 1 = n
      OBVIOUS
    <3> QED BY <1>2, <3>1
  <2> DEFINE M == {n \in Nat : f[n] = h[n]}
  <2>3. 0 \in M
    BY <1>1, <2>1
  <2>4. ASSUME NEW n \in Nat, n \in M PROVE n + 1 \in M
    BY <1>1, <2>2, <2>4
  <2>5. Nat \subseteq M
    <3> HIDE DEF M
    <3> QED BY <2>3, <2>4, NaturalSteps
  <2>6. DOMAIN f = Nat /\ f = [n \in DOMAIN f |-> f[n]]
    <3> DEFINE g == [k \in Nat |-> IF k = 0 THEN 1 ELSE b * f[k - 1]]
    <3>1. DOMAIN g = Nat /\ g = [n \in DOMAIN g |-> g[n]]
      OBVIOUS
    <3>2. f = g
      BY <1>2
    <3> HIDE DEF g
    <3> QED BY <3>1, <3>2
  <2>7. f = [n \in Nat |-> h[n]]
    BY <2>5, <2>6
  <2> QED BY <1>1, <2>7
<1>3. h = [k \in Nat |-> IF k = 0 THEN 1 ELSE b * h[k - 1]]
  <2>1. ASSUME NEW k \in Nat PROVE h[k] = IF k = 0 THEN 1 ELSE b * h[k - 1]
    <3>1. CASE k = 0
      BY <1>1, <3>1
    <3>2. CASE k # 0
      <4>1. k - 1 \in Nat /\ (k - 1) + 1 = k
        BY <3>2
      <4>2. h[(k - 1) + 1] = b * h[k - 1]
        BY <1>1, <4>1
      <4> QED BY <3>2, <4>1, <4>2
    <3> QED BY <3>1, <3>2
  <2> QED BY <1>1, <2>1
<1>4. \A f : f = [k \in Nat |-> IF k = 0 THEN 1 ELSE b * f[k - 1]] <=> f = h
  BY <1>2, <1>3, Zenon
<1>5. \A n : Power(b, n) = h[n]
  BY <1>4 DEF Power
<1> QED BY <1>1, <1>5

\* The law of exponents, and how the powers of two grow.
LEMMA PowerSum ==
  ASSUME NEW b \in Nat \ {0}
  PROVE  \A m, n \in Nat : Power(b, m + n) = Power(b, m) * Power(b, n)
<1> SUFFICES ASSUME NEW m \in Nat
             PROVE  \A n \in Nat : Power(b, m + n) = Power(b, m) * Power(b, n)
  OBVIOUS
<1> DEFINE N == {n \in Nat : Power(b, m + n) = Power(b, m) * Power(b, n)}
<1>1. 0 \in N
  <2>1. Power(b, m) \in Nat /\ Power(b, 0) = 1 /\ m + 0 = m
    BY PowerFacts
  <2>2. Power(b, m + 0) = Power(b, m) * Power(b, 0)
    BY <2>1
  <2> QED BY <2>2
<1>2. ASSUME NEW n \in Nat, n \in N PROVE n + 1 \in N
  <2> DEFINE x == Power(b, m)
             y == Power(b, n)
  <2>1. /\ Power(b, (m + n) + 1) = b * Power(b, m + n)
        /\ Power(b, n + 1) = b * y /\ x \in Nat /\ y \in Nat
    <3>1. m + n \in Nat
      OBVIOUS
    <3> QED BY <3>1, PowerFacts
  <2>2. Power(b, m + n) = x * y /\ m + (n + 1) = (m + n) + 1
    BY <1>2
  <2> HIDE DEF x, y
  <2>3. b * (x * y) = x * (b * y)
    BY <2>1
  <2>4. Power(b, m + (n + 1)) = x * Power(b, n + 1)
    BY <2>1, <2>2, <2>3
  <2> QED BY <2>4 DEF x
<1>3. Nat \subseteq N
  <2> HIDE DEF N
  <2> QED BY <1>1, <1>2, NaturalSteps
<1> QED BY <1>3

LEMMA PowersOfTwo ==
  /\ \A n \in Nat : Power(2, n) \in Nat \ {0} /\ Power(2, n + 1) = 2 * Power(2, n)
                   /\ n < Power(2, n)
  /\ \A m, n \in Nat : m < n => 2 * Power(2, m) <= Power(2, n)
  /\ Power(2, 0) = 1 /\ Power(2, 1) = 2
<1>1. /\ Power(2, 0) = 1
      /\ \A n \in Nat : Power(2, n) \in Nat \ {0} /\ Power(2, n + 1) = 2 * Power(2, n)
  BY PowerFacts
<1> DEFINE N == {n \in Nat : n < Power(2, n)}
<1>2. Nat \subseteq N
  <2>1. 0 \in N /\ \A n \in Nat : n \in N => n + 1 \in N
    BY <1>1
  <2> HIDE DEF N
  <2> QED BY <2>1, NaturalSteps
<1>3. ASSUME NEW m \in Nat, NEW n \in Nat, m < n PROVE 2 * Power(2, m) <= Power(2, n)
  <2> DEFINE k == n - (m + 1)
             x == Power(2, m + 1)
             y == Power(2, k)
  <2>1. k \in Nat /\ m + 1 \in Nat /\ n = (m + 1) + k
    BY <1>3
  <2>2. x \in Nat \ {0} /\ y \in Nat \ {0} /\ x = 2 * Power(2, m)
    BY <1>1, <2>1
  <2>3. Power(2, n) = x * y
    <3> HIDE DEF k
    <3>1. \A i, j \in Nat : Power(2, i + j) = Power(2, i) * Power(2, j)
      BY PowerSum
    <3> QED BY <2>1, <3>1
  <2> HIDE DEF x, y
  <2>4. x <= x * y
    BY <2>2
  <2> QED BY <2>2, <2>3, <2>4
<1>4. Power(2, 1) = 2
  <2>1. Power(2, 0 + 1) = 2 * Power(2, 0) /\ 0 + 1 = 1
    BY <1>1
  <2> QED BY <1>1, <2>1
<1> QED BY <1>1, <1>2, <1>3, <1>4

-----------------------------------------------------------------------------
(* Bits, and rounding to the nearest, halves to even. *)

LEMMA Divide ==
  ASSUME NEW n \in Nat, NEW d \in Nat \ {0}
  PROVE  n \div d \in Nat /\ n % d \in 0..d - 1 /\ n = d * (n \div d) + (n % d)
OBVIOUS

\* b is the number of bits of n.
Bits(n, b) == b \in Nat /\ n < Power(2, b) /\ (b > 0 => Power(2, b - 1) <= n)

LEMMA BitLenFacts ==
  ASSUME NEW n \in Nat
  PROVE  Bits(n, BitLen(n)) /\ BitLen(n) <= n
<1> DEFINE S == {b \in Nat : n < Power(2, b)}
<1>1. n \in S
  BY PowersOfTwo
<1>2. PICK b \in S : \A c \in S : b <= c
  BY <1>1, LeastNatural
<1>3. b \in 0..n /\ n < Power(2, b)
  BY <1>1, <1>2
<1>4. ASSUME b > 0 PROVE Power(2, b - 1) <= n
  <2>1. b - 1 \in Nat /\ b - 1 \notin S
    BY <1>2, <1>4
  <2>2. Power(2, b - 1) \in Nat
    BY <2>1, PowersOfTwo
  <2> QED BY <2>1, <2>2
<1>5. \E c \in 0..n : n < Power(2, c) /\ (c > 0 => Power(2, c - 1) <= n)
  BY <1>3, <1>4
<1>6. /\ BitLen(n) \in 0..n /\ n < Power(2, BitLen(n))
      /\ BitLen(n) > 0 => Power(2, BitLen(n) - 1) <= n
  BY <1>5 DEF BitLen
<1> QED BY <1>6 DEF Bits

\* More bits than n has hold it, and no fewer do.
LEMMA BitsHold ==
  ASSUME NEW n \in Nat
  PROVE  /\ \A p \in Nat : p >= BitLen(n) => n < Power(2, p)
         /\ \A p \in Nat : n < Power(2, p) => p >= BitLen(n)
         /\ n > 0 => BitLen(n) > 0
<1> DEFINE b == BitLen(n)
<1>1. b \in Nat /\ n < Power(2, b) /\ (b > 0 => Power(2, b - 1) <= n)
  BY BitLenFacts DEF Bits
<1> HIDE DEF b
<1>2. ASSUME NEW p \in Nat, p >= b PROVE n < Power(2, p)
  <2>1. p = b \/ b < p
    BY <1>1, <1>2
  <2>2. Power(2, b) \in Nat /\ Power(2, p) \in Nat /\ (b < p => 2 * Power(2, b) <= Power(2, p))
    BY <1>1, PowersOfTwo
  <2> QED BY <1>1, <2>1, <2>2
<1>3. ASSUME NEW p \in Nat, n < Power(2, p) PROVE p >= b
  <2> SUFFICES ASSUME p < b PROVE FALSE
    BY <1>1
  <2>1. b - 1 \in Nat /\ (p = b - 1 \/ p < b - 1)
    BY <1>1
  <2>2. /\ Power(2, b - 1) \in Nat /\ Power(2, p) \in Nat
        /\ p < b - 1 => 2 * Power(2, p) <= Power(2, b - 1)
    BY <2>1, PowersOfTwo
  <2> QED BY <1>1, <1>3, <2>1, <2>2
<1>4. n > 0 => b > 0
  <2>1. Power(2, 0) = 1
    BY PowersOfTwo
  <2> QED BY <1>1, <2>1
<1> QED BY <1>2, <1>3, <1>4 DEF b

\* What is left of n / d when it is rounded to q: at most a half, and at a half q
\* is even.
Rounds(q, n, d) ==
  /\ q \in Nat /\ 2 * (q * d) <= 2 * n + d /\ 2 * n <= 2 * (q * d) + d
  /\ 2 * (q * d) = 2 * n + d \/ 2 * n = 2 * (q * d) + d => q % 2 = 0

LEMMA RoundedFacts ==
  ASSUME NEW n \in Nat, NEW d \in Nat \ {0}
  PROVE  Rounds(RoundedQuotient(n, d), n, d)
<1> DEFINE q == n \div d
           r == n % d
           up == 2 * r > d \/ (2 * r = d /\ q % 2 = 1)
<1>1. q \in Nat /\ r \in 0..d - 1 /\ n = d * q + r
  BY Divide
<1>2. RoundedQuotient(n, d) = IF up THEN q + 1 ELSE q
  BY DEF RoundedQuotient
<1> HIDE DEF q, r
<1>3. d * q = q * d /\ (q + 1) * d = q * d + d /\ q * d \in Nat
  BY <1>1
<1> DEFINE x == q * d
<1>4. n = x + r /\ x \in Nat /\ (q + 1) * d = x + d
  BY <1>1, <1>3
<1>5. q % 2 = 1 => (q + 1) % 2 = 0
  BY <1>1
<1>6. CASE up
  <2>1. (q + 1) * d = x + d /\ q + 1 \in Nat
    BY <1>1, <1>4
  <2> HIDE DEF x
  <2> DEFINE y == (q + 1) * d
  <2>2. Rounds(q + 1, n, d)
    <3>1. y = x + d
      BY <2>1
    <3> HIDE DEF y
    <3>2. 2 * y <= 2 * n + d /\ 2 * n <= 2 * y + d
      BY <1>1, <1>4, <1>6, <3>1
    <3>3. 2 * y = 2 * n + d \/ 2 * n = 2 * y + d => (q + 1) % 2 = 0
      BY <1>1, <1>4, <1>5, <1>6, <3>1
    <3> QED BY <2>1, <3>2, <3>3 DEF Rounds, y
  <2> QED BY <1>2, <1>6, <2>2
<1>7. CASE ~up
  <2>1. q % 2 = 0 \/ q % 2 = 1
    BY <1>1
  <2> HIDE DEF x
  <2>2. 2 * x <= 2 * n + d /\ 2 * n <= 2 * x + d
    BY <1>1, <1>4, <1>7
  <2>3. 2 * x = 2 * n + d \/ 2 * n = 2 * x + d => q % 2 = 0
    BY <1>1, <1>4, <1>7, <2>1
  <2>4. Rounds(q, n, d)
    BY <1>1, <2>2, <2>3 DEF Rounds, x
  <2> QED BY <1>2, <1>7, <2>4
<1> QED BY <1>6, <1>7

\* A larger quotient is not rounded to less.
LEMMA RoundsMonotone ==
  ASSUME NEW n \in Nat, NEW d \in Nat \ {0}, NEW n1 \in Nat, NEW d1 \in Nat \ {0},
         n * d1 <= n1 * d, NEW q, NEW q1, Rounds(q, n, d), Rounds(q1, n1, d1)
  PROVE  q <= q1
<1> SUFFICES ASSUME q1 < q PROVE FALSE
  BY DEF Rounds
<1>1. q \in Nat /\ q1 \in Nat
  BY DEF Rounds
<1> DEFINE X  == (2 * n) * d1
           X1 == (2 * n1) * d
           D  == d * d1
           Y  == (2 * q - 1) * D
           Y1 == (2 * q1 + 1) * D
<1>2. D \in Nat \ {0} /\ X \in Nat /\ X1 \in Nat /\ Y \in Int /\ Y1 \in Int
  BY <1>1
<1>3. X <= X1
  <2>1. X = 2 * (n * d1) /\ X1 = 2 * (n1 * d) /\ n * d1 \in Nat /\ n1 * d \in Nat
    OBVIOUS
  <2> QED BY <2>1
<1>4. Y <= X /\ (Y = X => q % 2 = 0)
  <2> DEFINE a == (2 * q - 1) * d
             c == 2 * n
  <2>1. a = 2 * (q * d) - d /\ a \in Int
    BY <1>1
  <2>2. a <= c /\ (a = c => q % 2 = 0)
    <3>1. q * d \in Nat
      BY <1>1
    <3> HIDE DEF a
    <3> QED BY <2>1, <3>1 DEF Rounds
  <2>3. Y = a * d1 /\ X = c * d1
    BY <1>1
  <2> HIDE DEF a, c
  <2>4. c \in Nat
    BY DEF c
  <2>5. a * d1 <= c * d1 /\ (a * d1 = c * d1 => a = c)
    BY <2>1, <2>2, <2>4
  <2> QED BY <2>2, <2>3, <2>5
<1>5. X1 <= Y1 /\ (X1 = Y1 => q1 % 2 = 0)
  <2> DEFINE a == (2 * q1 + 1) * d1
             c == 2 * n1
  <2>1. a = 2 * (q1 * d1) + d1 /\ a \in Int
    BY <1>1
  <2>2. c <= a /\ (a = c => q1 % 2 = 0)
    <3>1. q1 * d1 \in Nat
      BY <1>1
    <3> HIDE DEF a
    <3> QED BY <2>1, <3>1 DEF Rounds
  <2>3. Y1 = a * d /\ X1 = c * d
    BY <1>1
  <2> HIDE DEF a, c
  <2>4. c \in Nat
    BY DEF c
  <2>5. c * d <= a * d /\ (a * d = c * d => a = c)
    BY <2>1, <2>2, <2>4
  <2> QED BY <2>2, <2>3, <2>5
<1>6. q = q1 + 1 /\ Y = Y1
  <2>1. 2 * q - 1 >= 2 * q1 + 1
    BY <1>1
  <2>2. Y >= Y1
    BY <1>1, <1>2, <2>1
  <2>3. Y = Y1
    <3> HIDE DEF X, X1, Y, Y1
    <3> QED BY <1>2, <1>3, <1>4, <1>5, <2>2
  <2>4. 2 * q - 1 = 2 * q1 + 1
    BY <1>1, <1>2, <2>3
  <2> QED BY <1>1, <2>3, <2>4
<1>7. Y = X /\ X1 = Y1
  <2> HIDE DEF X, X1, Y, Y1
  <2> QED BY <1>2, <1>3, <1>4, <1>5, <1>6
<1>8. q % 2 = 0 /\ q1 % 2 = 0
  <2> HIDE DEF X, X1, Y, Y1
  <2> QED BY <1>4, <1>5, <1>7
<1> QED BY <1>1, <1>6, <1>8

LEMMA RoundedMonotone ==
  ASSUME NEW n \in Nat, NEW d \in Nat \ {0}, NEW n1 \in Nat, NEW d1 \in Nat \ {0},
         n * d1 <= n1 * d
  PROVE  RoundedQuotient(n, d) <= RoundedQuotient(n1, d1)
<1>1. Rounds(RoundedQuotient(n, d), n, d) /\ Rounds(RoundedQuotient(n1, d1), n1, d1)
  BY RoundedFacts
<1> QED BY <1>1, RoundsMonotone

\* A quotient without a rest is not rounded, and neither is it past a whole number.
LEMMA RoundedExact ==
  ASSUME NEW q \in Nat, NEW d \in Nat \ {0}
  PROVE  /\ RoundedQuotient(q * d, d) = q
         /\ \A n \in Nat : q * d <= n => q <= RoundedQuotient(n, d)
         /\ \A n \in Nat : n <= q * d => RoundedQuotient(n, d) <= q
<1>1. RoundedQuotient(q * d, d) = q
  <2> DEFINE n == q * d
             x == RoundedQuotient(n, d)
             a == x * d
  <2>1. n \in Nat
    OBVIOUS
  <2> HIDE DEF n
  <2>2. x \in Nat /\ 2 * a <= 2 * n + d /\ 2 * n <= 2 * a + d
    BY <2>1, RoundedFacts DEF Rounds
  <2> HIDE DEF x
  <2>3. a = n
    <3> SUFFICES ASSUME x # q PROVE FALSE
      BY DEF n
    <3>1. CASE x < q
      <4>1. x + 1 <= q
        BY <2>2, <3>1
      <4>2. (x + 1) * d <= q * d /\ (x + 1) * d = x * d + d
        BY <2>2, <4>1
      <4>3. n >= a + d /\ a \in Nat
        BY <2>2, <4>2 DEF n
      <4> HIDE DEF a
      <4> QED BY <2>1, <2>2, <4>3
    <3>2. CASE x > q
      <4>1. q + 1 <= x
        BY <2>2, <3>2
      <4>2. (q + 1) * d <= x * d /\ (q + 1) * d = q * d + d
        BY <2>2, <4>1
      <4>3. a >= n + d /\ a \in Nat
        BY <2>2, <4>2 DEF n
      <4> HIDE DEF a
      <4> QED BY <2>1, <2>2, <4>3
    <3> QED BY <2>2, <3>1, <3>2
  <2>4. x = q
    BY <2>2, <2>3 DEF n
  <2> QED BY <2>4 DEF x, n
<1>2. ASSUME NEW n \in Nat, q * d <= n PROVE q <= RoundedQuotient(n, d)
  <2> DEFINE m == q * d
  <2>1. m \in Nat /\ m * d <= n * d
    BY <1>2
  <2> HIDE DEF m
  <2>2. RoundedQuotient(m, d) <= RoundedQuotient(n, d)
    BY <2>1, RoundedMonotone
  <2> QED BY <1>1, <2>2 DEF m
<1>3. ASSUME NEW n \in Nat, n <= q * d PROVE RoundedQuotient(n, d) <= q
  <2> DEFINE m == q * d
  <2>1. m \in Nat /\ n * d <= m * d
    BY <1>3
  <2> HIDE DEF m
  <2>2. RoundedQuotient(n, d) <= RoundedQuotient(m, d)
    BY <2>1, RoundedMonotone
  <2> QED BY <1>1, <2>2 DEF m
<1> QED BY <1>1, <1>2, <1>3

-----------------------------------------------------------------------------
(* Quotients: a precision, an exponent and a rounding. *)

\* Both operands of a quotient fit its precision.
LEMMA PrecisionFacts ==
  ASSUME NEW n \in Nat, NEW d \in Nat
  PROVE  /\ Precision(n, d) \in Nat \ {0} /\ Precision(n, d) >= FloatBits
         /\ Precision(n, d) >= BitLen(n) /\ Precision(n, d) >= BitLen(d)
         /\ n < Power(2, Precision(n, d)) /\ d < Power(2, Precision(n, d))
         /\ Precision(n, d) \in {FloatBits, BitLen(n), BitLen(d)}
<1> DEFINE S == {FloatBits, BitLen(n), BitLen(d)}
           p == Precision(n, d)
<1>1. FloatBits \in Nat \ {0} /\ BitLen(n) \in Nat /\ BitLen(d) \in Nat
  BY AmountsAssumption, BitLenFacts DEF Bits
<1>2. \E e \in S : e >= FloatBits /\ e >= BitLen(n) /\ e >= BitLen(d)
  BY <1>1
<1>3. p \in S /\ p >= FloatBits /\ p >= BitLen(n) /\ p >= BitLen(d)
  BY <1>2 DEF Precision
<1> HIDE DEF p
<1>4. p \in Nat \ {0}
  BY <1>1, <1>3
<1>5. n < Power(2, p) /\ d < Power(2, p)
  BY <1>3, <1>4, BitsHold
<1> QED BY <1>3, <1>4, <1>5 DEF p

\* The exponent of a quotient: it gives the quotient p bits.
Scales(k, n, d, p) ==
  k \in Nat /\ d * Power(2, p - 1) <= n * Power(2, k) /\ n * Power(2, k) < d * Power(2, p)

LEMMA ScaleExists ==
  ASSUME NEW n \in Nat \ {0}, NEW d \in Nat \ {0}, NEW p \in Nat \ {0}, n < Power(2, p)
  PROVE  \E k \in 0..(p + BitLen(d)) : Scales(k, n, d, p)
<1> DEFINE P == Power(2, p - 1)
           S == {k \in Nat : d * P <= n * Power(2, k)}
           b == BitLen(d)
<1>1. P \in Nat \ {0} /\ Power(2, p) = 2 * P /\ p - 1 \in Nat
  <2>1. p - 1 \in Nat /\ (p - 1) + 1 = p
    OBVIOUS
  <2> QED BY <2>1, PowersOfTwo
<1>2. b \in Nat /\ d < Power(2, b)
  BY BitLenFacts DEF Bits
<1>3. p + b \in S
  <2> DEFINE B == Power(2, b)
             K == Power(2, p + b)
  <2>1. B \in Nat /\ p + b \in Nat /\ K = (2 * P) * B
    <3>1. \A i, j \in Nat : Power(2, i + j) = Power(2, i) * Power(2, j)
      BY PowerSum
    <3> HIDE DEF b
    <3> QED BY <1>1, <1>2, <3>1, PowersOfTwo
  <2> HIDE DEF P, b, B, K
  <2>2. d * P <= B * P
    BY <1>1, <1>2, <2>1 DEF B
  <2>3. B * P <= K /\ K \in Nat
    BY <1>1, <2>1
  <2>4. K <= n * K
    BY <2>3
  <2>5. d * P <= n * K
    BY <1>1, <2>1, <2>2, <2>3, <2>4
  <2> QED BY <2>1, <2>5 DEF K
<1> HIDE DEF b
<1>4. PICK k \in S : \A j \in S : k <= j
  <2> HIDE DEF S
  <2> QED BY <1>3, LeastNatural DEF S
<1>5. k \in 0..(p + b)
  BY <1>3, <1>4
<1>6. n * Power(2, k) < d * Power(2, p)
  <2>1. CASE k = 0
    <3>1. Power(2, 0) = 1 /\ Power(2, p) \in Nat
      BY PowersOfTwo
    <3> DEFINE Q == Power(2, p)
    <3>2. Q <= d * Q
      BY <3>1
    <3> QED BY <2>1, <3>1, <3>2
  <2>2. CASE k # 0
    <3> DEFINE K == Power(2, k - 1)
    <3>1. k - 1 \in Nat /\ (k - 1) + 1 = k /\ k - 1 \notin S
      BY <1>4, <2>2
    <3>2. K \in Nat /\ Power(2, k) = 2 * K
      BY <3>1, PowersOfTwo
    <3>3. ~(d * P <= n * K)
      BY <3>1
    <3> HIDE DEF K, P, S
    <3>4. n * K < d * P
      BY <1>1, <3>2, <3>3
    <3>5. n * (2 * K) = 2 * (n * K) /\ d * (2 * P) = 2 * (d * P)
      BY <1>1, <3>2
    <3>6. n * K \in Nat /\ d * P \in Nat
      BY <1>1, <3>2
    <3> QED BY <1>1, <3>2, <3>4, <3>5, <3>6
  <2> QED BY <2>1, <2>2
<1>7. Scales(k, n, d, p)
  BY <1>4, <1>6 DEF Scales
<1> QED BY <1>5, <1>7 DEF b

\* f is the quotient of n and d, of p bits.
Divides(f, n, d, p) ==
  /\ f = [m |-> f.m, k |-> f.k] /\ Scales(f.k, n, d, p)
  /\ f.m = RoundedQuotient(n * Power(2, f.k), d)

LEMMA QuotientFacts ==
  ASSUME NEW n \in Nat \ {0}, NEW d \in Nat \ {0}
  PROVE  Divides(Quotient(n, d), n, d, Precision(n, d))
<1> DEFINE p == Precision(n, d)
           K(e) == /\ d * Power(2, p - 1) <= n * Power(2, e)
                   /\ n * Power(2, e) < d * Power(2, p)
           k == CHOOSE e \in 0..(p + BitLen(d)) : K(e)
<1>1. p \in Nat \ {0} /\ n < Power(2, p)
  BY PrecisionFacts
<1>2. BitLen(d) \in Nat
  BY BitLenFacts DEF Bits
<1>3. k \in 0..(p + BitLen(d)) /\ K(k)
  <2> HIDE DEF p
  <2>1. \E e \in 0..(p + BitLen(d)) : K(e)
    BY <1>1, ScaleExists DEF Scales
  <2> HIDE DEF K
  <2> QED BY <2>1
<1>4. Quotient(n, d) = [m |-> RoundedQuotient(n * Power(2, k), d), k |-> k]
  BY DEF Quotient
<1> HIDE DEF k, p
<1>5. Scales(k, n, d, p)
  BY <1>1, <1>2, <1>3 DEF Scales
<1> DEFINE m == RoundedQuotient(n * Power(2, k), d)
<1>6. Quotient(n, d) = [m |-> m, k |-> k] /\ m = RoundedQuotient(n * Power(2, k), d)
  BY <1>4
<1> HIDE DEF m
<1>7. Divides([m |-> m, k |-> k], n, d, p)
  BY <1>5, <1>6 DEF Divides
<1> QED BY <1>6, <1>7, Zenon DEF p

-----------------------------------------------------------------------------
(* FormatBigInt: a quotient is rounded, and so is its product with what it was    *)
(* divided by.  The precision and the exponent keep the second off the amount by  *)
(* one at most.                                                                   *)

\* What is shown of n with as many decimals as d = 10^decimals has zeros.
Shown(f, d) == RoundedQuotient(f.m * d, Power(2, f.k))

\* The powers a precision is about, and the two roundings of what is shown.
LEMMA ShownRounds ==
  ASSUME NEW n \in Nat \ {0}, NEW d \in Nat \ {0}, NEW p \in Nat \ {0}, NEW f,
         Divides(f, n, d, p)
  PROVE  /\ Power(2, p - 1) \in Nat \ {0} /\ Power(2, p) = 2 * Power(2, p - 1)
         /\ Power(2, f.k) \in Nat \ {0} /\ f.m \in Nat
         /\ d * Power(2, p - 1) <= n * Power(2, f.k)
         /\ n * Power(2, f.k) < d * (2 * Power(2, p - 1))
         /\ Rounds(f.m, n * Power(2, f.k), d)
         /\ Rounds(Shown(f, d), f.m * d, Power(2, f.k))
<1> DEFINE K == Power(2, f.k)
           m == f.m
<1>1. Power(2, p - 1) \in Nat \ {0} /\ Power(2, p) = 2 * Power(2, p - 1)
  <2>1. p - 1 \in Nat /\ (p - 1) + 1 = p
    OBVIOUS
  <2> QED BY <2>1, PowersOfTwo
<1>2. /\ f.k \in Nat /\ d * Power(2, p - 1) <= n * K /\ n * K < d * Power(2, p)
      /\ m = RoundedQuotient(n * K, d)
  BY DEF Divides, Scales
<1>3. K \in Nat \ {0}
  BY <1>2, PowersOfTwo
<1> HIDE DEF K, m
<1>4. n * K \in Nat
  BY <1>3
<1>5. Rounds(m, n * K, d)
  BY <1>2, <1>4, RoundedFacts
<1>6. m \in Nat
  BY <1>5 DEF Rounds
<1>7. m * d \in Nat
  BY <1>6
<1>8. Rounds(RoundedQuotient(m * d, K), m * d, K)
  BY <1>3, <1>7, RoundedFacts
<1> QED BY <1>1, <1>2, <1>3, <1>5, <1>6, <1>8 DEF Shown, K, m

LEMMA ShownIsClose ==
  ASSUME NEW n \in Nat \ {0}, NEW d \in Nat \ {0}, NEW p \in Nat \ {0}, NEW f,
         Divides(f, n, d, p), n < Power(2, p)
  PROVE  /\ Shown(f, d) \in Nat /\ Shown(f, d) \in n - 1..n + 1
         /\ n < Power(2, p - 1) => Shown(f, d) = n
<1> DEFINE K == Power(2, f.k)
           P == Power(2, p - 1)
           m == f.m
           s == Shown(f, d)
<1>1. /\ P \in Nat \ {0} /\ Power(2, p) = 2 * P /\ K \in Nat \ {0} /\ m \in Nat
      /\ d * P <= n * K /\ Rounds(m, n * K, d) /\ Rounds(s, m * d, K)
  BY ShownRounds
<1> HIDE DEF K, P, m, s
<1>2. n * K \in Nat /\ m * d \in Nat /\ s * K \in Nat /\ s \in Nat
  BY <1>1 DEF Rounds
<1>3. 2 * (s * K) <= 2 * (n * K) + (d + K) /\ 2 * (n * K) <= 2 * (s * K) + (d + K)
  BY <1>1, <1>2 DEF Rounds
<1>4. d < 2 * K
  <2> SUFFICES ASSUME 2 * K <= d PROVE FALSE
    BY <1>1
  <2>1. (2 * K) * P <= d * P
    BY <1>1
  <2>2. n * K < (2 * P) * K
    BY <1>1
  <2>3. (2 * P) * K = (2 * K) * P
    BY <1>1
  <2>4. d * P \in Nat /\ n * K \in Nat /\ (2 * P) * K \in Nat
    BY <1>1
  <2> QED BY <1>1, <2>1, <2>2, <2>3, <2>4
<1>5. n < P => d < K
  <2> SUFFICES ASSUME n < P, K <= d PROVE FALSE
    BY <1>1
  <2>1. K * P <= d * P
    BY <1>1
  <2>2. n * K < P * K
    BY <1>1
  <2>3. P * K = K * P /\ K * P \in Nat /\ d * P \in Nat /\ n * K \in Nat
    BY <1>1
  <2> QED BY <1>1, <2>1, <2>2, <2>3
<1>6. s - n \in Int /\ (s - n) * K = s * K - n * K
  BY <1>1, <1>2
<1> DEFINE e == s - n
<1>7. 2 * (e * K) < 3 * K /\ -(3 * K) < 2 * (e * K) /\ e * K \in Int
  BY <1>1, <1>2, <1>3, <1>4, <1>6
<1>8. n < P => 2 * (e * K) < 2 * K /\ -(2 * K) < 2 * (e * K)
  BY <1>1, <1>2, <1>3, <1>5, <1>6
<1> HIDE DEF e
<1>9. e \in Int
  BY <1>6 DEF e
<1>10. e <= 1
  <2> SUFFICES ASSUME e >= 2 PROVE FALSE
    BY <1>9
  <2>1. e * K >= 2 * K
    BY <1>1, <1>9
  <2> QED BY <1>1, <1>7, <2>1
<1>11. e >= -1
  <2> SUFFICES ASSUME e <= -2 PROVE FALSE
    BY <1>9
  <2>1. e * K <= (-2) * K
    BY <1>1, <1>9
  <2> QED BY <1>1, <1>7, <2>1
<1>12. n < P => e = 0
  <2> SUFFICES ASSUME n < P, e # 0 PROVE FALSE
    OBVIOUS
  <2>1. e * K >= K \/ e * K <= -K
    <3>1. e >= 1 \/ e <= -1
      BY <1>9
    <3> QED BY <1>1, <1>9, <3>1
  <2> QED BY <1>1, <1>7, <1>8, <2>1
<1>13. s \in n - 1..n + 1 /\ (n < P => s = n)
  BY <1>2, <1>10, <1>11, <1>12 DEF e
<1> QED BY <1>2, <1>13 DEF s, P

\* No amount but 0 is shown as 0.
LEMMA ShownIsSome ==
  ASSUME NEW n \in Nat \ {0}, NEW d \in Nat \ {0}, d > 2, NEW p \in Nat \ {0}, NEW f,
         Divides(f, n, d, p), n < Power(2, p), d < Power(2, p)
  PROVE  Shown(f, d) # 0
<1>1. /\ Shown(f, d) \in n - 1..n + 1
      /\ n < Power(2, p - 1) => Shown(f, d) = n
  BY ShownIsClose
<1>2. CASE n = 1
  <2>1. Power(2, p - 1) \in Nat /\ Power(2, p) = 2 * Power(2, p - 1)
    BY ShownRounds
  <2> QED BY <1>1, <1>2, <2>1
<1> QED BY <1>1, <1>2

\* Of two amounts with the same precision the larger is not shown as less.
LEMMA ShownGrows ==
  ASSUME NEW n \in Nat \ {0}, NEW d \in Nat \ {0}, NEW p \in Nat \ {0}, NEW f, NEW g,
         Divides(f, n, d, p), Divides(g, n + 1, d, p)
  PROVE  Shown(f, d) <= Shown(g, d)
<1> DEFINE K == Power(2, f.k)
           L == Power(2, g.k)
           P == Power(2, p - 1)
           m == f.m
           l == g.m
<1>0. n + 1 \in Nat \ {0}
  OBVIOUS
<1>1. /\ P \in Nat \ {0} /\ K \in Nat \ {0} /\ L \in Nat \ {0}
      /\ m \in Nat /\ l \in Nat
      /\ d * P <= n * K /\ n * K < d * (2 * P)
      /\ d * P <= (n + 1) * L /\ (n + 1) * L < d * (2 * P)
  BY <1>0, ShownRounds
<1>2. /\ f.k \in Nat /\ g.k \in Nat
      /\ f.k < g.k => 2 * K <= L
      /\ g.k < f.k => 2 * L <= K
  <2>1. f.k \in Nat /\ g.k \in Nat
    BY DEF Divides, Scales
  <2> QED BY <2>1, PowersOfTwo
<1>3. m = RoundedQuotient(n * K, d) /\ l = RoundedQuotient((n + 1) * L, d)
  BY DEF Divides
<1>4. f.k = g.k => K = L
  BY Zenon
<1> HIDE DEF K, L, P, m, l
<1>5. ~(f.k < g.k)
  <2> SUFFICES ASSUME 2 * K <= L PROVE FALSE
    BY <1>2
  <2>1. (n + 1) * (2 * K) <= (n + 1) * L
    BY <1>1
  <2>2. (n + 1) * (2 * K) = 2 * (n * K) + 2 * K /\ d * (2 * P) = 2 * (d * P)
    BY <1>1
  <2>3. n * K \in Nat /\ d * P \in Nat /\ (n + 1) * L \in Nat
    BY <1>1
  <2> QED BY <1>1, <2>1, <2>2, <2>3
<1>6. n * K \in Nat /\ (n + 1) * L \in Nat /\ m * d \in Nat /\ l * d \in Nat
  BY <1>1
<1>7. (m * d) * L <= (l * d) * K
  <2>1. CASE K = L
    <3>1. (n * K) * d <= ((n + 1) * L) * d
      BY <1>1, <2>1
    <3>2. m <= l
      BY <1>3, <1>6, <3>1, RoundedMonotone
    <3>3. m * d <= l * d
      BY <1>1, <3>2
    <3> QED BY <1>1, <1>6, <2>1, <3>3
  <2>2. CASE 2 * L <= K
    <3>1. m <= 2 * P
      <4> DEFINE q == 2 * P
      <4>1. q \in Nat /\ n * K <= q * d
        BY <1>1
      <4> HIDE DEF q
      <4>2. RoundedQuotient(n * K, d) <= q
        BY <1>6, <4>1, RoundedExact
      <4> QED BY <1>3, <4>2 DEF q
    <3>2. P <= l
      <4>1. P * d <= (n + 1) * L
        BY <1>1
      <4>2. P <= RoundedQuotient((n + 1) * L, d)
        BY <1>1, <1>6, <4>1, RoundedExact
      <4> QED BY <1>3, <4>2
    <3>3. m * L <= (2 * P) * L
      BY <1>1, <3>1
    <3>4. (2 * P) * L = P * (2 * L)
      BY <1>1
    <3>5. P * (2 * L) <= P * K
      BY <1>1, <2>2
    <3>6. P * K <= l * K
      BY <1>1, <3>2
    <3>7. m * L \in Nat /\ P * K \in Nat /\ l * K \in Nat /\ P * (2 * L) \in Nat
      BY <1>1
    <3>8. m * L <= l * K
      BY <3>3, <3>4, <3>5, <3>6, <3>7
    <3>9. (m * L) * d <= (l * K) * d
      BY <3>7, <3>8
    <3>10. (m * L) * d = (m * d) * L /\ (l * K) * d = (l * d) * K
      BY <1>1
    <3> QED BY <3>9, <3>10
  <2> QED BY <1>2, <1>4, <1>5, <2>1, <2>2
<1>8. RoundedQuotient(m * d, K) <= RoundedQuotient(l * d, L)
  BY <1>1, <1>6, <1>7, RoundedMonotone
<1> QED BY <1>8 DEF Shown, K, L, m, l

\* A power of two for which its quotient has one more bit is not shown as less.
LEMMA ShownOfPower ==
  ASSUME NEW n \in Nat \ {0}, NEW d \in Nat \ {0}, NEW p \in Nat \ {0}, NEW f,
         Divides(f, n, d, p + 1), n = Power(2, p)
  PROVE  n <= Shown(f, d)
<1> DEFINE K == Power(2, f.k)
           m == f.m
           s == Shown(f, d)
<1>0. p + 1 \in Nat \ {0} /\ (p + 1) - 1 = p
  OBVIOUS
<1>1. /\ K \in Nat \ {0} /\ m \in Nat /\ d * Power(2, p) <= n * K
      /\ Rounds(m, n * K, d) /\ Rounds(s, m * d, K)
  <2> DEFINE r == p + 1
  <2>1. /\ K \in Nat \ {0} /\ m \in Nat /\ d * Power(2, r - 1) <= n * K
        /\ Rounds(m, n * K, d) /\ Rounds(s, m * d, K)
    <3> HIDE DEF K, m, s
    <3>1. r \in Nat \ {0} /\ Divides(f, n, d, r)
      OBVIOUS
    <3> HIDE DEF r
    <3> QED BY <3>1, ShownRounds DEF K, m, s
  <2> QED BY <1>0, <2>1
<1>2. \E h \in Nat : n = 2 * h
  <2>1. p - 1 \in Nat /\ (p - 1) + 1 = p
    OBVIOUS
  <2> QED BY <2>1, PowersOfTwo
<1> HIDE DEF K, m, s
<1>3. d <= K
  <2>1. d * n <= n * K
    BY <1>1
  <2>2. n * K = K * n
    BY <1>1
  <2> QED BY <1>1, <2>1, <2>2
<1>4. n * K \in Nat /\ m * d \in Nat /\ s * K \in Nat /\ s \in Nat
  BY <1>1 DEF Rounds
<1>5. 2 * (n * K) <= 2 * (s * K) + 2 * K
  BY <1>1, <1>3, <1>4 DEF Rounds
<1>6. n <= s + 1
  <2>1. n * K <= (s + 1) * K
    <3>1. (s + 1) * K = s * K + K
      BY <1>1, <1>4
    <3> QED BY <1>1, <1>4, <1>5, <3>1
  <2> QED BY <1>1, <1>4, <2>1
<1>7. n # s + 1
  <2> SUFFICES ASSUME n = s + 1 PROVE FALSE
    OBVIOUS
  <2>1. n * K = s * K + K
    BY <1>1, <1>4
  <2>2. s % 2 = 0
    BY <1>1, <1>3, <1>4, <2>1 DEF Rounds
  <2> QED BY <1>2, <1>4, <2>2
<1>8. n <= s
  BY <1>4, <1>6, <1>7
<1> QED BY <1>8 DEF s

\* How the precisions of an amount and the next one compare.
LEMMA NextPrecision ==
  ASSUME NEW n \in Nat, NEW d \in Nat
  PROVE  \/ Precision(n + 1, d) = Precision(n, d)
         \/ /\ Precision(n + 1, d) = Precision(n, d) + 1
            /\ n + 1 = Power(2, Precision(n, d))
<1> DEFINE p == Precision(n, d)
           p1 == Precision(n + 1, d)
           N == n + 1
<1>1. /\ p \in Nat /\ p >= FloatBits /\ p >= BitLen(n) /\ p >= BitLen(d)
      /\ n < Power(2, p)
  BY PrecisionFacts
<1>2. /\ p1 \in Nat /\ p1 >= FloatBits /\ p1 >= BitLen(N) /\ p1 >= BitLen(d)
      /\ N < Power(2, p1) /\ p1 \in {FloatBits, BitLen(N), BitLen(d)}
  <2>1. N \in Nat /\ p1 = Precision(N, d)
    OBVIOUS
  <2> HIDE DEF N, p1
  <2> QED BY <2>1, PrecisionFacts
<1>3. p \in {FloatBits, BitLen(n), BitLen(d)}
  BY PrecisionFacts
<1>4. N \in Nat /\ N = n + 1 /\ FloatBits \in Nat
  BY AmountsAssumption
<1>5. BitLen(n) \in Nat /\ BitLen(d) \in Nat /\ BitLen(N) \in Nat
  BY <1>4, BitLenFacts DEF Bits
<1> HIDE DEF p, p1, N
<1>6. p1 >= BitLen(n)
  <2>1. n < Power(2, p1)
    <3>1. Power(2, p1) \in Nat
      BY <1>2, PowersOfTwo
    <3> QED BY <1>2, <1>4, <3>1
  <2> QED BY <1>2, <2>1, BitsHold
<1>7. p1 >= p
  BY <1>1, <1>2, <1>3, <1>5, <1>6
<1>8. CASE N < Power(2, p)
  <2>1. p >= BitLen(N)
    BY <1>1, <1>4, <1>8, BitsHold
  <2>2. p >= p1
    BY <1>1, <1>2, <1>4, <1>5, <2>1
  <2> QED BY <1>1, <1>2, <1>7, <2>2 DEF p, p1, N
<1>9. CASE N = Power(2, p)
  <2>1. p + 1 \in Nat /\ Power(2, p + 1) = 2 * Power(2, p) /\ Power(2, p) \in Nat \ {0}
    BY <1>1, PowersOfTwo
  <2>2. p + 1 >= BitLen(N)
    <3>1. N < Power(2, p + 1)
      BY <1>9, <2>1
    <3> QED BY <1>4, <2>1, <3>1, BitsHold
  <2>3. p1 <= p + 1
    BY <1>1, <1>2, <1>4, <1>5, <2>2
  <2>4. p1 # p
    BY <1>2, <1>4, <1>9
  <2>5. p1 = p + 1
    BY <1>1, <1>2, <1>7, <2>3, <2>4
  <2> QED BY <1>9, <2>5 DEF p, p1, N
<1>10. N < Power(2, p) \/ N = Power(2, p)
  <2>1. Power(2, p) \in Nat
    BY <1>1, PowersOfTwo
  <2> QED BY <1>1, <1>4, <2>1
<1> QED BY <1>8, <1>9, <1>10

\* The clauses of ShownNear for an amount and its decimals.
ShownNearAt(a, d) ==
  LET shown == FormatBigInt(a, d)
  IN /\ shown \in a - 1..a + 1
     /\ a < Power(2, FloatBits - 1) => shown = a
     /\ shown = 0 <=> a = 0
     /\ shown <= FormatBigInt(a + 1, d)

LEMMA ShownAtZero ==
  ASSUME NEW d \in Nat
  PROVE  FormatBigInt(0, d) = 0
<1> DEFINE D == Power(10, d)
<1>1. D \in Nat \ {0}
  BY PowerFacts
<1>2. Quotient(0, D) = [m |-> 0, k |-> 0]
  BY DEF Quotient
<1>3. Power(2, 0) = 1
  BY PowersOfTwo
<1>4. RoundedQuotient(0 * D, Power(2, 0)) = 0
  <2>1. RoundedQuotient(0 * 1, 1) = 0
    BY RoundedExact
  <2>2. 0 * D = 0 /\ 0 * 1 = 0
    BY <1>1
  <2> QED BY <1>3, <2>1, <2>2, Zenon
<1> QED BY <1>2, <1>4 DEF FormatBigInt

LEMMA ShownNearAnywhere ==
  ASSUME NEW a \in Nat, NEW d \in Nat
  PROVE  ShownNearAt(a, d)
<1>0. FloatBits \in Nat \ {0} /\ a + 1 \in Nat \ {0}
  BY AmountsAssumption
<1>1. CASE d = 0
  <2>1. FormatBigInt(a, d) = a /\ FormatBigInt(a + 1, d) = a + 1
    BY <1>1 DEF FormatBigInt
  <2> HIDE DEF FormatBigInt
  <2> QED BY <2>1 DEF ShownNearAt
<1>2. CASE d # 0
  <2> DEFINE D == Power(10, d)
             f(n) == Quotient(n, D)
             p(n) == Precision(n, D)
             s(n) == FormatBigInt(n, d)
  <2>1. D \in Nat \ {0} /\ D > 2
    <3>1. d - 1 \in Nat /\ (d - 1) + 1 = d
      BY <1>2
    <3>2. Power(10, d - 1) \in Nat \ {0} /\ Power(10, d) = 10 * Power(10, d - 1)
      BY <3>1, PowerFacts
    <3> QED BY <3>2
  <2>2. ASSUME NEW n \in Nat \ {0}
        PROVE  /\ Divides(f(n), n, D, p(n)) /\ p(n) \in Nat \ {0}
               /\ p(n) >= FloatBits /\ n < Power(2, p(n)) /\ D < Power(2, p(n))
    <3> HIDE DEF D
    <3> QED BY <2>1, PrecisionFacts, QuotientFacts
  <2>3. ASSUME NEW n \in Nat \ {0} PROVE s(n) = Shown(f(n), D)
    BY <1>2 DEF FormatBigInt, Shown
  <2> HIDE DEF D, f, p, s
  <2>4. ASSUME NEW n \in Nat \ {0}
        PROVE  /\ s(n) \in Nat /\ s(n) \in n - 1..n + 1 /\ s(n) # 0
               /\ n < Power(2, FloatBits - 1) => s(n) = n
    <3>1. /\ Divides(f(n), n, D, p(n)) /\ p(n) \in Nat \ {0} /\ p(n) >= FloatBits
          /\ n < Power(2, p(n)) /\ D < Power(2, p(n))
      BY <2>2
    <3>2. s(n) = Shown(f(n), D)
      BY <2>3
    <3>3. /\ Shown(f(n), D) \in Nat /\ Shown(f(n), D) \in n - 1..n + 1
          /\ n < Power(2, p(n) - 1) => Shown(f(n), D) = n
      BY <2>1, <3>1, ShownIsClose
    <3>4. Shown(f(n), D) # 0
      BY <2>1, <3>1, ShownIsSome
    <3>5. n < Power(2, FloatBits - 1) => n < Power(2, p(n) - 1)
      <4>1. /\ FloatBits - 1 \in Nat /\ p(n) - 1 \in Nat
            /\ FloatBits - 1 = p(n) - 1 \/ FloatBits - 1 < p(n) - 1
        BY <1>0, <3>1
      <4>2. /\ Power(2, FloatBits - 1) \in Nat /\ Power(2, p(n) - 1) \in Nat
            /\ FloatBits - 1 < p(n) - 1 => 2 * Power(2, FloatBits - 1) <= Power(2, p(n) - 1)
        BY <4>1, PowersOfTwo
      <4> QED BY <4>1, <4>2
    <3> QED BY <3>2, <3>3, <3>4, <3>5, Zenon
  <2>5. ASSUME NEW n \in Nat \ {0} PROVE s(n) <= s(n + 1)
    <3> DEFINE N == n + 1
    <3>1. N \in Nat \ {0} /\ N = n + 1
      OBVIOUS
    <3>2. /\ Divides(f(n), n, D, p(n)) /\ p(n) \in Nat \ {0} /\ s(n) = Shown(f(n), D)
          /\ s(n) \in Nat /\ s(n) \in n - 1..n + 1
      BY <2>2, <2>3, <2>4
    <3> HIDE DEF N
    <3>3. /\ Divides(f(N), N, D, p(N)) /\ s(N) = Shown(f(N), D) /\ s(N) \in Nat
      BY <2>2, <2>3, <2>4, <3>1
    <3>4. p(N) = p(n) \/ (p(N) = p(n) + 1 /\ N = Power(2, p(n)))
      BY <2>1, <3>1, NextPrecision DEF p
    <3>5. CASE p(N) = p(n)
      <4>1. Divides(f(N), n + 1, D, p(n))
        BY <3>1, <3>3, <3>5, Zenon
      <4>2. Shown(f(n), D) <= Shown(f(N), D)
        BY <2>1, <3>2, <4>1, ShownGrows
      <4> QED BY <3>1, <3>2, <3>3, <4>2
    <3>6. CASE p(N) = p(n) + 1 /\ N = Power(2, p(n))
      <4>1. Divides(f(N), N, D, p(n) + 1)
        BY <3>3, <3>6
      <4>2. N <= Shown(f(N), D)
        BY <2>1, <3>1, <3>2, <3>6, <4>1, ShownOfPower
      <4> QED BY <3>1, <3>2, <3>3, <4>2
    <3> QED BY <3>4, <3>5, <3>6
  <2>6. CASE a = 0
    <3>1. s(0) = 0
      BY ShownAtZero DEF s
    <3>2. s(a + 1) \in Nat
      BY <1>0, <2>4
    <3>3. s(a) = 0 /\ s(a + 1) \in Nat
      BY <2>6, <3>1, <3>2
    <3> QED BY <2>6, <3>3 DEF ShownNearAt, s
  <2>7. CASE a # 0
    <3>1. a \in Nat \ {0}
      BY <2>7
    <3>2. /\ s(a) \in a - 1..a + 1 /\ s(a) # 0
          /\ a < Power(2, FloatBits - 1) => s(a) = a
          /\ s(a) <= s(a + 1)
      BY <2>4, <2>5, <3>1
    <3> QED BY <2>7, <3>2 DEF ShownNearAt, s
  <2> QED BY <2>6, <2>7
<1> QED BY <1>1, <1>2

\* Whatever the amount, the decimals and the precision of the floats: what FormatBigInt
\* shows is off by one unit at most, not at all up to the precision, 0 for nothing but
\* 0, and never less for more.
THEOREM ShownIsNear == ShownNear
<1> SUFFICES ASSUME NEW d \in Decimals, NEW a \in 0..MaxAmount
             PROVE  LET shown == FormatBigInt(a, d)
                    IN /\ shown \in a - 1..a + 1
                       /\ a < Power(2, FloatBits - 1) => shown = a
                       /\ shown = 0 <=> a = 0
                       /\ a < MaxAmount => shown <= FormatBigInt(a + 1, d)
  BY DEF ShownNear
<1>1. d \in Nat /\ a \in Nat
  BY AmountsAssumption
<1> QED BY <1>1, ShownNearAnywhere DEF ShownNearAt

-----------------------------------------------------------------------------
(* CalculateValueUSD: three roundings to the nearest. *)

\* x is wrong by at most one part of y in U.
Near(x, y, U) == U * (x - y) <= y /\ U * (y - x) <= y

\* A quotient that has H already is rounded by at most one part in 2 H + 1.
LEMMA RoundedNear ==
  ASSUME NEW n \in Nat, NEW d \in Nat \ {0}, NEW H \in Nat, H * d <= n
  PROVE  Near(RoundedQuotient(n, d) * d, n, 2 * H + 1)
<1> DEFINE q == RoundedQuotient(n, d)
           x == q * d
           h == H * d
<1>1. q \in Nat /\ 2 * x <= 2 * n + d /\ 2 * n <= 2 * x + d
  BY RoundedFacts DEF Rounds
<1>2. H <= q
  BY RoundedExact
<1> HIDE DEF q
<1>3. x \in Nat /\ h \in Nat /\ h <= n /\ h <= x
  <2>1. H * d <= q * d
    BY <1>1, <1>2
  <2> QED BY <1>1, <2>1
<1>4. x > n => x >= h + d
  <2> SUFFICES ASSUME x > n PROVE x >= h + d
    OBVIOUS
  <2>1. q # H
    <3> SUFFICES ASSUME q = H PROVE FALSE
      OBVIOUS
    <3>1. x = h
      OBVIOUS
    <3> HIDE DEF x, h
    <3> QED BY <1>3, <3>1
  <2>2. H + 1 <= q
    BY <1>1, <1>2, <2>1
  <2>3. (H + 1) * d <= q * d /\ (H + 1) * d = H * d + d
    BY <1>1, <2>2
  <2> QED BY <2>3
<1>5. ASSUME NEW e \in Nat, 2 * e <= d, e = 0 \/ h + e <= n PROVE (2 * H + 1) * e <= n
  <2>1. H * (2 * e) <= H * d
    BY <1>5
  <2>2. (2 * H + 1) * e = H * (2 * e) + e
    OBVIOUS
  <2>3. H * (2 * e) \in Nat /\ H * d = h
    OBVIOUS
  <2>4. e = 0 => (2 * H + 1) * e = 0
    OBVIOUS
  <2> HIDE DEF h
  <2> QED BY <1>3, <1>5, <2>1, <2>2, <2>3, <2>4
<1>6. CASE x <= n
  <2> DEFINE e == n - x
  <2>1. e \in Nat /\ 2 * e <= d /\ h + e <= n
    <3> HIDE DEF x, h
    <3> QED BY <1>1, <1>3, <1>6
  <2>2. (2 * H + 1) * e <= n
    <3> HIDE DEF e, h, x
    <3> QED BY <1>5, <2>1
  <2>3. (2 * H + 1) * (x - n) <= 0
    <3> HIDE DEF x, h
    <3>1. x - n \in Int /\ x - n <= 0
      BY <1>3, <1>6
    <3> QED BY <3>1
  <2>4. 0 <= n /\ (2 * H + 1) * (x - n) \in Int
    <3> HIDE DEF x, h
    <3> QED BY <1>3
  <2> HIDE DEF x
  <2> QED BY <2>2, <2>3, <2>4 DEF Near, x, q
<1>7. CASE x > n
  <2> DEFINE e == x - n
  <2>1. e \in Nat /\ 2 * e <= d /\ h + e <= n
    <3> HIDE DEF x, h
    <3> QED BY <1>1, <1>3, <1>4, <1>7
  <2>2. (2 * H + 1) * e <= n
    <3> HIDE DEF e, h, x
    <3> QED BY <1>5, <2>1
  <2>3. (2 * H + 1) * (n - x) <= 0
    <3> HIDE DEF x, h
    <3>1. n - x \in Int /\ n - x <= 0
      BY <1>3, <1>7
    <3> QED BY <3>1
  <2>4. 0 <= n /\ (2 * H + 1) * (n - x) \in Int
    <3> HIDE DEF x, h
    <3> QED BY <1>3
  <2> HIDE DEF x
  <2> QED BY <2>2, <2>3, <2>4 DEF Near, x, q
<1> QED
  <2> HIDE DEF x, h
  <2> QED BY <1>3, <1>6, <1>7

\* A float64 is off by one part in so many of what it stands for.
Parts == Power(2, DoubleBits) + 1

LEMMA PartsFacts ==
  /\ DoubleBits \in Nat \ {0} /\ DoubleBits <= FloatBits /\ FloatBits \in Nat
  /\ Power(2, DoubleBits - 1) \in Nat \ {0}
  /\ Parts = 2 * Power(2, DoubleBits - 1) + 1
  /\ Power(2, DoubleBits) \in Nat \ {0} /\ Parts = Power(2, DoubleBits) + 1
<1>1. DoubleBits \in Nat \ {0} /\ DoubleBits <= FloatBits /\ FloatBits \in Nat
  BY AmountsAssumption
<1>2. DoubleBits - 1 \in Nat /\ (DoubleBits - 1) + 1 = DoubleBits
  BY <1>1
<1>3. /\ Power(2, DoubleBits - 1) \in Nat \ {0}
      /\ Power(2, DoubleBits) = 2 * Power(2, DoubleBits - 1)
  BY <1>2, PowersOfTwo
<1>4. Power(2, DoubleBits) \in Nat \ {0}
  BY <1>3
<1> QED BY <1>1, <1>3, <1>4 DEF Parts

LEMMA QuotientNear ==
  ASSUME NEW n \in Nat, NEW d \in Nat \ {0}
  PROVE  \E m \in Nat, k \in Nat :
            /\ Quotient(n, d) = [m |-> m, k |-> k]
            /\ Near(m * d, n * Power(2, k), Parts)
<1>1. CASE n = 0
  <2>1. Quotient(0, d) = [m |-> 0, k |-> 0]
    BY DEF Quotient
  <2>2. Power(2, 0) = 1 /\ Parts \in Nat
    <3>1. Parts \in Nat
      BY PartsFacts
    <3> QED BY <3>1, PowersOfTwo
  <2>3. 0 * d = 0 /\ 0 * Power(2, 0) = 0
    BY <2>2
  <2>4. Near(0 * d, 0 * Power(2, 0), Parts)
    BY <2>2, <2>3 DEF Near
  <2> QED BY <1>1, <2>1, <2>4
<1>2. CASE n # 0
  <2> DEFINE p == Precision(n, d)
             f == Quotient(n, d)
             K == Power(2, f.k)
             P == Power(2, p - 1)
             H == Power(2, DoubleBits - 1)
             N == n * K
  <2>1. n \in Nat \ {0} /\ Divides(f, n, d, p) /\ p \in Nat \ {0} /\ p >= FloatBits
    BY <1>2, QuotientFacts, PrecisionFacts
  <2> HIDE DEF p, f
  <2>2. /\ P \in Nat /\ K \in Nat \ {0} /\ f.m \in Nat /\ d * P <= n * K
    BY <2>1, ShownRounds
  <2>3. f = [m |-> f.m, k |-> f.k] /\ f.k \in Nat /\ f.m = RoundedQuotient(N, d)
    BY <2>1 DEF Divides, Scales
  <2>4. H \in Nat /\ H <= P
    <3>1. /\ p - 1 \in Nat /\ DoubleBits - 1 \in Nat
          /\ DoubleBits - 1 = p - 1 \/ DoubleBits - 1 < p - 1
      BY <2>1, PartsFacts
    <3>2. /\ H \in Nat /\ P \in Nat /\ (DoubleBits - 1 < p - 1 => 2 * H <= P)
      BY <3>1, PowersOfTwo
    <3>3. DoubleBits - 1 = p - 1 => H = P
      BY Zenon
    <3> QED BY <3>1, <3>2, <3>3
  <2> HIDE DEF K, P, H
  <2>5. H * d <= N /\ N \in Nat
    <3>1. H * d <= P * d /\ P * d = d * P /\ d * P \in Nat /\ H * d \in Nat /\ n * K \in Nat
      BY <2>2, <2>4
    <3> QED BY <2>2, <3>1
  <2>6. Near(f.m * d, N, 2 * H + 1)
    <3> HIDE DEF N
    <3> QED BY <2>3, <2>4, <2>5, RoundedNear
  <2>7. Near(f.m * d, N, Parts)
    BY <2>6, PartsFacts, Zenon DEF H
  <2> HIDE DEF N
  <2> DEFINE m == f.m
             k == f.k
  <2>8. /\ m \in Nat /\ k \in Nat /\ f = [m |-> m, k |-> k]
        /\ Near(m * d, n * Power(2, k), Parts)
    BY <2>2, <2>3, <2>7 DEF N, K
  <2> HIDE DEF m, k
  <2> QED BY <2>8 DEF f
<1> QED BY <1>1, <1>2

LEMMA ToDoubleNear ==
  ASSUME NEW m \in Nat, NEW k
  PROVE  \E r \in Nat : ToDouble([m |-> m, k |-> k]) = [m |-> r, k |-> k] /\ Near(r, m, Parts)
<1> DEFINE f == [m |-> m, k |-> k]
           b == BitLen(m)
           over == b - DoubleBits
<1>1. DoubleBits \in Nat \ {0} /\ b \in Nat /\ Parts \in Nat
  BY PartsFacts, BitLenFacts DEF Bits
<1>2. CASE over <= 0
  <2>1. ToDouble(f) = f
    BY <1>2 DEF ToDouble
  <2>2. Near(m, m, Parts)
    BY <1>1 DEF Near
  <2> QED BY <2>1, <2>2
<1>3. CASE ~(over <= 0)
  <2> DEFINE T == Power(2, over)
             H == Power(2, DoubleBits - 1)
             q == RoundedQuotient(m, T)
  <2>1. ToDouble(f) = [m |-> q * T, k |-> k]
    BY <1>3 DEF ToDouble
  <2> HIDE DEF b
  <2>2. over \in Nat /\ b > 0 /\ DoubleBits - 1 \in Nat /\ b - 1 = (DoubleBits - 1) + over
    BY <1>1, <1>3
  <2>3. Power(2, b - 1) <= m
    BY <2>2, BitLenFacts DEF Bits, b
  <2>4. Power(2, b - 1) = H * T
    <3>1. \A i, j \in Nat : Power(2, i + j) = Power(2, i) * Power(2, j)
      BY PowerSum
    <3> HIDE DEF over
    <3> QED BY <2>2, <3>1
  <2>5. T \in Nat \ {0} /\ H \in Nat
    <3> HIDE DEF over
    <3> QED BY <2>2, PowersOfTwo
  <2> HIDE DEF T, H
  <2>6. Near(q * T, m, 2 * H + 1)
    BY <2>3, <2>4, <2>5, RoundedNear
  <2>7. Near(q * T, m, Parts)
    BY <2>6, PartsFacts, Zenon DEF H
  <2>8. q * T \in Nat
    BY <2>5, RoundedFacts DEF Rounds
  <2> QED BY <2>1, <2>7, <2>8
<1> QED BY <1>2, <1>3

\* Three roundings one after the other: each is wrong by a part of what it rounds, and
\* the three by three parts of what there was at first.
LEMMA ThreeRoundings ==
  ASSUME NEW w \in Nat, NEW x \in Nat, NEW y \in Nat, NEW z \in Nat, NEW u \in Nat \ {0},
         Near(x, w, u + 1), Near(y, x, u + 1), Near(z, y, u + 1)
  PROVE  (z - w) * u <= 3 * w /\ (w - z) * u <= 3 * w
<1> DEFINE A == u * (x - w)
           B == u * (y - x)
           C == u * (z - y)
<1>1. /\ (u + 1) * (x - w) = A + (x - w) /\ (u + 1) * (w - x) = -A - (x - w)
      /\ (u + 1) * (y - x) = B + (y - x) /\ (u + 1) * (x - y) = -B - (y - x)
      /\ (u + 1) * (z - y) = C + (z - y) /\ (u + 1) * (y - z) = -C - (z - y)
  OBVIOUS
<1>2. (z - w) * u = A + B + C /\ (w - z) * u = -(A + B + C)
  OBVIOUS
<1>3. /\ A \in Int /\ B \in Int /\ C \in Int
      /\ x <= w => A <= 0
      /\ x >= w => A >= 0
      /\ y <= x => B <= 0
      /\ y >= x => B >= 0
      /\ z <= y => C <= 0
      /\ z >= y => C >= 0
      /\ z <= w => (z - w) * u <= 0
      /\ z >= w => (w - z) * u <= 0
      /\ y <= w => A + B <= 0
  <2>1. A + B = u * (y - w)
    OBVIOUS
  <2>2. y <= w => u * (y - w) <= 0
    OBVIOUS
  <2>3. ASSUME NEW v \in Int PROVE (v <= 0 => u * v <= 0) /\ (v >= 0 => u * v >= 0) /\ u * v \in Int
    OBVIOUS
  <2>4. /\ x - w \in Int /\ y - x \in Int /\ z - y \in Int /\ z - w \in Int /\ w - z \in Int
    OBVIOUS
  <2>5. (z - w) * u = u * (z - w) /\ (w - z) * u = u * (w - z)
    OBVIOUS
  <2> QED BY <2>1, <2>2, <2>3, <2>4, <2>5
<1>a. /\ A + (x - w) <= w /\ -A - (x - w) <= w
      /\ B + (y - x) <= x /\ -B - (y - x) <= x
      /\ C + (z - y) <= y /\ -C - (z - y) <= y
  BY <1>1 DEF Near
<1>b. A - B \in Int
  BY <1>3
\* The last rounding adds less than the first when it is the shorter step.
<1>c. z - y < x - w => C <= A
  <2>1. C = u * (z - y) /\ A = u * (x - w) /\ z - y \in Int /\ x - w \in Int
    OBVIOUS
  <2>2. \A i, j \in Int : i < j => u * i <= u * j
    OBVIOUS
  <2> HIDE DEF A, C
  <2> QED BY <2>1, <2>2
<1> HIDE DEF A, B, C
<1>4. A + B + C <= 3 * w \/ z <= w
  <2> SUFFICES ASSUME z > w PROVE A + B + C <= 3 * w
    OBVIOUS
  <2>1. CASE y <= w
    BY <1>3, <1>a, <2>1
  <2>2. CASE y > w /\ z - y < x - w
    BY <1>3, <1>a, <1>c, <2>2
  <2>3. CASE z - y >= x - w
    BY <1>3, <1>a, <2>3
  <2> QED BY <2>1, <2>2, <2>3
<1>5. -(A + B + C) <= 3 * w \/ z >= w
  BY <1>3, <1>a
<1> QED BY <1>2, <1>3, <1>4, <1>5

\* The three roundings of a value.
ValueRounds(usd, w, d) ==
  \E x \in Nat, y \in Nat :
    /\ Near(x, w, Parts) /\ Near(y, x, Parts) /\ Near(usd.m * d, y, Parts)
    /\ usd.m \in Nat /\ usd.k \in Nat

LEMMA NearTimes ==
  ASSUME NEW x \in Nat, NEW y \in Nat, NEW c \in Nat, NEW U \in Nat, Near(x, y, U)
  PROVE  Near(x * c, y * c, U)
<1>1. U * (x - y) <= y /\ U * (y - x) <= y
  BY DEF Near
<1>2. U * (x - y) \in Int /\ U * (y - x) \in Int
  OBVIOUS
<1>3. \A i, j \in Int : i <= j => i * c <= j * c
  OBVIOUS
<1>4. (U * (x - y)) * c <= y * c /\ (U * (y - x)) * c <= y * c
  BY <1>1, <1>2, <1>3
<1>5. /\ (U * (x - y)) * c = U * (x * c - y * c)
      /\ (U * (y - x)) * c = U * (y * c - x * c)
  OBVIOUS
<1> QED BY <1>4, <1>5 DEF Near

LEMMA ValueIsRounded ==
  ASSUME NEW a \in Nat, NEW d \in Nat, NEW p \in Nat
  PROVE  ValueRounds(CalculateValueUSD(a, d, p),
                     (a * Power(2, CalculateValueUSD(a, d, p).k)) * p, Power(10, d))
<1> DEFINE D == Power(10, d)
           usd == CalculateValueUSD(a, d, p)
<1>1. D \in Nat \ {0} /\ Parts \in Nat
  <2>1. Parts \in Nat
    BY PartsFacts
  <2> QED BY <2>1, PowerFacts
<1>2. PICK m \in Nat, k \in Nat : /\ TokenValue(a, d) = [m |-> m, k |-> k]
                                /\ Near(m * D, a * Power(2, k), Parts)
  <2> HIDE DEF D
  <2>1. TokenValue(a, d) = Quotient(a, D)
    BY DEF TokenValue, D
  <2> QED BY <1>1, <2>1, QuotientNear
<1>3. PICK t \in Nat : /\ ToDouble([m |-> m, k |-> k]) = [m |-> t, k |-> k]
                      /\ Near(t, m, Parts)
  BY ToDoubleNear
<1>4. t * p \in Nat
  OBVIOUS
<1>5. PICK r \in Nat : /\ ToDouble([m |-> t * p, k |-> k]) = [m |-> r, k |-> k]
                      /\ Near(r, t * p, Parts)
  BY <1>4, ToDoubleNear
<1>6. usd = [m |-> r, k |-> k]
  <2> HIDE DEF ToDouble
  <2>1. usd = ToDouble([ToDouble(TokenValue(a, d)) EXCEPT !.m = @ * p])
    BY DEF CalculateValueUSD
  <2>2. [[m |-> t, k |-> k] EXCEPT !.m = @ * p] = [m |-> t * p, k |-> k]
    OBVIOUS
  <2>3. ToDouble(TokenValue(a, d)) = [m |-> t, k |-> k]
    BY <1>2, <1>3, Zenon
  <2> QED BY <1>5, <2>1, <2>2, <2>3, Zenon
<1> HIDE DEF D, usd
<1>7. usd.m = r /\ usd.k = k
  BY <1>6
<1> DEFINE K == Power(2, k)
           w == (a * K) * p
           x == (m * D) * p
           y == (t * p) * D
<1>8. K \in Nat
  BY PowersOfTwo
<1>9. Near(x, w, Parts)
  <2>1. m * D \in Nat /\ a * K \in Nat
    BY <1>1, <1>8
  <2> HIDE DEF K
  <2>2. Near(m * D, a * K, Parts)
    BY <1>2 DEF K
  <2> QED BY <1>1, <2>1, <2>2, NearTimes
<1>10. Near(y, x, Parts)
  <2>1. D * p \in Nat
    BY <1>1
  <2>2. Near(t * (D * p), m * (D * p), Parts)
    BY <1>1, <1>3, <2>1, NearTimes
  <2>3. t * (D * p) = y /\ m * (D * p) = x
    BY <1>1
  <2> QED BY <2>2, <2>3
<1>11. Near(r * D, y, Parts)
  BY <1>1, <1>4, <1>5, NearTimes
<1>12. x \in Nat /\ y \in Nat /\ w \in Nat
  BY <1>1, <1>8
<1> HIDE DEF x, y, w
<1>13. ValueRounds(usd, w, D)
  BY <1>7, <1>9, <1>10, <1>11, <1>12 DEF ValueRounds
<1>14. w = (a * Power(2, usd.k)) * p
  BY <1>7 DEF w, K
<1> QED BY <1>13, <1>14 DEF usd, D

\* Whatever the amount, the decimals and the price: a value in USD is as near to the
\* true one as three roundings to a float64 can leave it.
THEOREM ValueIsNear == ValueNear
<1> DEFINE usd(a, d, p)  == CalculateValueUSD(a, d, p)
           diff(a, d, p) == usd(a, d, p).m * Power(10, d) - a * p * Power(2, usd(a, d, p).k)
<1> SUFFICES ASSUME NEW d \in Decimals, NEW p \in Prices, NEW a \in 0..MaxAmount
             PROVE  (IF diff(a, d, p) < 0 THEN -diff(a, d, p) ELSE diff(a, d, p))
                      * Power(2, DoubleBits) <= 3 * a * p * Power(2, usd(a, d, p).k)
  BY DEF ValueNear
<1>1. d \in Nat /\ a \in Nat /\ p \in Nat
  BY AmountsAssumption
<1> DEFINE v == usd(a, d, p)
           K == Power(2, v.k)
           D == Power(10, d)
           u == Power(2, DoubleBits)
           w == (a * K) * p
           z == v.m * D
<1>2. ValueRounds(v, w, D)
  BY <1>1, ValueIsRounded
<1>3. u \in Nat \ {0} /\ Parts = u + 1 /\ D \in Nat
  <2>1. u \in Nat \ {0} /\ Parts = u + 1
    BY PartsFacts
  <2>2. D \in Nat
    <3> HIDE DEF usd, diff, u
    <3> QED BY <1>1, PowerFacts
  <2> HIDE DEF D, u
  <2> QED BY <2>1, <2>2
<1>4. diff(a, d, p) = z - a * p * K
  OBVIOUS
<1> HIDE DEF usd, diff, v, D, u
<1>5. PICK x \in Nat, y \in Nat :
        /\ Near(x, w, Parts) /\ Near(y, x, Parts) /\ Near(z, y, Parts)
        /\ v.m \in Nat /\ v.k \in Nat
  BY <1>2 DEF ValueRounds
<1>6. K \in Nat
  BY <1>5, PowersOfTwo
<1> HIDE DEF K
<1>7. w \in Nat /\ z \in Nat /\ a * p * K = w /\ 3 * a * p * K = 3 * w
  BY <1>1, <1>3, <1>5, <1>6
<1> HIDE DEF w, z
<1>8. (z - w) * u <= 3 * w /\ (w - z) * u <= 3 * w
  <2>1. Near(x, w, u + 1) /\ Near(y, x, u + 1) /\ Near(z, y, u + 1)
    BY <1>3, <1>5
  <2> QED BY <1>3, <1>5, <1>7, <2>1, ThreeRoundings
<1>9. diff(a, d, p) = z - w /\ -(z - w) = w - z /\ z - w \in Int
  BY <1>4, <1>7
<1>10. (IF diff(a, d, p) < 0 THEN -diff(a, d, p) ELSE diff(a, d, p)) * u <= 3 * a * p * K
  BY <1>7, <1>8, <1>9
<1> QED BY <1>10 DEF u, K, v

\* Whatever the amount behind a balance that a wallet is told of, however its floats
\* are rounded: both are so near.
THEOREM AmountsAreNear == Spec => []AmountsNear
<1>1. AmountsNear
  BY ShownIsNear, ValueIsNear DEF AmountsNear
<1> QED BY <1>1, PTL
=============================================================================
