-------------------------- MODULE NativePricesProofs --------------------------
(***************************************************************************)
(* Proofs about the global price of NativePrices, for any wallets,         *)
(* networks and prices.                                                    *)
(***************************************************************************)
EXTENDS NativePrices, TLAPS

\* The global price is known once somebody set it, the price about to be set is
\* one, and whoever is past the look at the global price of ETH is the first of
\* its wallet: no other network of the wallet can have set it meanwhile.
WriterKnown == \A j \in Jobs : writer[j] # {} => global # 0
AboutToSet  == \A j \in Jobs, n \in Networks : pc[<<j, n>>] = "set" =>
                 price[<<j, n>>] # 0 /\ n \in EthNetworks
FirstOfJob  == \A j \in Jobs, n \in Networks :
                 pc[<<j, n>>] \in {"wrapped", "set"} /\ n \in EthNetworks
                   => writer[j] = {}

IInv == /\ PricesTypeOK /\ WriterKnown /\ AboutToSet /\ FirstOfJob
        /\ OneWritePerWallet

LEMMA InitIInv == Init => IInv
<1> SUFFICES ASSUME Init PROVE IInv
  OBVIOUS
<1> USE DEF Init, Tasks
<1>1. \A j \in Jobs, n \in Networks : pc[<<j, n>>] \notin Inside
  BY DEF Inside
<1>2. PricesTypeOK
  BY <1>1 DEF PricesTypeOK, MutexHeld, Inside
<1>3. WriterKnown /\ AboutToSet /\ FirstOfJob /\ OneWritePerWallet
  BY DEF WriterKnown, AboutToSet, FirstOfJob, OneWritePerWallet
<1> QED BY <1>2, <1>3 DEF IInv

\* When one task moves, the others are where they were.
LEMMA Moves ==
  ASSUME pc \in [Tasks -> {"fetch", "priced", "none"} \cup Inside],
         NEW j \in Jobs, NEW n \in Networks,
         NEW v \in {"fetch", "priced", "none"} \cup Inside,
         pc' = [pc EXCEPT ![<<j, n>>] = v]
  PROVE  /\ pc' \in [Tasks -> {"fetch", "priced", "none"} \cup Inside]
         /\ pc'[<<j, n>>] = v
         /\ \A i \in Jobs, m \in Networks :
              i # j \/ m # n => pc'[<<i, m>>] = pc[<<i, m>>]
<1>1. <<j, n>> \in Tasks
  BY DEF Tasks
<1>2. \A i \in Jobs, m \in Networks :
        <<i, m>> \in Tasks /\ (i # j \/ m # n => <<i, m>> # <<j, n>>)
  BY DEF Tasks
<1> QED BY <1>1, <1>2

\* A step that takes nobody in or out keeps the mutex, and so do one that takes
\* a task in when it is free and one that takes the only task out.
LEMMA MutexStep ==
  ASSUME MutexHeld, mu \in [Jobs -> BOOLEAN], NEW j \in Jobs, NEW n \in Networks,
         \A i \in Jobs, m \in Networks :
           i # j \/ m # n => pc'[<<i, m>>] = pc[<<i, m>>],
         \/ mu' = mu /\ (pc'[<<j, n>>] \in Inside <=> pc[<<j, n>>] \in Inside)
         \/ /\ mu' = [mu EXCEPT ![j] = TRUE] /\ ~mu[j]
            /\ pc'[<<j, n>>] \in Inside
         \/ /\ mu' = [mu EXCEPT ![j] = FALSE] /\ pc[<<j, n>>] \in Inside
            /\ pc'[<<j, n>>] \notin Inside
  PROVE  MutexHeld'
<1> DEFINE In(i, m)  == pc[<<i, m>>] \in Inside
           Inn(i, m) == pc'[<<i, m>>] \in Inside
<1>1. \A i \in Jobs, m \in Networks : i # j \/ m # n => (Inn(i, m) <=> In(i, m))
  OBVIOUS
<1>2. \A i \in Jobs : /\ mu[i] <=> \E m \in Networks : In(i, m)
                      /\ \A k, m \in Networks : In(i, k) /\ In(i, m) => k = m
  BY DEF MutexHeld
<1>3. \A i \in Jobs : i # j => mu'[i] = mu[i]
  OBVIOUS
<1>4. \/ mu'[j] = mu[j] /\ (Inn(j, n) <=> In(j, n))
      \/ mu'[j] /\ ~mu[j] /\ Inn(j, n)
      \/ ~mu'[j] /\ In(j, n) /\ ~Inn(j, n)
  OBVIOUS
<1> HIDE DEF In, Inn
<1>5. \A i \in Jobs : /\ mu'[i] <=> \E m \in Networks : Inn(i, m)
                      /\ \A k, m \in Networks : Inn(i, k) /\ Inn(i, m) => k = m
  BY <1>1, <1>2, <1>3, <1>4
<1> QED BY <1>5 DEF MutexHeld, Inn

\* One step of a network goroutine.
LEMMA StepIInv ==
  ASSUME IInv, NEW t \in Tasks, Step(t)
  PROVE  IInv'
<1>0. PICK j \in Jobs, n \in Networks : t = <<j, n>>
  BY DEF Tasks
<1>a. <<j, n>> \in Tasks /\ t[1] = j /\ t[2] = n
  BY <1>0
<1> USE PricesAssumption, <1>0, <1>a DEF IInv, PricesTypeOK, IsGlobal
<1>1. CASE Lock(t)
  <2>1. PICK v \in {"global", "wrapped"} : pc' = [pc EXCEPT ![<<j, n>>] = v]
    BY <1>1, <1>0 DEF Lock
  <2>2. /\ pc' \in [Tasks -> {"fetch", "priced", "none"} \cup Inside]
        /\ pc'[<<j, n>>] = v
        /\ \A i \in Jobs, m \in Networks :
             i # j \/ m # n => pc'[<<i, m>>] = pc[<<i, m>>]
    BY <2>1, Moves DEF Inside
  <2>3. MutexHeld'
    BY <1>1, <2>2, MutexStep DEF Lock, Unlocked, Inside
  <2>4. PricesTypeOK'
    BY <1>1, <2>2, <2>3 DEF Lock
  <2>5. WriterKnown' /\ AboutToSet' /\ FirstOfJob' /\ OneWritePerWallet'
    BY <1>1, <2>2 DEF Lock, MutexHeld, Inside, WriterKnown, AboutToSet,
         FirstOfJob, OneWritePerWallet
  <2> QED BY <2>4, <2>5
<1>2. CASE NoNative(t)
  <2>1. PICK v \in {"none"} : pc' = [pc EXCEPT ![<<j, n>>] = v]
    BY <1>2, <1>0 DEF NoNative
  <2>2. /\ pc' \in [Tasks -> {"fetch", "priced", "none"} \cup Inside]
        /\ pc'[<<j, n>>] = v
        /\ \A i \in Jobs, m \in Networks :
             i # j \/ m # n => pc'[<<i, m>>] = pc[<<i, m>>]
    BY <2>1, Moves DEF Inside
  <2>3. MutexHeld'
    BY <1>2, <2>2, MutexStep DEF NoNative, Inside
  <2>4. PricesTypeOK'
    BY <1>2, <2>2, <2>3 DEF NoNative
  <2>5. WriterKnown' /\ AboutToSet' /\ FirstOfJob' /\ OneWritePerWallet'
    BY <1>2, <2>2 DEF NoNative, MutexHeld, Inside, WriterKnown, AboutToSet,
         FirstOfJob, OneWritePerWallet
  <2> QED BY <2>4, <2>5
<1>3. CASE ReadGlobal(t)
  <2>1. PICK v \in {"unlock", "wrapped"} : pc' = [pc EXCEPT ![<<j, n>>] = v]
    BY <1>3, <1>0 DEF ReadGlobal, Looked, AfterGlobal
  <2>2. /\ pc' \in [Tasks -> {"fetch", "priced", "none"} \cup Inside]
        /\ pc'[<<j, n>>] = v
        /\ \A i \in Jobs, m \in Networks :
             i # j \/ m # n => pc'[<<i, m>>] = pc[<<i, m>>]
    BY <2>1, Moves DEF Inside
  <2>3. MutexHeld'
    BY <1>3, <2>2, MutexStep DEF ReadGlobal, Inside
  <2>4. PricesTypeOK'
    BY <1>3, <2>2, <2>3 DEF ReadGlobal, Looked, AfterGlobal
  <2>5. WriterKnown' /\ AboutToSet' /\ FirstOfJob' /\ OneWritePerWallet'
    BY <1>3, <2>2 DEF ReadGlobal, Looked, AfterGlobal, MutexHeld, Inside, WriterKnown, AboutToSet,
         FirstOfJob, OneWritePerWallet
  <2> QED BY <2>4, <2>5
<1>4. CASE ReadWrapped(t)
  <2>1. PICK v \in {"unlock", "set"} : pc' = [pc EXCEPT ![<<j, n>>] = v]
    BY <1>4, <1>0 DEF ReadWrapped, SetsGlobal
  <2>2. /\ pc' \in [Tasks -> {"fetch", "priced", "none"} \cup Inside]
        /\ pc'[<<j, n>>] = v
        /\ \A i \in Jobs, m \in Networks :
             i # j \/ m # n => pc'[<<i, m>>] = pc[<<i, m>>]
    BY <2>1, Moves DEF Inside
  <2>3. MutexHeld'
    BY <1>4, <2>2, MutexStep DEF ReadWrapped, Inside
  <2>4. PricesTypeOK'
    BY <1>4, <2>2, <2>3 DEF ReadWrapped, SetsGlobal
  <2>5. WriterKnown' /\ AboutToSet' /\ FirstOfJob' /\ OneWritePerWallet'
    BY <1>4, <2>2 DEF ReadWrapped, SetsGlobal, MutexHeld, Inside, WriterKnown, AboutToSet,
         FirstOfJob, OneWritePerWallet
  <2> QED BY <2>4, <2>5
<1>5. CASE SetGlobal(t)
  <2>1. PICK v \in {"unlock"} : pc' = [pc EXCEPT ![<<j, n>>] = v]
    BY <1>5, <1>0 DEF SetGlobal
  <2>2. /\ pc' \in [Tasks -> {"fetch", "priced", "none"} \cup Inside]
        /\ pc'[<<j, n>>] = v
        /\ \A i \in Jobs, m \in Networks :
             i # j \/ m # n => pc'[<<i, m>>] = pc[<<i, m>>]
    BY <2>1, Moves DEF Inside
  <2>3. MutexHeld'
    BY <1>5, <2>2, MutexStep DEF SetGlobal, Inside
  <2>4. PricesTypeOK'
    BY <1>5, <2>2, <2>3 DEF SetGlobal
  <2>5. pc[<<j, n>>] = "set" /\ price[<<j, n>>] # 0 /\ writer[j] = {}
    BY <1>5 DEF SetGlobal, AboutToSet, FirstOfJob
  <2>6. /\ global' # 0 /\ price' = price /\ writer'[j] = {n}
        /\ \A i \in Jobs : i # j => writer'[i] = writer[i]
    BY <1>5, <2>5 DEF SetGlobal
  <2>7. \A m \in Networks : pc[<<j, m>>] \in {"wrapped", "set"} => m = n
    BY <2>5 DEF MutexHeld, Inside
  <2>8. WriterKnown' /\ AboutToSet' /\ OneWritePerWallet'
    BY <2>1, <2>2, <2>6 DEF WriterKnown, AboutToSet, OneWritePerWallet
  <2>9. FirstOfJob'
    BY <2>1, <2>2, <2>6, <2>7 DEF FirstOfJob
  <2> QED BY <2>4, <2>8, <2>9
<1>6. CASE Unlock(t)
  <2>1. PICK v \in {"priced"} : pc' = [pc EXCEPT ![<<j, n>>] = v]
    BY <1>6, <1>0 DEF Unlock
  <2>2. /\ pc' \in [Tasks -> {"fetch", "priced", "none"} \cup Inside]
        /\ pc'[<<j, n>>] = v
        /\ \A i \in Jobs, m \in Networks :
             i # j \/ m # n => pc'[<<i, m>>] = pc[<<i, m>>]
    BY <2>1, Moves DEF Inside
  <2>3. MutexHeld'
    BY <1>6, <2>2, MutexStep DEF Unlock, Inside
  <2>4. PricesTypeOK'
    BY <1>6, <2>2, <2>3 DEF Unlock
  <2>5. WriterKnown' /\ AboutToSet' /\ FirstOfJob' /\ OneWritePerWallet'
    BY <1>6, <2>2 DEF Unlock, MutexHeld, Inside, WriterKnown, AboutToSet,
         FirstOfJob, OneWritePerWallet
  <2> QED BY <2>4, <2>5
<1> QED BY <1>1, <1>2, <1>3, <1>4, <1>5, <1>6 DEF Step

\* Nobody's step.
LEMMA StutterIInv == IInv /\ UNCHANGED vars => IInv'
BY DEF vars, IInv, PricesTypeOK, MutexHeld, WriterKnown, AboutToSet,
       FirstOfJob, OneWritePerWallet

THEOREM PricesInvariant == Spec => []IInv
<1>1. IInv /\ [Next]_vars => IInv'
  BY StepIInv, StutterIInv DEF Next, AllPriced
<1> QED BY InitIInv, <1>1, PTL DEF Spec

\* A wallet sets the global price at most once, in every state.
THEOREM WritesAreBounded == Spec => []OneWritePerWallet
<1>1. IInv => OneWritePerWallet
  BY DEF IInv
<1> QED BY <1>1, PricesInvariant, PTL

\* The types, and that a wallet's mutex is held exactly while one of its networks
\* is priced.
THEOREM PricesTypeCorrect == Spec => []PricesTypeOK
<1>1. IInv => PricesTypeOK
  BY DEF IInv
<1> QED BY <1>1, PricesInvariant, PTL

-----------------------------------------------------------------------------
(* Where a price comes from. *)

\* From the look at a price on, it is the right one; what is about to become global
\* is the price of a wrapped ETH.
Right(t) ==
  /\ price[t] \in {Wrapped[t[2]]} \cup (IF IsGlobal(t) THEN EthPrices ELSE {})
  /\ price[t] = 0 => Wrapped[t[2]] = 0

Sourced ==
  /\ global \in {0} \cup EthPrices
  /\ \A t \in Tasks : /\ pc[t] \in {"set", "unlock", "priced"} => Right(t)
                      /\ pc[t] = "set" => price[t] = Wrapped[t[2]]
                      /\ pc[t] = "global" => IsGlobal(t)

LEMMA InitSourced == Init => Sourced
BY DEF Init, Sourced

LEMMA StepSourced == IInv /\ Sourced /\ [Next]_vars => Sourced'
<1> SUFFICES ASSUME IInv, Sourced, [Next]_vars PROVE Sourced'
  OBVIOUS
<1> USE DEF IInv, PricesTypeOK, Sourced, Right, IsGlobal
<1>1. ASSUME NEW t \in Tasks, Lock(t) PROVE Sourced'
  BY <1>1 DEF Lock
<1>2. ASSUME NEW t \in Tasks, NoNative(t) PROVE Sourced'
  BY <1>2 DEF NoNative
<1>3. ASSUME NEW t \in Tasks, ReadGlobal(t) PROVE Sourced'
  BY <1>3 DEF ReadGlobal, Looked, AfterGlobal
<1>4. ASSUME NEW t \in Tasks, ReadWrapped(t) PROVE Sourced'
  BY <1>4 DEF ReadWrapped, SetsGlobal
<1>5. ASSUME NEW t \in Tasks, SetGlobal(t) PROVE Sourced'
  <2>1. PICK j \in Jobs, n \in Networks : t = <<j, n>>
    BY DEF Tasks
  <2>2. global' = Wrapped[n] /\ n \in EthNetworks
    BY <1>5, <2>1 DEF SetGlobal, AboutToSet
  <2>3. global' \in EthPrices
    BY <2>2 DEF EthPrices
  <2> QED BY <1>5, <2>3 DEF SetGlobal
<1>6. ASSUME NEW t \in Tasks, Unlock(t) PROVE Sourced'
  BY <1>6 DEF Unlock
<1>7. CASE UNCHANGED vars
  BY <1>7 DEF vars
<1> QED BY <1>1, <1>2, <1>3, <1>4, <1>5, <1>6, <1>7 DEF Next, Step, AllPriced

\* A native balance has the price of its own network or, for ETH, one of ETH, and
\* none only if its network has none, however the wallets race.
THEOREM PricesAreRight == Spec => []RightPrice
<1>1. Sourced => RightPrice
  BY DEF Sourced, Right, RightPrice
<1> QED BY <1>1, InitSourced, StepSourced, PricesInvariant, PTL DEF Spec

\* A known global price stays known, and everyone who looks at it gets a price.
THEOREM GlobalStaysKnown == Spec => KnownForAll
<1> DEFINE Kept == global # 0 =>
             /\ global' # 0
             /\ \A t \in Tasks : pc[t] = "global" /\ pc'[t] # "global" => price'[t] # 0
<1>1. ASSUME IInv, [Next]_vars PROVE [Kept]_vars
  <2> SUFFICES ASSUME Next, global # 0 PROVE Kept
    BY <1>1
  <2> USE <1>1 DEF IInv, PricesTypeOK
  <2>1. ASSUME NEW t \in Tasks, Step(t), ~SetGlobal(t) PROVE Kept
    BY <2>1 DEF Step, Lock, NoNative, ReadGlobal, Looked, AfterGlobal, ReadWrapped, Unlock
  <2>2. ASSUME NEW t \in Tasks, SetGlobal(t) PROVE Kept
    <3>1. PICK j \in Jobs, n \in Networks : t = <<j, n>>
      BY DEF Tasks
    <3>2. price[t] # 0
      BY <2>2, <3>1 DEF SetGlobal, AboutToSet
    <3> QED BY <2>2, <3>2 DEF SetGlobal
  <2>3. CASE UNCHANGED vars
    BY <2>3 DEF vars
  <2> QED BY <2>1, <2>2, <2>3 DEF Next, AllPriced
<1> QED BY <1>1, PricesInvariant, PTL DEF Spec, KnownForAll
=============================================================================
