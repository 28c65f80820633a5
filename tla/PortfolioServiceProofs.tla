------------------------ MODULE PortfolioServiceProofs ------------------------
(***************************************************************************)
(* Proofs about PortfolioService, for any number of requests, wallets and  *)
(* networks, any limit and any outcomes: its counters, then what its       *)
(* portfolios hold and add up to, and that it implements PortfolioPromise. *)
(***************************************************************************)
EXTENDS PortfolioService, FoldLemmas

-----------------------------------------------------------------------------
(* The sets the counters count are finite and change by one element a step. *)

\* Requests, wallets and networks are finite, so is everything made of them.
LEMMA Finiteness ==
  /\ IsFiniteSet(Jobs) /\ IsFiniteSet(Tasks)
  /\ \A r : IsFiniteSet(Holders(r)) /\ IsFiniteSet(LiveJobs(r))
  /\ \A j : IsFiniteSet(LiveTasks(j))
PROOF
  <1>1. IsFiniteSet(Jobs)
    BY TypesAssumption, FS_Product DEF Jobs
  <1>2. IsFiniteSet(Tasks)
    BY <1>1, TypesAssumption, FS_Product DEF Tasks
  <1>3. \A r : Holders(r) \subseteq Tasks /\ LiveJobs(r) \subseteq Jobs
    BY DEF Holders, LiveJobs, JobsOf
  <1>4. \A j : LiveTasks(j) \subseteq Tasks
    BY DEF LiveTasks, TasksOf
  <1> QED BY <1>1, <1>2, <1>3, <1>4, FS_Subset

\* A set that gains or loses one element.
LEMMA OneMore ==
  ASSUME NEW S, IsFiniteSet(S), NEW x
  PROVE  /\ Cardinality(S) \in Nat
         /\ x \notin S => Cardinality(S \cup {x}) = Cardinality(S) + 1
         /\ x \in S => Cardinality(S \ {x}) = Cardinality(S) - 1
         /\ x \in S => Cardinality(S) # 0
PROOF
  BY FS_CardinalityType, FS_AddElement, FS_RemoveElement, FS_EmptySet

\* The parts of a task and of a job.
LEMMA Parts ==
  /\ \A j \in Jobs : RequestOf(j) \in Requests /\ WalletOf(j) \in Wallets
                     /\ j = <<RequestOf(j), WalletOf(j)>>
  /\ \A t \in Tasks : JobOf(t) \in Jobs /\ NetworkOf(t) \in Networks
                      /\ t = <<JobOf(t), NetworkOf(t)>>
  /\ \A j \in Jobs, n \in Networks :
       /\ <<j, n>> \in Tasks /\ JobOf(<<j, n>>) = j /\ NetworkOf(<<j, n>>) = n
PROOF
  BY DEF Jobs, Tasks, RequestOf, WalletOf, JobOf, NetworkOf

\* One task moves: the holders of its request and the live tasks of its job
\* gain or lose that task, the other ones stay.
LEMMA TaskMoves ==
  ASSUME npc \in [Tasks -> {"none", "done"} \cup Live],
         NEW t \in Tasks, NEW v,
         npc' = [npc EXCEPT ![t] = v]
  PROVE  /\ \A r : Holders(r)' = IF v \in Holding /\ r = RequestOf(JobOf(t))
                                 THEN Holders(r) \cup {t}
                                 ELSE Holders(r) \ {t}
         /\ \A j : LiveTasks(j)' = IF v \in Live /\ j = JobOf(t)
                                   THEN LiveTasks(j) \cup {t}
                                   ELSE LiveTasks(j) \ {t}
PROOF
  <1>1. \A u \in Tasks : npc'[u] = IF u = t THEN v ELSE npc[u]
    OBVIOUS
  <1>2. \A r : Holders(r)' = IF v \in Holding /\ r = RequestOf(JobOf(t))
                             THEN Holders(r) \cup {t}
                             ELSE Holders(r) \ {t}
    BY <1>1 DEF Holders
  <1>3. \A j : LiveTasks(j)' = IF v \in Live /\ j = JobOf(t)
                               THEN LiveTasks(j) \cup {t}
                               ELSE LiveTasks(j) \ {t}
    BY <1>1 DEF LiveTasks, TasksOf
  <1> QED BY <1>2, <1>3

\* One job moves: the live jobs of its request gain or lose it.
LEMMA JobMoves ==
  ASSUME wpc \in [Jobs -> {"none", "loop", "send", "mark", "collect",
                           "leave", "done"}],
         NEW j \in Jobs, NEW v, wpc' = [wpc EXCEPT ![j] = v]
  PROVE  \A r : LiveJobs(r)' = IF v \notin {"none", "done"} /\ r = RequestOf(j)
                               THEN LiveJobs(r) \cup {j}
                               ELSE LiveJobs(r) \ {j}
PROOF
  <1>1. \A k \in Jobs : wpc'[k] = IF k = j THEN v ELSE wpc[k]
    OBVIOUS
  <1> QED BY <1>1 DEF LiveJobs, JobsOf

\* networkSemaphore counts the holders of a slot, whichever task moves.
LEMMA SlotStep ==
  ASSUME npc \in [Tasks -> {"none", "done"} \cup Live],
         sem \in [Requests -> Nat], SlotCount,
         NEW t \in Tasks, NEW v, npc' = [npc EXCEPT ![t] = v],
         NEW r, r = RequestOf(JobOf(t))
  PROVE  /\ (npc[t] \in Holding <=> v \in Holding) /\ sem' = sem => SlotCount'
         /\ /\ npc[t] \notin Holding /\ v \in Holding
            /\ sem' = [sem EXCEPT ![r] = @ + 1]
            => SlotCount'
         /\ /\ npc[t] \in Holding /\ v \notin Holding
            /\ sem' = [sem EXCEPT ![r] = @ - 1]
            => SlotCount'
         /\ npc[t] \in Holding => sem[r] \in Nat \ {0}
PROOF
  <1> DEFINE H == [q \in Requests |-> Holders(q)]
             G == [q \in Requests |-> Holders(q)']
  <1>1. r \in Requests
    BY Parts
  <1>2. H \in [Requests -> SUBSET Tasks] /\ IsFiniteSet(H[r])
    BY <1>1, Finiteness DEF Holders
  <1>3. \A q \in Requests : sem[q] = Cardinality(H[q])
    BY DEF SlotCount
  <1>4. SlotCount' <=> \A q \in Requests : sem'[q] = Cardinality(G[q])
    BY DEF SlotCount
  <1>5. \A q \in Requests : t \in H[q] <=> npc[t] \in Holding /\ q = r
    BY DEF Holders
  <1>6. /\ v \in Holding => G = [H EXCEPT ![r] = @ \cup {t}]
        /\ v \notin Holding => G = [H EXCEPT ![r] = @ \ {t}]
    <2>1. \A q \in Requests : G[q] = IF v \in Holding /\ q = r
                                   THEN H[q] \cup {t} ELSE H[q] \ {t}
      BY TaskMoves
    <2>2. \A q \in Requests : q # r => H[q] \ {t} = H[q]
      BY <1>5
    <2>3. H = [q \in Requests |-> H[q]] /\ G = [q \in Requests |-> G[q]]
      OBVIOUS
    <2> HIDE DEF H, G
    <2> QED BY <1>1, <2>1, <2>2, <2>3
  <1> HIDE DEF H, G
  <1>7. ASSUME npc[t] \in Holding <=> v \in Holding, sem' = sem
        PROVE  SlotCount'
    <2>1. (v \in Holding => H[r] \cup {t} = H[r]) /\ (v \notin Holding => H[r] \ {t} = H[r])
      BY <1>1, <1>5, <1>7
    <2>2. [H EXCEPT ![r] = H[r]] = H
      BY <1>2
    <2>3. G = H
      BY <1>6, <2>1, <2>2
    <2> QED BY <1>3, <1>4, <1>7, <2>3
  <1>8. ASSUME npc[t] \notin Holding, v \in Holding,
               sem' = [sem EXCEPT ![r] = @ + 1]
        PROVE  SlotCount'
    <2>1. G = [H EXCEPT ![r] = H[r] \cup {t}]
      BY <1>6, <1>8
    <2>2. Cardinality(H[r] \cup {t}) = sem[r] + 1
      BY <1>1, <1>2, <1>3, <1>5, <1>8, OneMore
    <2> QED BY <1>1, <1>2, <1>3, <1>4, <1>8, <2>1, <2>2
  <1>9. ASSUME npc[t] \in Holding, v \notin Holding,
               sem' = [sem EXCEPT ![r] = @ - 1]
        PROVE  SlotCount'
    <2>1. G = [H EXCEPT ![r] = H[r] \ {t}]
      BY <1>6, <1>9
    <2>2. Cardinality(H[r] \ {t}) = sem[r] - 1
      BY <1>1, <1>2, <1>3, <1>5, <1>9, OneMore
    <2> QED BY <1>1, <1>2, <1>3, <1>4, <1>9, <2>1, <2>2
  <1>10. npc[t] \in Holding => sem[r] \in Nat \ {0}
    BY <1>1, <1>2, <1>3, <1>5, OneMore
  <1> QED BY <1>7, <1>8, <1>9, <1>10

\* The job's WaitGroup counts its live tasks, whichever task moves.
LEMMA WgStep ==
  ASSUME npc \in [Tasks -> {"none", "done"} \cup Live],
         wg \in [Jobs -> Nat], WgCount,
         NEW t \in Tasks, NEW v, npc' = [npc EXCEPT ![t] = v],
         NEW j, j = JobOf(t)
  PROVE  /\ (npc[t] \in Live <=> v \in Live) /\ wg' = wg => WgCount'
         /\ /\ npc[t] \notin Live /\ v \in Live
            /\ wg' = [wg EXCEPT ![j] = @ + 1]
            => WgCount'
         /\ /\ npc[t] \in Live /\ v \notin Live
            /\ wg' = [wg EXCEPT ![j] = @ - 1]
            => WgCount'
         /\ npc[t] \in Live => wg[j] \in Nat \ {0}
PROOF
  <1> DEFINE H == [k \in Jobs |-> LiveTasks(k)]
             G == [k \in Jobs |-> LiveTasks(k)']
  <1>1. j \in Jobs
    BY Parts
  <1>2. H \in [Jobs -> SUBSET Tasks] /\ IsFiniteSet(H[j])
    BY <1>1, Finiteness DEF LiveTasks, TasksOf
  <1>3. \A k \in Jobs : wg[k] = Cardinality(H[k])
    BY DEF WgCount
  <1>4. WgCount' <=> \A k \in Jobs : wg'[k] = Cardinality(G[k])
    BY DEF WgCount
  <1>5. \A k \in Jobs : t \in H[k] <=> npc[t] \in Live /\ k = j
    BY DEF LiveTasks, TasksOf
  <1>6. /\ v \in Live => G = [H EXCEPT ![j] = @ \cup {t}]
        /\ v \notin Live => G = [H EXCEPT ![j] = @ \ {t}]
    <2>1. \A k \in Jobs : G[k] = IF v \in Live /\ k = j
                                   THEN H[k] \cup {t} ELSE H[k] \ {t}
      BY TaskMoves
    <2>2. \A k \in Jobs : k # j => H[k] \ {t} = H[k]
      BY <1>5
    <2>3. H = [k \in Jobs |-> H[k]] /\ G = [k \in Jobs |-> G[k]]
      OBVIOUS
    <2> HIDE DEF H, G
    <2> QED BY <1>1, <2>1, <2>2, <2>3
  <1> HIDE DEF H, G
  <1>7. ASSUME npc[t] \in Live <=> v \in Live, wg' = wg
        PROVE  WgCount'
    <2>1. (v \in Live => H[j] \cup {t} = H[j]) /\ (v \notin Live => H[j] \ {t} = H[j])
      BY <1>1, <1>5, <1>7
    <2>2. [H EXCEPT ![j] = H[j]] = H
      BY <1>2
    <2>3. G = H
      BY <1>6, <2>1, <2>2
    <2> QED BY <1>3, <1>4, <1>7, <2>3
  <1>8. ASSUME npc[t] \notin Live, v \in Live,
               wg' = [wg EXCEPT ![j] = @ + 1]
        PROVE  WgCount'
    <2>1. G = [H EXCEPT ![j] = H[j] \cup {t}]
      BY <1>6, <1>8
    <2>2. Cardinality(H[j] \cup {t}) = wg[j] + 1
      BY <1>1, <1>2, <1>3, <1>5, <1>8, OneMore
    <2> QED BY <1>1, <1>2, <1>3, <1>4, <1>8, <2>1, <2>2
  <1>9. ASSUME npc[t] \in Live, v \notin Live,
               wg' = [wg EXCEPT ![j] = @ - 1]
        PROVE  WgCount'
    <2>1. G = [H EXCEPT ![j] = H[j] \ {t}]
      BY <1>6, <1>9
    <2>2. Cardinality(H[j] \ {t}) = wg[j] - 1
      BY <1>1, <1>2, <1>3, <1>5, <1>9, OneMore
    <2> QED BY <1>1, <1>2, <1>3, <1>4, <1>9, <2>1, <2>2
  <1>10. npc[t] \in Live => wg[j] \in Nat \ {0}
    BY <1>1, <1>2, <1>3, <1>5, OneMore
  <1> QED BY <1>7, <1>8, <1>9, <1>10

\* A task that is alive and moves leaves its job where it is, in its loop.
LEMMA TaskPhases ==
  ASSUME TypeOK, Phases, OuterCount, OneJob,
         NEW t \in Tasks, npc[t] \in Live, NEW v, v # "none",
         npc' = [npc EXCEPT ![t] = v],
         UNCHANGED <<rpc, outerWg, wpc, todo>>
  PROVE  Phases' /\ OuterCount' /\ OneJob'
PROOF
  <1>1. JobOf(t) \in Jobs /\ t \in LiveTasks(JobOf(t))
    BY Parts DEF LiveTasks, TasksOf
  <1>2. wpc[JobOf(t)] = "loop"
    BY <1>1 DEF Phases
  <1>3. \A k \in Jobs : k # JobOf(t) => LiveTasks(k)' \subseteq LiveTasks(k)
    <2>1. npc \in [Tasks -> {"none", "done"} \cup Live]
      BY DEF TypeOK
    <2>2. \A u \in Tasks : u # t => npc'[u] = npc[u]
      BY <2>1
    <2> QED BY <2>2 DEF LiveTasks, TasksOf
  <1>4. npc[t] # "none"
    BY DEF Live, Holding
  <1>5. \A u \in Tasks : npc[u] = "none" => npc'[u] = "none"
    BY <1>4 DEF TypeOK
  <1>6. Phases'
    <2> SUFFICES ASSUME NEW k \in Jobs
                 PROVE  /\ wpc[k] \notin {"none", "done"} =>
                             rpc[RequestOf(k)] \in {"all", "single"}
                        /\ wpc[k] \in {"send", "collect"} =>
                             rpc[RequestOf(k)] = "all"
                        /\ rpc[RequestOf(k)] \in {"idle", "refused"} =>
                             wpc[k] = "none"
                        /\ wpc[k] # "loop" => LiveTasks(k)' = {}
                        /\ wpc[k] = "none" =>
                             \A n \in Networks : npc'[<<k, n>>] = "none"
                        /\ wpc[k] = "loop" =>
                             \A n \in todo[k] : npc'[<<k, n>>] = "none"
      BY DEF Phases
    <2>1. wpc[k] # "loop" => LiveTasks(k)' = {}
      BY <1>2, <1>3 DEF Phases
    <2>2. todo[k] \subseteq Networks
      BY DEF TypeOK
    <2> QED BY <1>5, <2>1, <2>2, Parts DEF Phases
  <1>7. \A r : LiveJobs(r)' = LiveJobs(r)
    BY DEF LiveJobs
  <1> QED BY <1>6, <1>7 DEF OuterCount, OneJob

\* A job of an open request that moves on, but does not end.
LEMMA JobGoesOn ==
  ASSUME TypeOK, SlotCount, WgCount, OuterCount, Phases, OneJob,
         NEW j \in Jobs, wpc[j] \notin {"none", "done"},
         NEW v \in {"send", "mark", "collect", "leave"},
         v \in {"send", "collect"} => rpc[RequestOf(j)] = "all",
         LiveTasks(j) = {},
         wpc' = [wpc EXCEPT ![j] = v],
         UNCHANGED <<rpc, outerWg, sem, wg, todo, npc>>
  PROVE  Accounting'
PROOF
  <1>1. \A r : LiveJobs(r)' = LiveJobs(r)
    BY JobMoves DEF TypeOK, LiveJobs, JobsOf
  <1>2. \A r : Holders(r)' = Holders(r)
    BY DEF Holders
  <1>3. \A k : LiveTasks(k)' = LiveTasks(k)
    BY DEF LiveTasks
  <1>4. SlotCount' /\ WgCount'
    BY <1>2, <1>3 DEF SlotCount, WgCount
  <1>5. OuterCount' /\ OneJob'
    BY <1>1 DEF OuterCount, OneJob
  <1>6. \A k \in Jobs : wpc'[k] = IF k = j THEN v ELSE wpc[k]
    BY DEF TypeOK
  <1>7. Phases'
    BY <1>3, <1>6 DEF Phases
  <1> QED BY <1>4, <1>5, <1>7 DEF Accounting

\* A job of an open request ends; none of its tasks is alive.
LEMMA JobEnds ==
  ASSUME TypeOK, SlotCount, WgCount, Phases,
         NEW j \in Jobs, wpc[j] = "leave",
         wpc' = [wpc EXCEPT ![j] = "done"],
         UNCHANGED <<sem, wg, todo, npc>>
  PROVE  /\ SlotCount' /\ WgCount'
         /\ \A r \in Requests : LiveJobs(r)' = LiveJobs(r) \ {j}
         /\ \A k : LiveTasks(k)' = LiveTasks(k)
         /\ \A k \in Jobs : wpc'[k] = IF k = j THEN "done" ELSE wpc[k]
PROOF
  <1>1. \A r \in Requests : LiveJobs(r)' = LiveJobs(r) \ {j}
    BY JobMoves DEF TypeOK
  <1>2. \A r : Holders(r)' = Holders(r)
    BY DEF Holders
  <1>3. \A k : LiveTasks(k)' = LiveTasks(k)
    BY DEF LiveTasks
  <1>4. \A k \in Jobs : wpc'[k] = IF k = j THEN "done" ELSE wpc[k]
    BY DEF TypeOK
  <1> QED BY <1>1, <1>2, <1>3, <1>4 DEF SlotCount, WgCount

-----------------------------------------------------------------------------
(* The invariant. *)

IInv == TypeOK /\ Accounting

\* What a job hands over, and the outcomes of the fetches, have their types.
LEMMA DataTypes ==
  /\ Nothing \in Outcome /\ ClientFailure \in Outcome
  /\ NoEntry \in Entry
  /\ \A o \in Outcome : EntryOf(o) \in Entry
  /\ TypeOK => \A j \in Jobs : /\ PortfolioOf(j) \in Portfolio
                               /\ WalletErrors(j) \subseteq WalletError
PROOF
  <1>1. Nothing \in Outcome /\ ClientFailure \in Outcome /\ NoEntry \in Entry
    BY DEF Nothing, ClientFailure, Outcome, ErrorKinds, NoEntry, Entry
  <1>2. \A o \in Outcome : EntryOf(o) \in Entry
    BY <1>1 DEF EntryOf, Outcome, Entry
  <1>3. ASSUME TypeOK, NEW j \in Jobs
        PROVE  PortfolioOf(j) \in Portfolio /\ WalletErrors(j) \subseteq WalletError
    <2>1. /\ WalletOf(j) \in Wallets /\ overall[j] \in Nat
          /\ byNetwork[j] \in [Networks -> Entry]
          /\ errs[j] \subseteq Networks \X ErrorKinds
      BY <1>3, Parts DEF TypeOK
    <2>2. PortfolioOf(j) \in Portfolio
      BY <2>1 DEF PortfolioOf, Portfolio
    <2>3. WalletErrors(j) \subseteq WalletError
      BY <2>1 DEF WalletErrors, WalletError
    <2> QED BY <2>2, <2>3
  <1> QED BY <1>1, <1>2, <1>3

LEMMA InitIInv == Init => IInv
PROOF
  <1> SUFFICES ASSUME Init PROVE IInv
    OBVIOUS
  <1>1. TypeOK
    BY DataTypes, LimitAssumption
       DEF Init, TypeOK, NotAsked, NoAnswer, Live, Holding
  <1>2. \A r : Holders(r) = {} /\ LiveJobs(r) = {}
    BY Parts DEF Init, Holders, LiveJobs, JobsOf, Holding
  <1>3. \A j : LiveTasks(j) = {}
    BY DEF Init, LiveTasks, TasksOf, Live, Holding
  <1>4. SlotCount /\ WgCount /\ OuterCount
    BY <1>2, <1>3, FS_EmptySet DEF Init, SlotCount, WgCount, OuterCount
  <1>5. Phases /\ OneJob
    BY <1>3, Parts DEF Init, Phases, OneJob
  <1> QED BY <1>1, <1>4, <1>5 DEF IInv, Accounting

\* The steps of a request's own goroutine.
LEMMA RequestStepIInv ==
  ASSUME IInv, NEW r \in Requests, RequestStep(r)
  PROVE  IInv'
PROOF
  <1> USE DEF IInv, Accounting
  <1>1. CASE Refuse(r)
    <2> USE <1>1 DEF Refuse, jobVars, taskVars
    <2>1. TypeOK'
      BY DEF TypeOK
    <2>2. /\ \A q : Holders(q)' = Holders(q) /\ LiveJobs(q)' = LiveJobs(q)
          /\ \A k : LiveTasks(k)' = LiveTasks(k)
      BY DEF Holders, LiveJobs, LiveTasks
    <2>3. SlotCount' /\ WgCount' /\ OuterCount'
      BY <2>2 DEF SlotCount, WgCount, OuterCount, TypeOK
    <2>4. Phases' /\ OneJob'
      BY <2>2, Parts DEF Phases, OneJob, TypeOK
    <2> QED BY <2>1, <2>3, <2>4
  <1>2. ASSUME NEW kind \in {"all", "single"}, NEW ws \in SUBSET Wallets,
               NEW nets \in SUBSET Networks, StartJobs(r, kind, ws, nets),
               outerWg' = [outerWg EXCEPT ![r] =
                             IF kind = "all" THEN Cardinality(ws) ELSE @],
               kind = "single" => \E w \in Wallets : ws = {w}
        PROVE  IInv'
    <2> USE <1>2 DEF StartJobs, taskVars
    <2>1. IsFiniteSet(ws) /\ Cardinality(ws) \in Nat
      BY TypesAssumption, FS_Subset, FS_CardinalityType
    <2>2. TypeOK'
      BY <2>1 DEF TypeOK
    <2>3. /\ \A q : Holders(q)' = Holders(q)
          /\ \A k : LiveTasks(k)' = LiveTasks(k)
      BY DEF Holders, LiveTasks
    <2>4. SlotCount' /\ WgCount'
      BY <2>3 DEF SlotCount, WgCount
    <2>5. \A j \in JobsOf(r) : wpc[j] = "none"
      BY DEF Phases, JobsOf
    <2>6. \A q \in Requests : q # r => LiveJobs(q)' = LiveJobs(q)
      BY DEF LiveJobs, JobsOf
    <2>7. LiveJobs(r)' = {r} \X ws /\ LiveJobs(r) = {}
      BY <2>5, Parts DEF LiveJobs, JobsOf, Jobs, RequestOf, WalletOf
    <2>8. Cardinality({r} \X ws) = Cardinality(ws)
      <3>1. IsFiniteSet({r}) /\ Cardinality({r}) = 1
        BY FS_Singleton
      <3>2. Cardinality({r} \X ws) = 1 * Cardinality(ws)
        BY <2>1, <3>1, FS_Product
      <3> QED BY <2>1, <3>2
    <2>9. OuterCount'
      BY <2>6, <2>7, <2>8, FS_EmptySet DEF OuterCount, TypeOK
    <2>10. Phases'
      BY <2>3, <2>5, Parts DEF Phases, TypeOK, JobsOf
    <2>11. OneJob'
      <3> SUFFICES ASSUME NEW q \in Requests, rpc'[q] = "single",
                          NEW j \in LiveJobs(q)', NEW k \in LiveJobs(q)'
                   PROVE  j = k
        BY DEF OneJob
      <3>1. CASE q = r
        <4>1. kind = "single"
          BY <3>1 DEF TypeOK
        <4>2. PICK w \in Wallets : ws = {w}
          BY <4>1
        <4> QED BY <2>7, <3>1, <4>2
      <3>2. CASE q # r
        <4>1. rpc[q] = "single"
          BY <3>2 DEF TypeOK
        <4> QED BY <2>6, <3>2, <4>1 DEF OneJob
      <3> QED BY <3>1, <3>2
    <2> QED BY <2>2, <2>4, <2>9, <2>10, <2>11
  <1>3. CASE StartAll(r)
    <2>1. PICK ws \in SUBSET Wallets, nets \in SUBSET Networks \ {{}} :
            /\ StartJobs(r, "all", ws, nets)
            /\ outerWg' = [outerWg EXCEPT ![r] = Cardinality(ws)]
      BY <1>3 DEF StartAll
    <2> QED BY <2>1, <1>2
  <1>4. CASE StartSingle(r)
    <2>1. PICK w \in Wallets, nets \in SUBSET Networks \ {{}} :
            StartJobs(r, "single", {w}, nets) /\ UNCHANGED outerWg
      BY <1>4 DEF StartSingle
    <2>2. outerWg' = [outerWg EXCEPT ![r] = @]
      BY <2>1 DEF TypeOK
    <2>3. {w} \in SUBSET Wallets /\ \E x \in Wallets : {w} = {x}
      OBVIOUS
    <2> QED BY <2>1, <2>2, <2>3, <1>2
  <1>5. CASE RespondAll(r)
    <2> USE <1>5 DEF RespondAll, JobsDone, jobVars, taskVars
    <2>1. TypeOK'
      BY DEF TypeOK
    <2>2. /\ \A q : Holders(q)' = Holders(q) /\ LiveJobs(q)' = LiveJobs(q)
          /\ \A k : LiveTasks(k)' = LiveTasks(k)
      BY DEF Holders, LiveJobs, LiveTasks
    <2>3. LiveJobs(r) = {}
      BY Finiteness, FS_EmptySet DEF OuterCount
    <2>4. \A k \in JobsOf(r) : wpc[k] \in {"none", "done"}
      BY <2>3 DEF LiveJobs
    <2>5. SlotCount' /\ WgCount' /\ OuterCount'
      BY <2>2 DEF SlotCount, WgCount, OuterCount, TypeOK
    <2>6. Phases'
      BY <2>2, <2>4, Parts DEF Phases, TypeOK, JobsOf
    <2>7. OneJob'
      BY <2>2 DEF OneJob, TypeOK
    <2> QED BY <2>1, <2>5, <2>6, <2>7
  <1> QED BY <1>1, <1>3, <1>4, <1>5 DEF RequestStep

\* The steps of a wallet's goroutine.
LEMMA JobStepIInv ==
  ASSUME IInv, NEW j \in Jobs, JobStep(j)
  PROVE  IInv'
PROOF
  <1> USE DEF IInv, Accounting
  <1> DEFINE r == RequestOf(j)
  <1>a. r \in Requests
    BY Parts
  <1>1. CASE Acquire(j)
    <2>1. PICK n \in todo[j] :
            /\ wpc[j] = "loop" /\ sem[r] < MaxRoutines
            /\ todo' = [todo EXCEPT ![j] = @ \ {n}]
            /\ npc'  = [npc EXCEPT ![<<j, n>>] = "client"]
            /\ sem' = [sem EXCEPT ![r] = @ + 1]
            /\ wg'  = [wg EXCEPT ![j] = @ + 1]
            /\ UNCHANGED <<rpc, asked, outerWg, results, allErrors, answer, wpc,
                           mu, errs, byNetwork, overall, out, seen, clients,
                           failedWallets>>
      BY <1>1 DEF Acquire, SlotFree
    <2> DEFINE t == <<j, n>>
    <2>2. n \in Networks /\ todo[j] \subseteq Networks
      BY DEF TypeOK
    <2>3. t \in Tasks /\ JobOf(t) = j /\ NetworkOf(t) = n
      BY <2>2, Parts
    <2>4. npc[t] = "none"
      BY <2>1 DEF Phases
    <2>5. npc[t] \notin Live /\ npc[t] \notin Holding
          /\ "client" \in Live /\ "client" \in Holding
      BY <2>4 DEF Live, Holding
    <2>6. TypeOK'
      BY <1>a, <2>1, <2>3, <2>5, LimitAssumption DEF TypeOK
    <2>7. npc \in [Tasks -> {"none", "done"} \cup Live]
          /\ sem \in [Requests -> Nat] /\ wg \in [Jobs -> Nat]
      BY LimitAssumption DEF TypeOK
    <2>8. SlotCount'
      BY <2>1, <2>3, <2>5, <2>7, SlotStep
    <2>9. WgCount'
      BY <2>1, <2>3, <2>5, <2>7, WgStep
    <2>10. \A q : LiveJobs(q)' = LiveJobs(q)
      BY <2>1 DEF LiveJobs
    <2>11. OuterCount' /\ OneJob'
      BY <2>1, <2>10 DEF OuterCount, OneJob
    <2>12. \A u \in Tasks : u # t => npc'[u] = npc[u]
      BY <2>1, <2>7
    <2>13. \A k \in Jobs : k # j => LiveTasks(k)' = LiveTasks(k)
      BY <2>3, <2>12 DEF LiveTasks, TasksOf
    <2>14. \A k \in Jobs, m \in Networks :
             <<k, m>> \in Tasks /\ (<<k, m>> = t <=> k = j /\ m = n)
      BY Parts
    <2>15. \A k \in Jobs : todo'[k] = IF k = j THEN todo[j] \ {n} ELSE todo[k]
      BY <2>1 DEF TypeOK
    <2>16. Phases'
      <3> SUFFICES ASSUME NEW k \in Jobs
                   PROVE  /\ wpc[k] # "loop" => LiveTasks(k)' = {}
                          /\ wpc[k] = "none" =>
                               \A m \in Networks : npc'[<<k, m>>] = "none"
                          /\ wpc[k] = "loop" =>
                               \A m \in todo'[k] : npc'[<<k, m>>] = "none"
        BY <2>1 DEF Phases
      <3>1. todo[k] \subseteq Networks
        BY DEF TypeOK
      <3>2. CASE k = j
        BY <2>1, <2>12, <2>14, <2>15, <3>1, <3>2 DEF Phases
      <3>3. CASE k # j
        BY <2>12, <2>13, <2>14, <2>15, <3>1, <3>3 DEF Phases
      <3> QED BY <3>2, <3>3
    <2> QED BY <2>6, <2>8, <2>9, <2>11, <2>16
  <1>2. CASE AwaitNetworks(j)
    <2> USE <1>2 DEF AwaitNetworks, NetworksDone, requestVars, taskVars
    <2>1. LiveTasks(j) = {}
      BY Finiteness, FS_EmptySet DEF WgCount
    <2>2. rpc[r] \in {"all", "single"}
      BY DEF Phases
    <2>3. PICK v \in {"send", "mark", "leave"} :
            /\ wpc' = [wpc EXCEPT ![j] = v]
            /\ v = "send" => rpc[r] = "all"
      BY <2>2 DEF AfterResult
    <2>4. TypeOK'
      BY <2>3 DEF TypeOK
    <2>5. Accounting'
      BY <2>1, <2>3, JobGoesOn
    <2> QED BY <2>4, <2>5
  <1>3. CASE SendResult(j)
    <2> USE <1>3 DEF SendResult, taskVars
    <2>1. LiveTasks(j) = {}
      BY DEF Phases
    <2>2. PICK v \in {"mark", "leave"} : wpc' = [wpc EXCEPT ![j] = v]
      BY DEF AfterResult
    <2>3. TypeOK'
      BY <1>a, <2>2, DataTypes DEF TypeOK
    <2>4. Accounting'
      BY <2>1, <2>2, JobGoesOn
    <2> QED BY <2>3, <2>4
  <1>4. CASE MarkFailed(j)
    <2> USE <1>4 DEF MarkFailed, requestVars, taskVars
    <2>1. LiveTasks(j) = {} /\ rpc[r] \in {"all", "single"}
      BY DEF Phases
    <2>2. PICK v \in {"collect", "leave"} :
            wpc' = [wpc EXCEPT ![j] = v] /\ (v = "collect" => rpc[r] = "all")
      BY <2>1
    <2>3. TypeOK'
      BY <2>2, Parts DEF TypeOK
    <2>4. Accounting'
      BY <2>1, <2>2, JobGoesOn
    <2> QED BY <2>3, <2>4
  <1>5. CASE CollectErrors(j)
    <2> USE <1>5 DEF CollectErrors, taskVars
    <2>1. LiveTasks(j) = {}
      BY DEF Phases
    <2>2. TypeOK'
      BY <1>a, DataTypes DEF TypeOK
    <2>3. Accounting'
      BY <2>1, JobGoesOn
    <2> QED BY <2>2, <2>3
  <1>6. CASE LeaveAll(j)
    <2> USE <1>6 DEF LeaveAll, taskVars
    <2>1. j \in LiveJobs(r)
      BY DEF LiveJobs, JobsOf
    <2>2. outerWg[r] = Cardinality(LiveJobs(r)) /\ outerWg[r] \in Nat \ {0}
      BY <1>a, <2>1, Finiteness, OneMore DEF OuterCount, TypeOK
    <2>3. TypeOK'
      <3>1. outerWg[r] - 1 \in Nat
        BY <2>2
      <3>2. outerWg' \in [Requests -> Nat]
        BY <1>a, <3>1 DEF TypeOK
      <3> QED BY <3>2 DEF TypeOK
    <2>4. /\ SlotCount' /\ WgCount'
          /\ \A q \in Requests : LiveJobs(q)' = LiveJobs(q) \ {j}
          /\ \A k : LiveTasks(k)' = LiveTasks(k)
          /\ \A k \in Jobs : wpc'[k] = IF k = j THEN "done" ELSE wpc[k]
      BY JobEnds
    <2>5. Cardinality(LiveJobs(r)') = outerWg[r] - 1
      BY <1>a, <2>1, <2>2, <2>4, Finiteness, OneMore
    <2>6. \A q \in Requests : q # r => LiveJobs(q)' = LiveJobs(q)
      BY <2>4 DEF LiveJobs, JobsOf
    <2>7. OuterCount'
      BY <1>a, <2>5, <2>6 DEF OuterCount, TypeOK
    <2>8. Phases' /\ OneJob'
      BY <2>4 DEF Phases, OneJob
    <2> QED BY <2>3, <2>4, <2>7, <2>8
  <1>7. CASE RespondSingle(j)
    <2> USE <1>7 DEF RespondSingle, taskVars
    <2>1. j \in LiveJobs(r)
      BY DEF LiveJobs, JobsOf
    <2>2. TypeOK'
      BY <1>a, DataTypes DEF TypeOK
    <2>3. /\ SlotCount' /\ WgCount'
          /\ \A q \in Requests : LiveJobs(q)' = LiveJobs(q) \ {j}
          /\ \A k : LiveTasks(k)' = LiveTasks(k)
          /\ \A k \in Jobs : wpc'[k] = IF k = j THEN "done" ELSE wpc[k]
      BY JobEnds
    <2>4. LiveJobs(r)' = {}
      BY <1>a, <2>1, <2>3 DEF OneJob
    <2>5. \A q \in Requests : q # r => LiveJobs(q)' = LiveJobs(q)
      BY <2>3 DEF LiveJobs, JobsOf
    <2>6. \A q \in Requests : rpc'[q] = IF q = r THEN "done" ELSE rpc[q]
      BY DEF TypeOK
    <2>7. OuterCount'
      BY <1>a, <2>4, <2>5, <2>6, FS_EmptySet DEF OuterCount
    <2>8. \A k \in JobsOf(r) : wpc'[k] \in {"none", "done"}
      BY <2>4 DEF LiveJobs, JobsOf
    <2>9. Phases'
      BY <2>3, <2>6, <2>8, Parts DEF Phases, JobsOf
    <2>10. OneJob'
      BY <2>4, <2>5, <2>6 DEF OneJob
    <2> QED BY <2>2, <2>3, <2>7, <2>9, <2>10
  <1> QED BY <1>1, <1>2, <1>3, <1>4, <1>5, <1>6, <1>7 DEF JobStep

\* The steps of a network's goroutine.
LEMMA TaskStepIInv ==
  ASSUME IInv, NEW t \in Tasks, TaskStep(t)
  PROVE  IInv'
PROOF
  <1> USE DEF IInv, Accounting
  <1> DEFINE j == JobOf(t)
             r == RequestOf(JobOf(t))
  <1>a. j \in Jobs /\ r \in Requests /\ NetworkOf(t) \in Networks
    BY Parts
  <1>b. npc \in [Tasks -> {"none", "done"} \cup Live]
        /\ sem \in [Requests -> Nat] /\ wg \in [Jobs -> Nat]
    BY LimitAssumption DEF TypeOK
  \* A step inside the slot changes neither counter.
  <1>1. ASSUME NEW v \in Holding, npc[t] \in Holding,
               npc' = [npc EXCEPT ![t] = v],
               UNCHANGED <<rpc, outerWg, sem, wpc, todo, wg>>
        PROVE  Accounting'
    <2>1. npc[t] \in Live /\ v \in Live /\ v # "none"
      BY <1>1 DEF Live, Holding
    <2>2. SlotCount'
      BY <1>1, <1>b, SlotStep
    <2>3. WgCount'
      BY <1>1, <1>b, <2>1, WgStep
    <2>4. Phases' /\ OuterCount' /\ OneJob'
      BY <1>1, <2>1, TaskPhases
    <2> QED BY <2>2, <2>3, <2>4
  <1>2. CASE GetClient(t)
    <2> USE <1>2 DEF GetClient, requestVars, jobVars
    <2>1. TypeOK'
      BY <1>a DEF TypeOK, Live, Holding
    <2>2. Accounting'
      BY <1>1 DEF Holding
    <2> QED BY <2>1, <2>2
  <1>3. CASE GetClientFails(t)
    <2> USE <1>3 DEF GetClientFails, requestVars, jobVars
    <2>1. TypeOK'
      BY DataTypes DEF TypeOK, Live, Holding
    <2>2. Accounting'
      BY <1>1 DEF Holding
    <2> QED BY <2>1, <2>2
  <1>4. CASE FetchBalances(t)
    <2> USE <1>4 DEF FetchBalances, requestVars, jobVars
    <2>1. TypeOK'
      BY TypesAssumption DEF TypeOK, Live, Holding
    <2>2. Accounting'
      BY <1>1 DEF Holding
    <2> QED BY <2>1, <2>2
  <1>5. CASE LockWallet(t)
    <2> USE <1>5 DEF LockWallet, requestVars
    <2>1. TypeOK'
      BY <1>a DEF TypeOK, Live, Holding
    <2>2. Accounting'
      BY <1>1 DEF Holding
    <2> QED BY <2>1, <2>2
  <1>6. CASE MergeOutcome(t)
    <2> USE <1>6 DEF MergeOutcome, requestVars
    <2>1. /\ out[t] \in Outcome /\ EntryOf(out[t]) \in Entry
          /\ out[t].errs \subseteq ErrorKinds /\ out[t].value \in Nat
          /\ seen[t] \in Nat /\ overall[j] \in Nat
          /\ byNetwork[j] \in [Networks -> Entry]
      BY <1>a, DataTypes DEF TypeOK, Outcome
    <2>2. /\ errs' \in [Jobs -> SUBSET (Networks \X ErrorKinds)]
          /\ byNetwork' \in [Jobs -> [Networks -> Entry]]
          /\ overall' \in [Jobs -> Nat]
      <3>1. errs[j] \cup ({NetworkOf(t)} \X out[t].errs)
              \in SUBSET (Networks \X ErrorKinds)
        BY <1>a, <2>1 DEF TypeOK
      <3>2. errs' \in [Jobs -> SUBSET (Networks \X ErrorKinds)]
        BY <1>a, <3>1 DEF TypeOK
      <3>3. [byNetwork[j] EXCEPT ![NetworkOf(t)] = EntryOf(out[t])]
              \in [Networks -> Entry]
        BY <1>a, <2>1
      <3>4. byNetwork' \in [Jobs -> [Networks -> Entry]]
        BY <1>a, <3>3 DEF TypeOK
      <3>5. overall' \in [Jobs -> Nat]
        <4>1. seen[t] + out[t].value \in Nat
          BY <2>1
        <4>2. overall' = overall
              \/ overall' = [overall EXCEPT ![j] = seen[t] + out[t].value]
          OBVIOUS
        <4> QED BY <1>a, <4>1, <4>2 DEF TypeOK
      <3> QED BY <3>2, <3>4, <3>5
    <2>3. TypeOK'
      BY <1>a, <2>2 DEF TypeOK, Live, Holding
    <2>4. Accounting'
      BY <1>1 DEF Holding
    <2> QED BY <2>3, <2>4
  <1>7. CASE ReleaseSlot(t)
    <2> USE <1>7 DEF ReleaseSlot, jobVars
    <2>1. /\ npc[t] \in Holding /\ npc[t] \in Live
          /\ "finish" \notin Holding /\ "finish" \in Live
      BY DEF Live, Holding
    <2>2. sem[r] \in Nat \ {0}
      BY <1>b, <2>1, SlotStep
    <2>3. TypeOK'
      <3>1. sem[r] \in 0..MaxRoutines /\ sem[r] - 1 \in 0..MaxRoutines
        <4>1. sem[r] \in 0..MaxRoutines
          BY <1>a DEF TypeOK
        <4> QED BY <2>2, <4>1, LimitAssumption
      <3>2. sem' \in [Requests -> 0..MaxRoutines]
        BY <1>a, <3>1 DEF TypeOK
      <3> QED BY <2>1, <3>2 DEF TypeOK
    <2>4. SlotCount'
      BY <1>b, <2>1, SlotStep
    <2>5. WgCount'
      BY <1>b, <2>1, WgStep
    <2>6. Phases' /\ OuterCount' /\ OneJob'
      BY <2>1, TaskPhases
    <2> QED BY <2>3, <2>4, <2>5, <2>6
  <1>8. CASE Finish(t)
    <2> USE <1>8 DEF Finish, requestVars
    <2>1. /\ npc[t] \notin Holding /\ npc[t] \in Live
          /\ "done" \notin Holding /\ "done" \notin Live
      BY DEF Live, Holding
    <2>2. wg[j] \in Nat \ {0}
      BY <1>b, <2>1, WgStep
    <2>3. TypeOK'
      <3>1. wg[j] - 1 \in Nat
        BY <2>2
      <3>2. wg' \in [Jobs -> Nat]
        BY <1>a, <3>1 DEF TypeOK
      <3> QED BY <2>1, <3>2 DEF TypeOK
    <2>4. SlotCount'
      BY <1>b, <2>1, SlotStep
    <2>5. WgCount'
      BY <1>b, <2>1, WgStep
    <2>6. Phases' /\ OuterCount' /\ OneJob'
      BY <2>1, TaskPhases
    <2> QED BY <2>3, <2>4, <2>5, <2>6
  <1> QED BY <1>2, <1>3, <1>4, <1>5, <1>6, <1>7, <1>8 DEF TaskStep

\* A step that changes nothing.
LEMMA UnchangedIInv == IInv /\ UNCHANGED vars => IInv'
PROOF
  <1> SUFFICES ASSUME IInv, UNCHANGED vars PROVE IInv'
    OBVIOUS
  <1> USE DEF vars, requestVars, jobVars, taskVars
  <1>1. TypeOK'
    BY DEF IInv, TypeOK
  <1>2. /\ \A r : Holders(r)' = Holders(r) /\ LiveJobs(r)' = LiveJobs(r)
        /\ \A k : LiveTasks(k)' = LiveTasks(k)
    BY DEF Holders, LiveJobs, LiveTasks
  <1>3. SlotCount' /\ WgCount' /\ OuterCount'
    BY <1>2 DEF IInv, Accounting, SlotCount, WgCount, OuterCount
  <1>4. Phases' /\ OneJob'
    BY <1>2 DEF IInv, Accounting, Phases, OneJob
  <1> QED BY <1>1, <1>3, <1>4 DEF IInv, Accounting

\* Every counter of a request counts what it should, in every reachable state.
THEOREM AccountingInvariant == Spec => []IInv
PROOF
  <1>1. Init => IInv
    BY InitIInv
  <1>2. IInv /\ [Next]_vars => IInv'
    <2> SUFFICES ASSUME IInv, [Next]_vars PROVE IInv'
      OBVIOUS
    <2>1. CASE UNCHANGED vars
      BY <2>1, UnchangedIInv
    <2>2. CASE Terminated
      BY <2>1, <2>2 DEF Terminated
    <2>3. ASSUME NEW r \in Requests, RequestStep(r) PROVE IInv'
      BY <2>3, RequestStepIInv
    <2>4. ASSUME NEW j \in Jobs, JobStep(j) PROVE IInv'
      BY <2>4, JobStepIInv
    <2>5. ASSUME NEW t \in Tasks, TaskStep(t) PROVE IInv'
      BY <2>5, TaskStepIInv
    <2> QED BY <2>1, <2>2, <2>3, <2>4, <2>5 DEF Next
  <1> QED BY <1>1, <1>2, PTL DEF Spec

\* The variables always have the types of the code.
THEOREM TypeCorrect == Spec => []TypeOK
PROOF
  <1>1. IInv => TypeOK
    BY DEF IInv
  <1> QED BY <1>1, AccountingInvariant, PTL

\* No request ever has more than MaxRoutines network goroutines that hold a
\* slot, for any number of wallets and networks.
THEOREM SlotsAreBounded == Spec => []SlotsBounded
PROOF
  <1>1. IInv => SlotsBounded
    <2> SUFFICES ASSUME IInv, NEW r \in Requests
                 PROVE  Cardinality(Holders(r)) <= MaxRoutines
      BY DEF SlotsBounded
    <2>1. sem[r] \in 0..MaxRoutines /\ sem[r] = Cardinality(Holders(r))
      BY DEF IInv, TypeOK, Accounting, SlotCount
    <2> QED BY <2>1, LimitAssumption
  <1> QED BY <1>1, AccountingInvariant, PTL

\* An answered request has no goroutine left and has given back every slot.
THEOREM AnsweredIsQuiet == Spec => []QuietWhenAnswered
PROOF
  <1>1. IInv => QuietWhenAnswered
    <2> SUFFICES ASSUME IInv, NEW r \in Requests, rpc[r] = "done"
                 PROVE  /\ LiveJobs(r) = {}
                        /\ \A j \in JobsOf(r) : LiveTasks(j) = {}
                        /\ sem[r] = 0 /\ outerWg[r] = 0
      BY DEF QuietWhenAnswered
    <2>1. \A j \in JobsOf(r) : wpc[j] \in {"none", "done"}
      BY DEF IInv, Accounting, Phases, JobsOf, TypeOK
    <2>2. LiveJobs(r) = {}
      BY <2>1 DEF LiveJobs
    <2>3. \A j \in JobsOf(r) : LiveTasks(j) = {}
      BY <2>1 DEF IInv, Accounting, Phases, JobsOf
    <2>4. Holders(r) = {}
      BY <2>3, Parts DEF Holders, LiveTasks, TasksOf, JobsOf, Live
    <2>5. sem[r] = 0 /\ outerWg[r] = 0
      BY <2>2, <2>4, FS_EmptySet DEF IInv, Accounting, SlotCount, OuterCount
    <2> QED BY <2>2, <2>3, <2>5
  <1> QED BY <1>1, AccountingInvariant, PTL

\* Once a job has left its loop nothing writes its portfolio or its errors.
THEOREM PortfoliosAreFinal == Spec => NoLateWrites
PROOF
  <1> DEFINE Kept(j) == UNCHANGED <<errs[j], byNetwork[j], overall[j]>>
  <1>1. ASSUME IInv, [Next]_vars
        PROVE  \A j \in Jobs : wpc[j] \notin {"none", "loop"} => Kept(j)
    <2>1. CASE UNCHANGED <<errs, byNetwork, overall>>
      BY <2>1
    <2>2. ASSUME NEW t \in Tasks, MergeOutcome(t),
                 NEW j \in Jobs, wpc[j] \notin {"none", "loop"}
          PROVE  Kept(j)
      <3>1. t \in LiveTasks(JobOf(t)) /\ JobOf(t) \in Jobs
        BY <2>2, Parts DEF MergeOutcome, LiveTasks, TasksOf, Live, Holding
      <3>2. j # JobOf(t)
        BY <1>1, <2>2, <3>1 DEF IInv, Accounting, Phases
      <3>3. /\ errs'[j] = errs[j] /\ byNetwork'[j] = byNetwork[j]
            /\ overall'[j] = overall[j]
        BY <1>1, <2>2, <3>2 DEF MergeOutcome, IInv, TypeOK
      <3> QED BY <3>3
    <2>3. CASE UNCHANGED vars
      BY <2>1, <2>3 DEF vars, jobVars
    <2>4. CASE Next
      <3>1. ASSUME NEW r \in Requests, RequestStep(r)
            PROVE  UNCHANGED <<errs, byNetwork, overall>>
        BY <3>1 DEF RequestStep, Refuse, StartAll, StartSingle, StartJobs,
                    RespondAll, jobVars
      <3>2. ASSUME NEW j \in Jobs, JobStep(j)
            PROVE  UNCHANGED <<errs, byNetwork, overall>>
        BY <3>2 DEF JobStep, Acquire, AwaitNetworks, SendResult, MarkFailed,
                    CollectErrors, LeaveAll, RespondSingle
      <3>3. ASSUME NEW t \in Tasks, TaskStep(t), ~MergeOutcome(t)
            PROVE  UNCHANGED <<errs, byNetwork, overall>>
        BY <3>3 DEF TaskStep, GetClient, GetClientFails, FetchBalances,
                    LockWallet, ReleaseSlot, Finish, jobVars
      <3> QED BY <2>1, <2>2, <2>3, <2>4, <3>1, <3>2, <3>3 DEF Next, Terminated
    <2> QED BY <1>1, <2>3, <2>4
  <1>2. IInv /\ [Next]_vars =>
          [\A j \in Jobs : wpc[j] \notin {"none", "loop"} => Kept(j)]_vars
    BY <1>1
  <1> QED BY <1>2, AccountingInvariant, PTL DEF Spec, NoLateWrites
-----------------------------------------------------------------------------
(* What Accounting does not say: what the portfolios and the errors hold.  *)

\* The outcome the promise knows of a task, and the jobs that have handed over.
Known(t) == IF npc[t] \in Merged THEN out[t] ELSE Nothing
HandedOver == {"mark", "collect", "leave", "done"}

\* A portfolio holds exactly the merged outcomes of its tasks.
Contents == \A j \in Jobs, n \in Networks :
  /\ byNetwork[j][n] = EntryOf(Known(<<j, n>>))
  /\ \A k \in ErrorKinds : <<n, k>> \in errs[j] <=> k \in Known(<<j, n>>).errs

\* A task in the critical section is alone there, and its read of the total
\* still holds.
Locked ==
  /\ \A t \in Tasks : npc[t] = "locked" =>
       mu[JobOf(t)] /\ seen[t] = overall[JobOf(t)]
  /\ \A t, u \in Tasks :
       npc[t] = "locked" /\ npc[u] = "locked" /\ JobOf(t) = JobOf(u) => t = u

\* What is merged came from a fetch or from a client that failed.
Fetched == \A t \in Tasks :
  npc[t] \in {"merge", "locked"} \cup Merged => out[t] \in Outcomes \cup {ClientFailure}

\* The jobs are the wallets of the request, their tasks its networks, and a job
\* that has left its loop has seen all of them end.
Covered == \A j \in Jobs :
  /\ wpc[j] # "none" => WalletOf(j) \in asked[RequestOf(j)].wallets
  /\ rpc[RequestOf(j)] \in {"all", "single"}
       /\ WalletOf(j) \in asked[RequestOf(j)].wallets => wpc[j] # "none"
  /\ wpc[j] = "done" => rpc[RequestOf(j)] # "single"
  /\ wpc[j] = "loop" => todo[j] \subseteq asked[RequestOf(j)].nets
  /\ \A n \in Networks :
       /\ npc[<<j, n>>] # "none" => n \in asked[RequestOf(j)].nets
       /\ n \in asked[RequestOf(j)].nets =>
            /\ wpc[j] = "loop" => n \in todo[j] \/ npc[<<j, n>>] # "none"
            /\ wpc[j] \notin {"none", "loop"} => npc[<<j, n>>] = "done"

\* A wallet with errors is listed before its job ends.
Marked == \A j \in Jobs :
  /\ wpc[j] = "mark" => errs[j] # {}
  /\ wpc[j] = "collect" => WalletOf(j) \in failedWallets
  /\ wpc[j] \in {"leave", "done"} /\ errs[j] # {} => WalletOf(j) \in failedWallets

\* The channel and the slice of errors hold what the jobs handed over.
Collected == \A r \in Requests :
  /\ results[r] \subseteq {PortfolioOf(j) : j \in {k \in JobsOf(r) : wpc[k] \in HandedOver}}
  /\ rpc[r] \in {"idle", "all"} =>
       /\ \A j \in JobsOf(r) : wpc[j] \in HandedOver => PortfolioOf(j) \in results[r]
       /\ allErrors[r] =
            UNION {WalletErrors(j) : j \in {k \in JobsOf(r) : wpc[k] \in {"leave", "done"}}}

RInv == /\ IInv
        /\ Contents /\ Locked /\ Fetched /\ Covered /\ Marked /\ Collected

LEMMA InitRInv == Init => RInv
PROOF
  <1> SUFFICES ASSUME Init PROVE RInv
    OBVIOUS
  <1> USE DEF Init
  <1>1. IInv
    BY InitIInv
  <1>2. Contents
    BY Parts DEF Contents, Known, Merged, EntryOf, Nothing, NoEntry
  <1>3. Locked /\ Fetched
    BY DEF Locked, Fetched, Merged
  <1>4. Covered /\ Marked
    BY Parts DEF Covered, Marked
  <1>5. Collected
    BY DEF Collected, HandedOver, JobsOf
  <1> QED BY <1>1, <1>2, <1>3, <1>4, <1>5 DEF RInv

\* What was handed over stays collected while jobs and requests go on, as long
\* as no job hands over.
LEMMA StillCollected ==
  ASSUME Collected,
         \A k \in Jobs : /\ wpc'[k] \in HandedOver <=> wpc[k] \in HandedOver
                         /\ rpc[RequestOf(k)] # "single" =>
                              (wpc'[k] \in {"leave", "done"} <=>
                               wpc[k] \in {"leave", "done"})
                         /\ wpc[k] \in HandedOver =>
                              PortfolioOf(k)' = PortfolioOf(k)
                              /\ WalletErrors(k)' = WalletErrors(k),
         \A q \in Requests : rpc'[q] \in {"idle", "all"} => rpc[q] \in {"idle", "all"},
         UNCHANGED <<results, allErrors>>
  PROVE  Collected'
PROOF
  <1> SUFFICES ASSUME NEW q \in Requests
               PROVE  /\ results[q] \subseteq
                           {PortfolioOf(j)' : j \in {k \in JobsOf(q) : wpc'[k] \in HandedOver}}
                      /\ rpc'[q] \in {"idle", "all"} =>
                           /\ \A j \in JobsOf(q) : wpc'[j] \in HandedOver =>
                                PortfolioOf(j)' \in results[q]
                           /\ allErrors[q] = UNION {WalletErrors(j)' :
                                j \in {k \in JobsOf(q) : wpc'[k] \in {"leave", "done"}}}
    BY DEF Collected
  <1>1. {k \in JobsOf(q) : wpc'[k] \in HandedOver} = {k \in JobsOf(q) : wpc[k] \in HandedOver}
    BY DEF JobsOf
  <1>2. results[q] \subseteq
          {PortfolioOf(j)' : j \in {k \in JobsOf(q) : wpc'[k] \in HandedOver}}
    BY <1>1 DEF Collected, JobsOf
  <1>3. ASSUME rpc'[q] \in {"idle", "all"}
        PROVE  /\ \A j \in JobsOf(q) : wpc'[j] \in HandedOver =>
                    PortfolioOf(j)' \in results[q]
               /\ allErrors[q] = UNION {WalletErrors(j)' :
                    j \in {k \in JobsOf(q) : wpc'[k] \in {"leave", "done"}}}
    <2>1. {k \in JobsOf(q) : wpc'[k] \in {"leave", "done"}}
            = {k \in JobsOf(q) : wpc[k] \in {"leave", "done"}}
      BY <1>3 DEF JobsOf
    <2>2. \A j \in {k \in JobsOf(q) : wpc[k] \in {"leave", "done"}} :
            WalletErrors(j)' = WalletErrors(j)
      BY DEF JobsOf, HandedOver
    <2>3. {WalletErrors(j)' : j \in {k \in JobsOf(q) : wpc'[k] \in {"leave", "done"}}}
            = {WalletErrors(j) : j \in {k \in JobsOf(q) : wpc[k] \in {"leave", "done"}}}
      BY <2>1, <2>2
    <2>4. allErrors[q] = UNION {WalletErrors(j) :
             j \in {k \in JobsOf(q) : wpc[k] \in {"leave", "done"}}}
      BY <1>3 DEF Collected
    <2>5. \A j \in JobsOf(q) : wpc'[j] \in HandedOver => PortfolioOf(j)' \in results[q]
      BY <1>3 DEF Collected, JobsOf
    <2> QED BY <2>3, <2>4, <2>5
  <1> QED BY <1>2, <1>3

\* A step that moves no task leaves what is said of the tasks.
LEMMA TasksStay ==
  ASSUME Contents, Locked, Fetched,
         UNCHANGED <<npc, out, seen, mu, byNetwork, errs, overall>>
  PROVE  Contents' /\ Locked' /\ Fetched'
PROOF
  BY DEF Contents, Known, Locked, Fetched

\* The steps of a request's goroutine.
LEMMA RequestStepRInv ==
  ASSUME RInv, NEW r \in Requests, RequestStep(r)
  PROVE  RInv'
PROOF
  <1> USE DEF RInv
  <1>i. IInv'
    BY RequestStepIInv
  <1>t. TypeOK /\ Phases
    BY DEF IInv, Accounting
  <1>1. CASE Refuse(r)
    <2> USE <1>1 DEF Refuse, jobVars, taskVars
    <2>1. Contents' /\ Locked' /\ Fetched'
      BY TasksStay
    <2>2. Covered' /\ Marked'
      BY <1>t, Parts DEF Covered, Marked, TypeOK
    <2>3. Collected'
      BY <1>t, StillCollected DEF TypeOK, PortfolioOf, WalletErrors
    <2> QED BY <1>i, <2>1, <2>2, <2>3
  <1>2. ASSUME NEW kind \in {"all", "single"}, NEW ws \in SUBSET Wallets,
               NEW nets \in SUBSET Networks, StartJobs(r, kind, ws, nets)
        PROVE  RInv'
    <2> USE <1>2 DEF StartJobs, taskVars
    <2>1. Contents' /\ Locked' /\ Fetched'
      BY TasksStay
    <2>2. \A k \in Jobs : RequestOf(k) = r =>
            wpc[k] = "none" /\ \A n \in Networks : npc[<<k, n>>] = "none"
      BY <1>t DEF Phases
    <2>3. \A k \in Jobs :
            /\ RequestOf(k) # r \/ WalletOf(k) \notin ws =>
                 wpc'[k] = wpc[k] /\ todo'[k] = todo[k]
            /\ RequestOf(k) = r /\ WalletOf(k) \in ws =>
                 wpc'[k] = "loop" /\ todo'[k] = nets
      OBVIOUS
    <2>4. \A q \in Requests :
            /\ q # r => rpc'[q] = rpc[q] /\ asked'[q] = asked[q]
            /\ q = r => rpc'[q] = kind
                        /\ asked'[q].wallets = ws /\ asked'[q].nets = nets
      BY <1>t DEF TypeOK
    <2>5. Covered'
      <3> SUFFICES ASSUME NEW k \in Jobs
                   PROVE  /\ wpc'[k] # "none" => WalletOf(k) \in asked'[RequestOf(k)].wallets
                          /\ rpc'[RequestOf(k)] \in {"all", "single"}
                               /\ WalletOf(k) \in asked'[RequestOf(k)].wallets
                             => wpc'[k] # "none"
                          /\ wpc'[k] = "done" => rpc'[RequestOf(k)] # "single"
                          /\ wpc'[k] = "loop" => todo'[k] \subseteq asked'[RequestOf(k)].nets
                          /\ \A n \in Networks :
                               /\ npc[<<k, n>>] # "none" => n \in asked'[RequestOf(k)].nets
                               /\ n \in asked'[RequestOf(k)].nets =>
                                    /\ wpc'[k] = "loop" =>
                                         n \in todo'[k] \/ npc[<<k, n>>] # "none"
                                    /\ wpc'[k] \notin {"none", "loop"} =>
                                         npc[<<k, n>>] = "done"
        BY DEF Covered
      <3>1. CASE RequestOf(k) = r
        BY <2>2, <2>3, <2>4, <3>1
      <3>2. CASE RequestOf(k) # r
        BY <2>3, <2>4, <3>2, Parts DEF Covered
      <3> QED BY <3>1, <3>2
    <2>6. Marked'
      BY <2>2, <2>3 DEF Marked
    <2>7. Collected'
      <3>1. \A k \in Jobs : wpc'[k] # wpc[k] => wpc[k] = "none" /\ wpc'[k] = "loop"
        BY <2>2, <2>3
      <3> QED BY <2>4, <3>1, StillCollected
              DEF HandedOver, PortfolioOf, WalletErrors
    <2> QED BY <1>i, <2>1, <2>5, <2>6, <2>7
  <1>3. CASE StartAll(r)
    BY <1>2, <1>3 DEF StartAll
  <1>4. CASE StartSingle(r)
    <2>1. \A w \in Wallets : {w} \in SUBSET Wallets
      OBVIOUS
    <2> QED BY <1>2, <1>4, <2>1 DEF StartSingle
  <1>5. CASE RespondAll(r)
    <2> USE <1>5 DEF RespondAll, jobVars, taskVars
    <2>1. Contents' /\ Locked' /\ Fetched'
      BY TasksStay
    <2>2. Covered' /\ Marked'
      BY <1>t, Parts DEF Covered, Marked, TypeOK
    <2>3. Collected'
      BY <1>t, StillCollected DEF TypeOK, PortfolioOf, WalletErrors
    <2> QED BY <1>i, <2>1, <2>2, <2>3
  <1> QED BY <1>1, <1>3, <1>4, <1>5 DEF RequestStep

\* A job that moves on keeps what is said of its request, its wallet and its tasks.
LEMMA CoveredMoves ==
  ASSUME TypeOK, Covered, NEW j \in Jobs, wpc[j] # "none", NEW v, v # "none",
         wpc' = [wpc EXCEPT ![j] = v], v # "loop",
         v = "done" => rpc'[RequestOf(j)] # "single",
         \A n \in Networks : n \in asked[RequestOf(j)].nets => npc[<<j, n>>] = "done",
         \A q \in Requests : rpc'[q] \in {"all", "single"} => rpc'[q] = rpc[q],
         UNCHANGED <<asked, todo, npc>>
  PROVE  Covered'
PROOF
  <1>1. \A k \in Jobs : wpc'[k] = IF k = j THEN v ELSE wpc[k]
    BY DEF TypeOK
  <1> QED BY <1>1, Parts DEF Covered

\* The steps of a wallet's goroutine.
LEMMA JobStepRInv ==
  ASSUME RInv, NEW j \in Jobs, JobStep(j)
  PROVE  RInv'
PROOF
  <1> USE DEF RInv
  <1> DEFINE r == RequestOf(j)
  <1>i. IInv'
    BY JobStepIInv
  <1>t. TypeOK /\ Phases /\ WgCount /\ r \in Requests
    BY Parts DEF IInv, Accounting
  \* A job past its loop whose portfolio and errors stay, and whose request takes
  \* no new one.
  <1>a. ASSUME wpc[j] \notin {"none", "loop"}
        PROVE  \A n \in Networks :
                 n \in asked[r].nets => npc[<<j, n>>] = "done"
    BY <1>a DEF Covered
  <1>b. ASSUME UNCHANGED <<byNetwork, overall, errs>>
        PROVE  \A k : PortfolioOf(k)' = PortfolioOf(k)
                      /\ WalletErrors(k)' = WalletErrors(k)
    BY <1>b DEF PortfolioOf, WalletErrors
  <1>1. CASE Acquire(j)
    <2>1. PICK n \in todo[j] :
            /\ wpc[j] = "loop"
            /\ todo' = [todo EXCEPT ![j] = @ \ {n}]
            /\ npc'  = [npc EXCEPT ![<<j, n>>] = "client"]
            /\ UNCHANGED <<rpc, asked, results, allErrors, wpc, mu,
                           errs, byNetwork, overall, out, seen, failedWallets>>
      BY <1>1 DEF Acquire
    <2>2. n \in Networks /\ todo[j] \subseteq Networks
      BY <1>t DEF TypeOK
    <2>3. npc[<<j, n>>] = "none"
      BY <1>t, <2>1 DEF Phases
    <2>4. \A u \in Tasks : npc'[u] = IF u = <<j, n>> THEN "client" ELSE npc[u]
      BY <1>t, <2>1 DEF TypeOK
    <2>5. \A u \in Tasks : Known(u)' = Known(u)
      BY <2>1, <2>3, <2>4 DEF Known, Merged
    <2>6. Contents'
      BY <2>1, <2>5, Parts DEF Contents
    <2>7. Locked' /\ Fetched'
      BY <2>1, <2>4, <2>3 DEF Locked, Fetched, Merged
    <2>8. \A k \in Jobs, m \in Networks :
            <<k, m>> \in Tasks /\ (<<k, m>> = <<j, n>> <=> k = j /\ m = n)
      BY Parts
    <2>9. \A k \in Jobs : todo'[k] = IF k = j THEN todo[j] \ {n} ELSE todo[k]
      BY <1>t, <2>1 DEF TypeOK
    <2>10. Covered'
      <3> SUFFICES ASSUME NEW k \in Jobs
                   PROVE  /\ wpc[k] = "loop" => todo'[k] \subseteq asked[RequestOf(k)].nets
                          /\ \A m \in Networks :
                               /\ npc'[<<k, m>>] # "none" => m \in asked[RequestOf(k)].nets
                               /\ m \in asked[RequestOf(k)].nets =>
                                    /\ wpc[k] = "loop" =>
                                         m \in todo'[k] \/ npc'[<<k, m>>] # "none"
                                    /\ wpc[k] \notin {"none", "loop"} =>
                                         npc'[<<k, m>>] = "done"
        BY <2>1 DEF Covered
      <3> QED BY <2>1, <2>4, <2>8, <2>9 DEF Covered
    <2>11. Marked'
      BY <2>1 DEF Marked
    <2>12. Collected'
      BY <1>b, <2>1, StillCollected
    <2> QED BY <1>i, <2>6, <2>7, <2>10, <2>11, <2>12
  <1>2. CASE AwaitNetworks(j)
    <2> USE <1>2 DEF AwaitNetworks, NetworksDone, requestVars, taskVars
    <2>1. Contents' /\ Locked' /\ Fetched'
      BY TasksStay
    <2>2. LiveTasks(j) = {}
      BY <1>t, Finiteness, FS_EmptySet DEF WgCount
    <2>3. \A n \in Networks : n \in asked[r].nets => npc[<<j, n>>] = "done"
      <3> SUFFICES ASSUME NEW n \in Networks, n \in asked[r].nets
                   PROVE  npc[<<j, n>>] = "done"
        OBVIOUS
      <3>1. npc[<<j, n>>] # "none"
        BY DEF Covered
      <3>2. npc[<<j, n>>] \notin Live
        BY <2>2, Parts DEF LiveTasks, TasksOf
      <3> QED BY <1>t, <3>1, <3>2, Parts DEF TypeOK
    <2>4. rpc[r] \in {"all", "single"}
      BY <1>t DEF Phases
    <2>5. PICK v \in {"send", "mark", "leave"} :
            /\ wpc' = [wpc EXCEPT ![j] = v]
            /\ v = "mark" => errs[j] # {}
            /\ v = "leave" => errs[j] = {}
            /\ v # "send" => rpc[r] = "single"
            /\ v = "send" => rpc[r] = "all"
      BY <2>4 DEF AfterResult
    <2>6. Covered'
      BY <1>t, <2>3, <2>5, CoveredMoves
    <2>7. \A k \in Jobs : wpc'[k] = IF k = j THEN v ELSE wpc[k]
      BY <1>t, <2>5 DEF TypeOK
    <2>8. Marked'
      BY <2>5, <2>7 DEF Marked
    <2>9. Collected'
      <3>1. CASE v = "send"
        BY <1>b, <2>7, <3>1, StillCollected DEF HandedOver
      <3>2. CASE v # "send"
        <4> SUFFICES ASSUME NEW q \in Requests
                     PROVE  /\ results[q] \subseteq
                                 {PortfolioOf(l)' : l \in {k \in JobsOf(q) : wpc'[k] \in HandedOver}}
                            /\ rpc[q] \in {"idle", "all"} =>
                                 /\ \A l \in JobsOf(q) : wpc'[l] \in HandedOver =>
                                      PortfolioOf(l)' \in results[q]
                                 /\ allErrors[q] = UNION {WalletErrors(l)' :
                                      l \in {k \in JobsOf(q) : wpc'[k] \in {"leave", "done"}}}
          BY DEF Collected
        <4>1. \A l : PortfolioOf(l)' = PortfolioOf(l) /\ WalletErrors(l)' = WalletErrors(l)
          BY <1>b
        <4>2. results[q] \subseteq
                {PortfolioOf(l)' : l \in {k \in JobsOf(q) : wpc'[k] \in HandedOver}}
          BY <2>5, <2>7, <3>2, <4>1 DEF Collected, JobsOf, HandedOver
        <4>3. ASSUME rpc[q] \in {"idle", "all"}
              PROVE  /\ \A l \in JobsOf(q) : wpc'[l] \in HandedOver =>
                          PortfolioOf(l)' \in results[q]
                     /\ allErrors[q] = UNION {WalletErrors(l)' :
                          l \in {k \in JobsOf(q) : wpc'[k] \in {"leave", "done"}}}
          <5>1. \A k \in JobsOf(q) : wpc'[k] = wpc[k]
            BY <2>5, <2>7, <3>2, <4>3 DEF JobsOf
          <5>2. {k \in JobsOf(q) : wpc'[k] \in {"leave", "done"}}
                  = {k \in JobsOf(q) : wpc[k] \in {"leave", "done"}}
            BY <5>1
          <5>3. {WalletErrors(l)' : l \in {k \in JobsOf(q) : wpc'[k] \in {"leave", "done"}}}
                  = {WalletErrors(l) : l \in {k \in JobsOf(q) : wpc[k] \in {"leave", "done"}}}
            BY <4>1, <5>2
          <5>4. \A l \in JobsOf(q) : wpc'[l] \in HandedOver => PortfolioOf(l)' \in results[q]
            BY <4>1, <4>3, <5>1 DEF Collected
          <5> QED BY <4>3, <5>3, <5>4 DEF Collected
        <4> QED BY <4>2, <4>3
      <3> QED BY <3>1, <3>2
    <2> QED BY <1>i, <2>1, <2>6, <2>8, <2>9
  <1>3. CASE SendResult(j)
    <2> USE <1>3 DEF SendResult, taskVars
    <2>1. Contents' /\ Locked' /\ Fetched'
      BY TasksStay
    <2>2. rpc[r] = "all"
      BY <1>t DEF Phases
    <2>3. PICK v \in {"mark", "leave"} :
            /\ wpc' = [wpc EXCEPT ![j] = v]
            /\ v = "mark" <=> errs[j] # {}
      BY DEF AfterResult
    <2>4. Covered'
      BY <1>a, <1>t, <2>3, CoveredMoves
    <2>5. \A k \in Jobs : wpc'[k] = IF k = j THEN v ELSE wpc[k]
      BY <1>t, <2>3 DEF TypeOK
    <2>6. Marked'
      BY <2>3, <2>5 DEF Marked
    <2>7. \A l : PortfolioOf(l)' = PortfolioOf(l) /\ WalletErrors(l)' = WalletErrors(l)
      BY <1>b
    <2>8. \A q \in Requests : results'[q] = IF q = r THEN results[r] \cup {PortfolioOf(j)}
                                            ELSE results[q]
      BY <1>t DEF TypeOK
    <2>9. Collected'
      <3> SUFFICES ASSUME NEW q \in Requests
                   PROVE  /\ results'[q] \subseteq
                               {PortfolioOf(l)' : l \in {k \in JobsOf(q) : wpc'[k] \in HandedOver}}
                          /\ rpc[q] \in {"idle", "all"} =>
                               /\ \A l \in JobsOf(q) : wpc'[l] \in HandedOver =>
                                    PortfolioOf(l)' \in results'[q]
                               /\ allErrors[q] = UNION {WalletErrors(l)' :
                                    l \in {k \in JobsOf(q) : wpc'[k] \in {"leave", "done"}}}
        BY DEF Collected
      <3>1. j \in JobsOf(r) /\ wpc'[j] \in HandedOver
        BY <2>5 DEF JobsOf, HandedOver
      <3>2. results'[q] \subseteq
              {PortfolioOf(l)' : l \in {k \in JobsOf(q) : wpc'[k] \in HandedOver}}
        <4>1. results[q] \subseteq
                {PortfolioOf(l)' : l \in {k \in JobsOf(q) : wpc'[k] \in HandedOver}}
          BY <2>5, <2>7 DEF Collected, JobsOf, HandedOver
        <4> QED BY <2>7, <2>8, <3>1, <4>1
      <3>3. ASSUME rpc[q] \in {"idle", "all"}
            PROVE  /\ \A l \in JobsOf(q) : wpc'[l] \in HandedOver =>
                        PortfolioOf(l)' \in results'[q]
                   /\ allErrors[q] = UNION {WalletErrors(l)' :
                        l \in {k \in JobsOf(q) : wpc'[k] \in {"leave", "done"}}}
        <4>1. \A l \in JobsOf(q) : wpc'[l] \in HandedOver => PortfolioOf(l)' \in results'[q]
          BY <2>5, <2>7, <2>8, <3>3 DEF Collected, JobsOf
        <4> DEFINE E(S) == {WalletErrors(l) : l \in S}
                   Before == {k \in JobsOf(q) : wpc[k] \in {"leave", "done"}}
                   After  == {k \in JobsOf(q) : wpc'[k] \in {"leave", "done"}}
        <4>2. After = Before \/ (After = Before \cup {j} /\ errs[j] = {})
          BY <2>3, <2>5 DEF JobsOf
        <4>3. errs[j] = {} => WalletErrors(j) = {}
          BY DEF WalletErrors
        <4>4. {WalletErrors(l)' : l \in After} = E(After)
          BY <2>7
        <4>5. UNION E(After) = UNION E(Before)
          BY <4>2, <4>3
        <4>6. allErrors[q] = UNION E(Before)
          BY <3>3 DEF Collected
        <4> QED BY <4>1, <4>4, <4>5, <4>6
      <3> QED BY <3>2, <3>3
    <2> QED BY <1>i, <2>1, <2>4, <2>6, <2>9
  <1>4. CASE MarkFailed(j)
    <2> USE <1>4 DEF MarkFailed, requestVars, taskVars
    <2>1. Contents' /\ Locked' /\ Fetched'
      BY TasksStay
    <2>2. PICK v \in {"collect", "leave"} :
            wpc' = [wpc EXCEPT ![j] = v] /\ (v = "leave" => rpc[r] = "single")
      OBVIOUS
    <2>3. Covered'
      BY <1>a, <1>t, <2>2, CoveredMoves
    <2>4. \A k \in Jobs : wpc'[k] = IF k = j THEN v ELSE wpc[k]
      BY <1>t, <2>2 DEF TypeOK
    <2>5. Marked'
      BY <2>4 DEF Marked
    <2>6. Collected'
      BY <1>b, <2>2, <2>4, StillCollected DEF HandedOver
    <2> QED BY <1>i, <2>1, <2>3, <2>5, <2>6
  <1>5. CASE CollectErrors(j)
    <2> USE <1>5 DEF CollectErrors, taskVars
    <2>1. Contents' /\ Locked' /\ Fetched'
      BY TasksStay
    <2>2. Covered'
      BY <1>a, <1>t, CoveredMoves
    <2>3. \A k \in Jobs : wpc'[k] = IF k = j THEN "leave" ELSE wpc[k]
      BY <1>t DEF TypeOK
    <2>4. Marked'
      BY <2>3 DEF Marked
    <2>5. \A l : PortfolioOf(l)' = PortfolioOf(l) /\ WalletErrors(l)' = WalletErrors(l)
      BY <1>b
    <2>6. \A q \in Requests : allErrors'[q] = IF q = r THEN allErrors[r] \cup WalletErrors(j)
                                              ELSE allErrors[q]
      BY <1>t DEF TypeOK
    <2>7. Collected'
      <3> SUFFICES ASSUME NEW q \in Requests
                   PROVE  /\ results[q] \subseteq
                               {PortfolioOf(l)' : l \in {k \in JobsOf(q) : wpc'[k] \in HandedOver}}
                          /\ rpc[q] \in {"idle", "all"} =>
                               /\ \A l \in JobsOf(q) : wpc'[l] \in HandedOver =>
                                    PortfolioOf(l)' \in results[q]
                               /\ allErrors'[q] = UNION {WalletErrors(l)' :
                                    l \in {k \in JobsOf(q) : wpc'[k] \in {"leave", "done"}}}
        BY DEF Collected
      <3>1. {k \in JobsOf(q) : wpc'[k] \in HandedOver} = {k \in JobsOf(q) : wpc[k] \in HandedOver}
        BY <2>3 DEF JobsOf, HandedOver
      <3>2. results[q] \subseteq
              {PortfolioOf(l)' : l \in {k \in JobsOf(q) : wpc'[k] \in HandedOver}}
        BY <2>5, <3>1 DEF Collected
      <3>3. ASSUME rpc[q] \in {"idle", "all"}
            PROVE  /\ \A l \in JobsOf(q) : wpc'[l] \in HandedOver =>
                        PortfolioOf(l)' \in results[q]
                   /\ allErrors'[q] = UNION {WalletErrors(l)' :
                        l \in {k \in JobsOf(q) : wpc'[k] \in {"leave", "done"}}}
        <4>1. \A l \in JobsOf(q) : wpc'[l] \in HandedOver => PortfolioOf(l)' \in results[q]
          BY <2>5, <3>1, <3>3 DEF Collected
        <4> DEFINE E(S) == {WalletErrors(l) : l \in S}
                   Before == {k \in JobsOf(q) : wpc[k] \in {"leave", "done"}}
                   After  == {k \in JobsOf(q) : wpc'[k] \in {"leave", "done"}}
        <4>2. After = IF q = r THEN Before \cup {j} ELSE Before
          BY <2>3 DEF JobsOf
        <4>3. {WalletErrors(l)' : l \in After} = E(After)
          BY <2>5
        <4>4. UNION E(After) = IF q = r THEN (UNION E(Before)) \cup WalletErrors(j)
                               ELSE UNION E(Before)
          BY <4>2
        <4>5. allErrors[q] = UNION E(Before)
          BY <3>3 DEF Collected
        <4> QED BY <2>6, <4>1, <4>3, <4>4, <4>5
      <3> QED BY <3>2, <3>3
    <2> QED BY <1>i, <2>1, <2>2, <2>4, <2>7
  <1>6. CASE LeaveAll(j)
    <2> USE <1>6 DEF LeaveAll, taskVars
    <2>1. Contents' /\ Locked' /\ Fetched'
      BY TasksStay
    <2>2. Covered'
      BY <1>a, <1>t, CoveredMoves
    <2>3. \A k \in Jobs : wpc'[k] = IF k = j THEN "done" ELSE wpc[k]
      BY <1>t DEF TypeOK
    <2>4. Marked'
      BY <2>3 DEF Marked
    <2>5. Collected'
      BY <1>b, <2>3, StillCollected DEF HandedOver
    <2> QED BY <1>i, <2>1, <2>2, <2>4, <2>5
  <1>7. CASE RespondSingle(j)
    <2> USE <1>7 DEF RespondSingle, taskVars
    <2>1. Contents' /\ Locked' /\ Fetched'
      BY TasksStay
    <2>2. \A q \in Requests : rpc'[q] = IF q = r THEN "done" ELSE rpc[q]
      BY <1>t DEF TypeOK
    <2>3. Covered'
      <3>1. /\ rpc'[r] # "single"
            /\ \A q \in Requests : rpc'[q] \in {"all", "single"} => rpc'[q] = rpc[q]
        BY <1>t, <2>2
      <3>2. \A n \in Networks : n \in asked[r].nets => npc[<<j, n>>] = "done"
        BY <1>a
      <3> QED BY <1>t, <3>1, <3>2, CoveredMoves
    <2>4. \A k \in Jobs : wpc'[k] = IF k = j THEN "done" ELSE wpc[k]
      BY <1>t DEF TypeOK
    <2>5. Marked'
      BY <2>4 DEF Marked
    <2>6. Collected'
      BY <1>b, <2>2, <2>4, StillCollected DEF HandedOver
    <2> QED BY <1>i, <2>1, <2>3, <2>5, <2>6
  <1> QED BY <1>1, <1>2, <1>3, <1>4, <1>5, <1>6, <1>7 DEF JobStep

\* The steps of a network's goroutine.  Only MergeOutcome changes what a portfolio
\* holds, of a job that is still in its loop.
LEMMA TaskStepRInv ==
  ASSUME RInv, NEW t \in Tasks, TaskStep(t)
  PROVE  RInv'
PROOF
  <1> USE DEF RInv
  <1> DEFINE j == JobOf(t)
             n == NetworkOf(t)
  <1>i. IInv'
    BY TaskStepIInv
  <1>t. TypeOK /\ Phases
    BY DEF IInv, Accounting
  <1>a. j \in Jobs /\ n \in Networks /\ t = <<j, n>>
        /\ \A k \in Jobs, m \in Networks :
             <<k, m>> \in Tasks /\ (<<k, m>> = t <=> k = j /\ m = n)
    BY Parts
  <1>b. npc[t] \in Live => wpc[j] = "loop"
    BY <1>a, <1>t DEF Phases, LiveTasks, TasksOf
  \* A task that is not done and moves leaves the jobs as they are.
  <1>c. ASSUME npc[t] \in Live, NEW v, v # "none", npc' = [npc EXCEPT ![t] = v],
               UNCHANGED <<rpc, asked, wpc, todo>>
        PROVE  Covered'
    <2>1. \A u \in Tasks : npc'[u] = IF u = t THEN v ELSE npc[u]
      BY <1>c, <1>t DEF TypeOK
    <2>2. wpc[j] = "loop" /\ npc[t] # "none"
      BY <1>b, <1>c DEF Live, Holding
    <2> QED BY <1>a, <1>c, <2>1, <2>2 DEF Covered
  \* A task that moves without its outcome keeps what is known.
  <1>d. ASSUME NEW v, npc' = [npc EXCEPT ![t] = v],
               npc[t] \in Merged <=> v \in Merged,
               npc[t] \in Merged => out' = out,
               \A u \in Tasks : u # t => out'[u] = out[u],
               UNCHANGED <<byNetwork, errs>>
        PROVE  Contents'
    <2>1. \A u \in Tasks : npc'[u] = IF u = t THEN v ELSE npc[u]
      BY <1>d, <1>t DEF TypeOK
    <2>2. \A u \in Tasks : Known(u)' = Known(u)
      BY <1>d, <2>1 DEF Known
    <2> QED BY <1>a, <1>d, <2>2 DEF Contents
  <1>e. ASSUME UNCHANGED <<rpc, wpc, results, allErrors, byNetwork, overall, errs>>
        PROVE  Collected'
    BY <1>e, StillCollected DEF PortfolioOf, WalletErrors
  <1>f. ASSUME UNCHANGED <<wpc, errs, failedWallets>>
        PROVE  Marked'
    BY <1>f DEF Marked
  <1>2. CASE GetClient(t)
    <2> USE <1>2 DEF GetClient, requestVars, jobVars
    <2>1. npc[t] \in Live /\ npc[t] \notin Merged /\ "fetch" \notin Merged
      BY DEF Live, Holding, Merged
    <2>2. \A u \in Tasks : npc'[u] = IF u = t THEN "fetch" ELSE npc[u]
      BY <1>t DEF TypeOK
    <2>3. Locked' /\ Fetched'
      BY <2>1, <2>2 DEF Locked, Fetched
    <2> QED BY <1>i, <1>c, <1>d, <1>e, <1>f, <2>1, <2>3
  <1>3. CASE GetClientFails(t)
    <2> USE <1>3 DEF GetClientFails, requestVars, jobVars
    <2>1. npc[t] \in Live /\ npc[t] \notin Merged /\ "merge" \notin Merged
      BY DEF Live, Holding, Merged
    <2>2. \A u \in Tasks : /\ npc'[u] = IF u = t THEN "merge" ELSE npc[u]
                           /\ out'[u] = IF u = t THEN ClientFailure ELSE out[u]
      BY <1>t DEF TypeOK
    <2>3. Locked' /\ Fetched'
      BY <2>1, <2>2 DEF Locked, Fetched
    <2> QED BY <1>i, <1>c, <1>d, <1>e, <1>f, <2>1, <2>2, <2>3
  <1>4. CASE FetchBalances(t)
    <2> USE <1>4 DEF FetchBalances, requestVars, jobVars
    <2>1. npc[t] \in Live /\ npc[t] \notin Merged /\ "merge" \notin Merged
      BY DEF Live, Holding, Merged
    <2>2. PICK o \in Outcomes : out' = [out EXCEPT ![t] = o]
      OBVIOUS
    <2>3. \A u \in Tasks : /\ npc'[u] = IF u = t THEN "merge" ELSE npc[u]
                           /\ out'[u] = IF u = t THEN o ELSE out[u]
      BY <1>t, <2>2 DEF TypeOK
    <2>4. Locked' /\ Fetched'
      BY <2>1, <2>3 DEF Locked, Fetched
    <2> QED BY <1>i, <1>c, <1>d, <1>e, <1>f, <2>1, <2>3, <2>4
  <1>5. CASE LockWallet(t)
    <2> USE <1>5 DEF LockWallet, requestVars
    <2>1. npc[t] \in Live /\ npc[t] \notin Merged /\ "locked" \notin Merged
      BY DEF Live, Holding, Merged
    <2>2. \A u \in Tasks : /\ npc'[u] = IF u = t THEN "locked" ELSE npc[u]
                           /\ seen'[u] = IF u = t THEN overall[j] ELSE seen[u]
      BY <1>t DEF TypeOK
    <2>3. mu'[j] /\ \A k \in Jobs : mu[k] => mu'[k]
      BY <1>a, <1>t DEF TypeOK
    <2>4. \A u \in Tasks : JobOf(u) \in Jobs
      BY Parts
    <2>5. \A u \in Tasks : npc[u] = "locked" => JobOf(u) # j
      BY DEF Locked, Unlocked
    <2>6. Locked'
      BY <2>2, <2>3, <2>4, <2>5 DEF Locked
    <2>7. Fetched'
      BY <2>1, <2>2 DEF Fetched
    <2> QED BY <1>i, <1>c, <1>d, <1>e, <1>f, <2>1, <2>6, <2>7
  <1>6. CASE MergeOutcome(t)
    <2> USE <1>6 DEF MergeOutcome, requestVars
    <2>1. npc[t] \in Live /\ npc[t] \notin Merged /\ "release" \in Merged
      BY DEF Live, Holding, Merged
    <2>2. wpc[j] = "loop"
      BY <1>b, <2>1
    <2>3. \A u \in Tasks : npc'[u] = IF u = t THEN "release" ELSE npc[u]
      BY <1>t DEF TypeOK
    <2>4. \A u \in Tasks : Known(u)' = IF u = t THEN out[t] ELSE Known(u)
      BY <2>1, <2>3 DEF Known
    <2>5. \A k \in Jobs : k # j => /\ errs'[k] = errs[k]
                                   /\ byNetwork'[k] = byNetwork[k]
                                   /\ overall'[k] = overall[k] /\ mu'[k] = mu[k]
      BY <1>t DEF TypeOK
    <2>6. \A m \in Networks : byNetwork'[j][m] = IF m = n THEN EntryOf(out[t])
                                                 ELSE byNetwork[j][m]
      <3>1. byNetwork[j] \in [Networks -> Entry]
        BY <1>a, <1>t DEF TypeOK
      <3>2. CASE out[t].held = {}
        <4>1. EntryOf(out[t]) = NoEntry
          BY <3>2 DEF EntryOf
        <4>2. byNetwork[j][n] = EntryOf(Nothing)
          BY <1>a, <2>1 DEF Contents, Known
        <4>3. EntryOf(Nothing) = NoEntry
          BY DEF EntryOf, Nothing
        <4> QED BY <3>2, <4>1, <4>2, <4>3
      <3>3. CASE out[t].held # {}
        <4>1. byNetwork' = [byNetwork EXCEPT ![j][n] = EntryOf(out[t])]
          BY <3>3
        <4>2. byNetwork'[j] = [byNetwork[j] EXCEPT ![n] = EntryOf(out[t])]
          BY <1>a, <1>t, <4>1 DEF TypeOK
        <4> QED BY <1>a, <3>1, <4>2
      <3> QED BY <3>2, <3>3
    <2>a. \A k \in Jobs, m \in Networks :
            Known(<<k, m>>)' = IF k = j /\ m = n THEN out[t] ELSE Known(<<k, m>>)
      BY <1>a, <2>4
    <2>7. ASSUME NEW m \in Networks, NEW e \in ErrorKinds
          PROVE  <<m, e>> \in errs'[j] <=> e \in Known(<<j, m>>)'.errs
      <3>1. errs'[j] = errs[j] \cup ({n} \X out[t].errs)
        BY <1>a, <1>t DEF TypeOK
      <3>2. <<m, e>> \in errs[j] <=> e \in Known(<<j, m>>).errs
        BY <1>a DEF Contents
      <3>3. CASE m = n
        <4>1. Known(t).errs = {}
          BY <2>1 DEF Known, Nothing
        <4>2. Known(<<j, m>>)' = out[t] /\ <<m, e>> \notin errs[j]
          BY <1>a, <2>a, <3>2, <3>3, <4>1
        <4> QED BY <3>1, <3>3, <4>2
      <3>4. CASE m # n
        <4>1. Known(<<j, m>>)' = Known(<<j, m>>)
          BY <1>a, <2>a, <3>4
        <4> QED BY <3>1, <3>2, <3>4, <4>1
      <3> QED BY <3>3, <3>4
    <2>8. Contents'
      <3> SUFFICES ASSUME NEW k \in Jobs, NEW m \in Networks
                   PROVE  /\ byNetwork'[k][m] = EntryOf(Known(<<k, m>>)')
                          /\ \A e \in ErrorKinds :
                               <<m, e>> \in errs'[k] <=> e \in Known(<<k, m>>)'.errs
        BY DEF Contents, EntryOf
      <3>1. CASE k # j
        <4>1. Known(<<k, m>>)' = Known(<<k, m>>)
          BY <2>a, <3>1
        <4> QED BY <2>5, <3>1, <4>1 DEF Contents
      <3>2. CASE k = j /\ m = n
        <4>1. Known(<<k, m>>)' = out[t]
          BY <2>a, <3>2
        <4> QED BY <2>6, <2>7, <3>2, <4>1
      <3>3. CASE k = j /\ m # n
        <4>1. Known(<<k, m>>)' = Known(<<k, m>>)
          BY <2>a, <3>3
        <4> QED BY <2>6, <2>7, <3>3, <4>1 DEF Contents
      <3> QED BY <3>1, <3>2, <3>3
    <2>9. Locked'
      <3>1. \A u \in Tasks : npc'[u] = "locked" =>
              npc[u] = "locked" /\ JobOf(u) # j /\ seen'[u] = seen[u]
        BY <1>t, <2>3 DEF Locked, TypeOK
      <3> QED BY <2>5, <3>1, Parts DEF Locked
    <2>10. Fetched'
      BY <2>1, <2>3 DEF Fetched
    <2>11. Marked'
      BY <2>2, <2>5 DEF Marked
    <2>12. Collected'
      <3>1. \A k \in Jobs : wpc[k] \in HandedOver => k # j
        BY <2>2 DEF HandedOver
      <3>2. \A k \in Jobs : wpc[k] \in HandedOver =>
              PortfolioOf(k)' = PortfolioOf(k) /\ WalletErrors(k)' = WalletErrors(k)
        BY <2>5, <3>1 DEF PortfolioOf, WalletErrors
      <3> QED BY <3>2, StillCollected
    <2> QED BY <1>i, <1>c, <2>1, <2>8, <2>9, <2>10, <2>11, <2>12
  <1>7. CASE ReleaseSlot(t)
    <2> USE <1>7 DEF ReleaseSlot, jobVars
    <2>1. npc[t] \in Live /\ npc[t] \in Merged /\ "finish" \in Merged
      BY DEF Live, Holding, Merged
    <2>2. \A u \in Tasks : npc'[u] = IF u = t THEN "finish" ELSE npc[u]
      BY <1>t DEF TypeOK
    <2>3. Locked' /\ Fetched'
      BY <2>1, <2>2 DEF Locked, Fetched
    <2> QED BY <1>i, <1>c, <1>d, <1>e, <1>f, <2>1, <2>3
  <1>8. CASE Finish(t)
    <2> USE <1>8 DEF Finish, requestVars
    <2>1. npc[t] \in Live /\ npc[t] \in Merged /\ "done" \in Merged
      BY DEF Live, Holding, Merged
    <2>2. \A u \in Tasks : npc'[u] = IF u = t THEN "done" ELSE npc[u]
      BY <1>t DEF TypeOK
    <2>3. Locked' /\ Fetched'
      BY <2>1, <2>2 DEF Locked, Fetched
    <2> QED BY <1>i, <1>c, <1>d, <1>e, <1>f, <2>1, <2>3
  <1> QED BY <1>2, <1>3, <1>4, <1>5, <1>6, <1>7, <1>8 DEF TaskStep

\* Portfolios hold what was merged and the request holds what was handed over,
\* in every reachable state.
THEOREM ContentsInvariant == Spec => []RInv
PROOF
  <1>1. ASSUME RInv, [Next]_vars PROVE RInv'
    <2>1. CASE UNCHANGED vars
      <3> USE <2>1 DEF vars, requestVars, jobVars, taskVars, RInv
      <3>1. IInv'
        BY <1>1, UnchangedIInv
      <3>2. Contents' /\ Locked' /\ Fetched'
        BY <1>1, TasksStay
      <3>3. Covered' /\ Marked'
        BY <1>1 DEF Covered, Marked
      <3>4. Collected'
        BY <1>1, StillCollected DEF PortfolioOf, WalletErrors
      <3> QED BY <3>1, <3>2, <3>3, <3>4
    <2>2. CASE Terminated
      BY <2>1, <2>2 DEF Terminated
    <2> QED BY <1>1, <2>1, <2>2, RequestStepRInv, JobStepRInv, TaskStepRInv DEF Next
  <1> QED BY <1>1, InitRInv, PTL DEF Spec

-----------------------------------------------------------------------------
(* The totals. *)

\* What a portfolio's entries are worth, network by network.
Worths(nets) == [n \in Networks |-> nets[n].value]

\* The running total of every wallet is the sum of its entries, whoever is in
\* the critical section.
Summed == \A j \in Jobs : overall[j] = SumFunction(Worths(byNetwork[j]))

\* One entry changes by what the total changes by.
LEMMA EntryAdds ==
  ASSUME NEW nets \in [Networks -> Entry], NEW after \in [Networks -> Entry],
         NEW n \in Networks, \A m \in Networks : m # n => after[m] = nets[m]
  PROVE  SumFunction(Worths(after))
           = SumFunction(Worths(nets)) - nets[n].value + after[n].value
PROOF
  <1> DEFINE f == Worths(nets)
             g == Worths(after)
  <1>1. /\ f \in [Networks -> Int] /\ g \in [Networks -> Int]
        /\ \A m \in Networks : m # n => g[m] = f[m]
        /\ f[n] = nets[n].value /\ g[n] = after[n].value
    BY DEF Worths, Entry
  <1> HIDE DEF f, g
  <1>2. Numbers(f, Networks) /\ Numbers(g, Networks)
    BY <1>1 DEF Numbers
  <1>3. SumFunctionOnSet(g, Networks) = SumFunctionOnSet(f, Networks) - f[n] + g[n]
    <2>1. IsFiniteSet(Networks) /\ \A x \in Networks : x # n => g[x] = f[x]
      BY <1>1, TypesAssumption
    <2> QED BY <1>2, <2>1, SumMoves
  <1>4. SumFunction(f) = SumFunctionOnSet(f, Networks)
        /\ SumFunction(g) = SumFunctionOnSet(g, Networks)
    BY <1>1 DEF SumFunction
  <1> QED BY <1>1, <1>3, <1>4 DEF f, g

LEMMA InitSummed == Init => Summed
PROOF
  <1> SUFFICES ASSUME Init, NEW j \in Jobs
               PROVE  overall[j] = SumFunction(Worths(byNetwork[j]))
    BY DEF Summed
  <1> DEFINE f == Worths(byNetwork[j])
  <1>1. f \in [Networks -> Nat] /\ \A n \in Networks : f[n] = 0
    BY DEF Init, Worths, NoEntry
  <1> HIDE DEF f
  <1>2. SumFunction(f) = 0
    BY <1>1, SumOfNothing, TypesAssumption DEF SumFunction
  <1> QED BY <1>2 DEF Init, f

\* Only the critical section of a task changes a portfolio.
LEMMA SummedStep == RInv /\ RInv' /\ Summed /\ [Next]_vars => Summed'
PROOF
  <1> SUFFICES ASSUME RInv, RInv', Summed, [Next]_vars PROVE Summed'
    OBVIOUS
  <1>t. TypeOK /\ TypeOK'
    BY DEF RInv, IInv
  <1>1. CASE UNCHANGED <<byNetwork, overall>>
    BY <1>1 DEF Summed, Worths
  <1>2. ASSUME NEW t \in Tasks, MergeOutcome(t) PROVE Summed'
    <2> DEFINE j == JobOf(t)
               n == NetworkOf(t)
    <2>1. j \in Jobs /\ n \in Networks /\ t = <<j, n>>
      BY Parts
    <2>2. CASE out[t].held = {}
      BY <1>1, <1>2, <2>2 DEF MergeOutcome
    <2>3. CASE out[t].held # {}
      <3>1. /\ byNetwork' = [byNetwork EXCEPT ![j][n] = EntryOf(out[t])]
            /\ overall'   = [overall EXCEPT ![j] = seen[t] + out[t].value]
            /\ npc[t] = "locked"
        BY <1>2, <2>3 DEF MergeOutcome
      <3>2. /\ byNetwork[j] \in [Networks -> Entry]
            /\ byNetwork'[j] = [byNetwork[j] EXCEPT ![n] = EntryOf(out[t])]
            /\ byNetwork'[j] \in [Networks -> Entry]
            /\ overall'[j] = seen[t] + out[t].value
            /\ \A k \in Jobs : k # j => /\ byNetwork'[k] = byNetwork[k]
                                        /\ overall'[k] = overall[k]
        BY <1>t, <2>1, <3>1 DEF TypeOK
      <3>3. seen[t] = overall[j]
        BY <3>1 DEF RInv, Locked
      <3>4. byNetwork[j][n].value = 0
        <4>1. Known(<<j, n>>) = Nothing
          BY <2>1, <3>1 DEF Known, Merged
        <4>2. byNetwork[j][n] = EntryOf(Nothing)
          BY <2>1, <4>1 DEF RInv, Contents
        <4> QED BY <4>2 DEF EntryOf, Nothing, NoEntry
      <3>5. byNetwork'[j][n].value = out[t].value
        BY <2>1, <2>3, <3>2 DEF EntryOf
      <3>6. \A m \in Networks : m # n => byNetwork'[j][m] = byNetwork[j][m]
        BY <3>2
      <3>7. SumFunction(Worths(byNetwork'[j]))
              = SumFunction(Worths(byNetwork[j])) - byNetwork[j][n].value
                  + byNetwork'[j][n].value
        BY <2>1, <3>2, <3>6, EntryAdds
      <3>8. overall[j] = SumFunction(Worths(byNetwork[j]))
            /\ overall[j] \in Nat /\ out[t].value \in Nat
        BY <1>t, <2>1 DEF Summed, TypeOK, Outcome
      <3>9. overall'[j] = SumFunction(Worths(byNetwork'[j]))
        BY <3>2, <3>3, <3>4, <3>5, <3>7, <3>8
      <3>10. \A k \in Jobs : overall'[k] = SumFunction(Worths(byNetwork'[k]))
        BY <3>2, <3>9 DEF Summed
      <3> QED BY <3>10 DEF Summed, Worths
    <2> QED BY <2>2, <2>3
  <1>3. [Next]_vars => \/ UNCHANGED <<byNetwork, overall>>
                       \/ \E t \in Tasks : MergeOutcome(t)
    BY DEF Next, RequestStep, JobStep, TaskStep, Refuse, StartAll, StartSingle,
           StartJobs, RespondAll, Acquire, AwaitNetworks, SendResult, MarkFailed,
           CollectErrors, LeaveAll, RespondSingle, GetClient, GetClientFails,
           FetchBalances, LockWallet, ReleaseSlot, Finish, Terminated, vars,
           jobVars, requestVars, taskVars
  <1> QED BY <1>1, <1>2, <1>3

\* An answer's portfolios are those of the request's jobs.
LEMMA AnswerAddsUp == RInv /\ Summed /\ TotalsAddUp /\ [Next]_vars => TotalsAddUp'
PROOF
  <1> SUFFICES ASSUME RInv, Summed, TotalsAddUp, [Next]_vars PROVE TotalsAddUp'
    OBVIOUS
  <1> DEFINE Adding(p) == p.total = SumFunction([n \in Networks |-> p.nets[n].value])
  <1>t. TypeOK
    BY DEF RInv, IInv
  <1>1. \A j \in Jobs : Adding(PortfolioOf(j))
    BY DEF Summed, Worths, PortfolioOf
  <1> HIDE DEF Adding
  <1>2. TotalsAddUp = \A r \in Requests : \A p \in answer[r].portfolios : Adding(p)
    BY DEF TotalsAddUp, Adding
  <1>3. TotalsAddUp' = \A r \in Requests : \A p \in answer'[r].portfolios : Adding(p)
    BY DEF TotalsAddUp, Adding
  <1>4. CASE UNCHANGED answer
    BY <1>2, <1>3, <1>4
  <1>5. ASSUME NEW r \in Requests, RespondAll(r) PROVE TotalsAddUp'
    <2>1. \A p \in results[r] : Adding(p)
      BY <1>1 DEF RInv, Collected, JobsOf
    <2>2. \A q \in Requests : answer'[q].portfolios =
            IF q = r THEN results[r] ELSE answer[q].portfolios
      BY <1>t, <1>5 DEF RespondAll, TypeOK
    <2> QED BY <1>2, <1>3, <2>1, <2>2
  <1>6. ASSUME NEW j \in Jobs, RespondSingle(j) PROVE TotalsAddUp'
    <2>1. \A q \in Requests : answer'[q].portfolios =
            IF q = RequestOf(j) THEN {PortfolioOf(j)} ELSE answer[q].portfolios
      BY <1>t, <1>6 DEF RespondSingle, TypeOK
    <2> QED BY <1>1, <1>2, <1>3, <2>1
  <1>7. [Next]_vars => \/ UNCHANGED answer
                       \/ \E r \in Requests : RespondAll(r)
                       \/ \E j \in Jobs : RespondSingle(j)
    BY DEF Next, RequestStep, JobStep, TaskStep, Refuse, StartAll, StartSingle,
           StartJobs, Acquire, AwaitNetworks, SendResult, MarkFailed,
           CollectErrors, LeaveAll, GetClient, GetClientFails,
           FetchBalances, LockWallet, MergeOutcome, ReleaseSlot, Finish, Terminated,
           vars, jobVars, requestVars, taskVars
  <1> QED BY <1>4, <1>5, <1>6, <1>7

\* The total of every portfolio answered is the sum over its networks, for any
\* number of networks merging at once: the mutex keeps every += (:189, :298, :308).
THEOREM AnswersAddUp == Spec => []TotalsAddUp
PROOF
  <1>1. Init => TotalsAddUp
    BY DEF Init, TotalsAddUp, NoAnswer
  <1>2. RInv /\ RInv' /\ Summed /\ TotalsAddUp /\ [Next]_vars
          => Summed' /\ TotalsAddUp'
    BY SummedStep, AnswerAddsUp
  <1>3. Init => Summed
    BY InitSummed
  <1> QED BY <1>1, <1>2, <1>3, ContentsInvariant, PTL DEF Spec

-----------------------------------------------------------------------------
(* The refinement. *)

\* The operators PortfolioPromise shares with the service are the same.
LEMMA SharedTerms ==
  /\ Promise!Jobs = Jobs /\ Promise!Tasks = Tasks
  /\ \A j : /\ Promise!RequestOf(j) = RequestOf(j)
            /\ Promise!WalletOf(j) = WalletOf(j)
            /\ Promise!TasksOf(j) = TasksOf(j)
  /\ \A t : Promise!JobOf(t) = JobOf(t) /\ Promise!NetworkOf(t) = NetworkOf(t)
  /\ \A r : Promise!JobsOf(r) = JobsOf(r)
  /\ \A o : Promise!EntryOf(o) = EntryOf(o) /\ Promise!WorthOf(o) = EntryOf(o).value
  /\ Promise!Nothing = Nothing /\ Promise!ClientFailure = ClientFailure
  /\ Promise!NoAnswer = NoAnswer /\ Promise!NotAsked = NotAsked
PROOF
  BY DEF Jobs, Promise!Jobs, Tasks, Promise!Tasks, RequestOf, Promise!RequestOf,
         WalletOf, Promise!WalletOf, TasksOf, Promise!TasksOf, JobOf, Promise!JobOf,
         NetworkOf, Promise!NetworkOf, JobsOf, Promise!JobsOf, EntryOf,
         Promise!EntryOf, NoEntry, Promise!NoEntry, Promise!WorthOf, Nothing,
         Promise!Nothing, ClientFailure, Promise!ClientFailure, NoAnswer,
         Promise!NoAnswer, NotAsked, Promise!NotAsked

\* The values of the promise's variables.
Phase   == [r \in Requests |-> IF rpc[r] \in {"all", "single"} THEN "open" ELSE rpc[r]]
Settled == {t \in Tasks : npc[t] \in Merged}
Result  == [t \in Tasks |-> IF npc[t] \in Merged THEN out[t] ELSE Nothing]

\* What the promise says of a job, in terms of the service.
LEMMA JobTerms ==
  ASSUME RInv, NEW j \in Jobs
  PROVE  /\ j \in Promise!AskedJobs(RequestOf(j))
              <=> WalletOf(j) \in asked[RequestOf(j)].wallets
         /\ Promise!JobSettled(j) <=>
              \A n \in Networks : n \in asked[RequestOf(j)].nets => npc[<<j, n>>] \in Merged
         /\ Promise!ErrorsOf(j) = WalletErrors(j)
         /\ Promise!PortfolioFor(j) = PortfolioOf(j)
PROOF
  <1>t. /\ TypeOK /\ Contents
        /\ byNetwork[j] \in [Networks -> Entry]
        /\ errs[j] \subseteq Networks \X ErrorKinds
    BY DEF RInv, IInv, TypeOK
  <1>1. j \in Promise!AskedJobs(RequestOf(j)) <=> WalletOf(j) \in asked[RequestOf(j)].wallets
    BY SharedTerms DEF Promise!AskedJobs, JobsOf
  <1>2. \A n \in Networks : <<j, n>> \in Tasks /\ Result[<<j, n>>] = Known(<<j, n>>)
    BY Parts DEF Result, Known
  <1>3. Promise!JobSettled(j) <=>
          \A n \in Networks : n \in asked[RequestOf(j)].nets => npc[<<j, n>>] \in Merged
    <2>1. Promise!AskedTasks(j)
            = {t \in TasksOf(j) : NetworkOf(t) \in asked[RequestOf(j)].nets}
      BY SharedTerms DEF Promise!AskedTasks
    <2>2. Promise!JobSettled(j) <=>
            \A t \in Tasks : JobOf(t) = j /\ NetworkOf(t) \in asked[RequestOf(j)].nets
                               => npc[t] \in Merged
      BY <2>1 DEF Promise!JobSettled, TasksOf
    <2> QED BY <2>2, Parts
  <1>4. Promise!PortfolioFor(j) = PortfolioOf(j)
    <2>1. Promise!PortfolioFor(j) =
            [wallet |-> WalletOf(j),
             nets   |-> [n \in Networks |-> EntryOf(Result[<<j, n>>])],
             total  |-> overall[j]]
      <3>1. Promise!PortfolioFor(j) =
              [wallet |-> Promise!WalletOf(j),
               nets   |-> [n \in Networks |-> Promise!EntryOf(Result[<<j, n>>])],
               total  |-> overall[j]]
        BY DEF Promise!PortfolioFor, Result
      <3>2. [n \in Networks |-> Promise!EntryOf(Result[<<j, n>>])]
              = [n \in Networks |-> EntryOf(Result[<<j, n>>])]
        BY SharedTerms
      <3>3. Promise!WalletOf(j) = WalletOf(j)
        BY SharedTerms
      <3> QED BY <3>1, <3>2, <3>3
    <2>2. [n \in Networks |-> EntryOf(Result[<<j, n>>])] = byNetwork[j]
      <3>1. \A n \in Networks : byNetwork[j][n] = EntryOf(Result[<<j, n>>])
        <4> SUFFICES ASSUME NEW n \in Networks
                     PROVE  byNetwork[j][n] = EntryOf(Result[<<j, n>>])
          OBVIOUS
        <4>1. Result[<<j, n>>] = Known(<<j, n>>)
          BY <1>2
        <4> QED BY <1>t, <4>1 DEF Contents
      <3> QED BY <1>t, <3>1
    <2> QED BY <2>1, <2>2 DEF PortfolioOf
  <1>5. Promise!ErrorsOf(j) = WalletErrors(j)
    <2> DEFINE Found == UNION {{NetworkOf(t)} \X Result[t].errs : t \in TasksOf(j)}
    <2>1. Promise!ErrorsOf(j) = {<<WalletOf(j), e[1], e[2]>> : e \in Found}
      BY SharedTerms DEF Promise!ErrorsOf, Result
    <2>2. \A t \in Tasks : Result[t].errs \subseteq ErrorKinds
      BY <1>t, DataTypes DEF Result, TypeOK, Outcome
    <2>3. \A n \in Networks, k \in ErrorKinds :
            <<n, k>> \in Found <=> k \in Result[<<j, n>>].errs
      <3> SUFFICES ASSUME NEW n \in Networks, NEW k \in ErrorKinds
                   PROVE  <<n, k>> \in Found <=> k \in Result[<<j, n>>].errs
        OBVIOUS
      <3>1. <<n, k>> \in Found <=>
              \E t \in TasksOf(j) : NetworkOf(t) = n /\ k \in Result[t].errs
        OBVIOUS
      <3>2. \A t \in TasksOf(j) : NetworkOf(t) = n <=> t = <<j, n>>
        BY Parts DEF TasksOf
      <3>3. <<j, n>> \in TasksOf(j)
        BY Parts DEF TasksOf
      <3> HIDE DEF Found
      <3> QED BY <3>1, <3>2, <3>3
    <2>4. Found \subseteq Networks \X ErrorKinds
      BY <2>2, Parts DEF TasksOf
    <2>5. \A n \in Networks, k \in ErrorKinds :
            <<n, k>> \in errs[j] <=> k \in Result[<<j, n>>].errs
      BY <1>2, <1>t DEF Contents
    <2>6. Found = errs[j]
      <3> HIDE DEF Found
      <3>1. \A n \in Networks, k \in ErrorKinds :
              <<n, k>> \in Found <=> <<n, k>> \in errs[j]
        BY <2>3, <2>5
      <3>2. ASSUME NEW x \in Networks \X ErrorKinds
            PROVE  x \in Found <=> x \in errs[j]
        <4>1. PICK n \in Networks, k \in ErrorKinds : x = <<n, k>>
          OBVIOUS
        <4> QED BY <3>1, <4>1
      <3> QED BY <1>t, <2>4, <3>2
    <2> QED BY <2>1, <2>6 DEF WalletErrors
  <1> QED BY <1>1, <1>3, <1>4, <1>5

\* When all jobs of an open request have ended or are about to, the promise may be
\* answered, and with the portfolios and errors of these jobs.
LEMMA AnswerMaps ==
  ASSUME RInv, NEW r \in Requests, rpc[r] \in {"all", "single"},
         \A j \in JobsOf(r) : wpc[j] \in {"none", "leave", "done"},
         rpc' = [rpc EXCEPT ![r] = "done"],
         answer' = [answer EXCEPT ![r] =
           [portfolios |-> {PortfolioOf(j) : j \in {k \in JobsOf(r) : wpc[k] # "none"}},
            errors |-> UNION {WalletErrors(j) : j \in {k \in JobsOf(r) : wpc[k] # "none"}}]],
         UNCHANGED <<asked, npc, out, overall, failedWallets>>
  PROVE  Promise!Answer(r)
PROOF
  <1> DEFINE Ended == {k \in JobsOf(r) : wpc[k] # "none"}
  <1>t. TypeOK
    BY DEF RInv, IInv
  <1>1. Promise!AskedJobs(r) = Ended
    <2>1. \A j \in JobsOf(r) :
            WalletOf(j) \in asked[r].wallets <=> wpc[j] # "none"
      BY DEF RInv, Covered, JobsOf
    <2> QED BY <2>1, SharedTerms DEF Promise!AskedJobs
  <1>2. \A j \in Ended : j \in Jobs /\ RequestOf(j) = r
    BY DEF JobsOf
  <1>3. \A j \in Ended : Promise!JobSettled(j)
    <2> SUFFICES ASSUME NEW j \in Ended PROVE Promise!JobSettled(j)
      OBVIOUS
    <2>1. \A n \in Networks : n \in asked[RequestOf(j)].nets => npc[<<j, n>>] = "done"
      BY <1>2 DEF RInv, Covered
    <2> QED BY <1>2, <2>1, JobTerms DEF Merged
  <1>4. \A j \in Ended : Promise!ErrorsOf(j) = WalletErrors(j)
                         /\ Promise!PortfolioFor(j) = PortfolioOf(j)
    BY <1>2, JobTerms
  <1>5. \A j \in Ended : Promise!ErrorsOf(j) # {} => WalletOf(j) \in failedWallets
    <2> SUFFICES ASSUME NEW j \in Ended, WalletErrors(j) # {}
                 PROVE  WalletOf(j) \in failedWallets
      BY <1>4
    <2>1. errs[j] # {}
      BY DEF WalletErrors
    <2>2. wpc[j] \in {"leave", "done"}
      OBVIOUS
    <2> QED BY <1>2, <2>1, <2>2 DEF RInv, Marked
  <1>6. /\ {Promise!PortfolioFor(j) : j \in Ended} = {PortfolioOf(j) : j \in Ended}
        /\ {Promise!ErrorsOf(j) : j \in Ended} = {WalletErrors(j) : j \in Ended}
    BY <1>4
  <1>7. Phase[r] = "open" /\ Phase' = [Phase EXCEPT ![r] = "done"]
    BY <1>t DEF Phase, TypeOK
  <1>8. UNCHANGED <<asked, Settled, Result, overall, failedWallets>>
    BY DEF Settled, Result
  <1> HIDE DEF Ended
  <1> QED BY <1>1, <1>3, <1>5, <1>6, <1>7, <1>8, SharedTerms
          DEF Promise!Answer, Phase, Settled, Result, Ended

\* Every step of the service is a step of the promise or leaves it alone.
LEMMA StepMaps == RInv /\ RInv' /\ [Next]_vars => [Promise!Next]_Promise!vars
PROOF
  <1> SUFFICES ASSUME RInv, RInv', [Next]_vars PROVE [Promise!Next]_Promise!vars
    OBVIOUS
  <1>t. TypeOK /\ Phases /\ OuterCount /\ OneJob
    BY DEF RInv, IInv, Accounting
  <1>1. ASSUME UNCHANGED <<asked, overall, failedWallets, answer>>,
               Phase' = Phase, Settled' = Settled, Result' = Result
        PROVE  UNCHANGED Promise!vars
    BY <1>1 DEF Promise!vars, Phase, Settled, Result
  <1>2. ASSUME UNCHANGED <<npc, out>> PROVE Settled' = Settled /\ Result' = Result
    BY <1>2 DEF Settled, Result
  <1>3. ASSUME UNCHANGED rpc PROVE Phase' = Phase
    BY <1>3 DEF Phase
  <1>4. CASE UNCHANGED vars
    BY <1>1, <1>2, <1>3, <1>4 DEF vars, requestVars, jobVars, taskVars
  <1>5. ASSUME NEW r \in Requests, RequestStep(r) PROVE Promise!Next
    <2>1. CASE Refuse(r)
      <3>1. Phase[r] = "idle" /\ Phase' = [Phase EXCEPT ![r] = "refused"]
        BY <1>t, <2>1 DEF Refuse, Phase, TypeOK
      <3>2. Promise!Refuse(r)
        BY <1>2, <2>1, <3>1
           DEF Refuse, Promise!Refuse, Phase, Settled, Result, jobVars, taskVars
      <3> QED BY <3>2 DEF Promise!Next
    <2>2. ASSUME NEW kind \in {"all", "single"}, NEW ws \in SUBSET Wallets,
                 NEW nets \in SUBSET Networks \ {{}}, StartJobs(r, kind, ws, nets)
          PROVE  Promise!Next
      <3>1. Phase[r] = "idle" /\ Phase' = [Phase EXCEPT ![r] = "open"]
        BY <1>t, <2>2 DEF StartJobs, Phase, TypeOK
      <3>2. Promise!Begin(r)
        BY <1>2, <2>2, <3>1
           DEF StartJobs, Promise!Begin, Phase, Settled, Result, taskVars
      <3> QED BY <3>2 DEF Promise!Next
    <2>3. CASE StartAll(r)
      BY <2>2, <2>3 DEF StartAll
    <2>4. CASE StartSingle(r)
      <3>1. \A w \in Wallets : {w} \in SUBSET Wallets
        OBVIOUS
      <3> QED BY <2>2, <2>4, <3>1 DEF StartSingle
    <2>5. CASE RespondAll(r)
      <3> USE <2>5 DEF RespondAll, JobsDone, jobVars, taskVars
      <3>1. LiveJobs(r) = {}
        BY <1>t, Finiteness, FS_EmptySet DEF OuterCount
      <3>2. \A j \in JobsOf(r) : wpc[j] \in {"none", "done"}
        BY <3>1 DEF LiveJobs
      <3> DEFINE Ended == {k \in JobsOf(r) : wpc[k] # "none"}
      <3>3. /\ results[r] \subseteq {PortfolioOf(j) : j \in {k \in JobsOf(r) : wpc[k] \in HandedOver}}
            /\ \A j \in JobsOf(r) : wpc[j] \in HandedOver => PortfolioOf(j) \in results[r]
            /\ allErrors[r] =
                 UNION {WalletErrors(j) : j \in {k \in JobsOf(r) : wpc[k] \in {"leave", "done"}}}
        BY DEF RInv, Collected
      <3>4. /\ {k \in JobsOf(r) : wpc[k] \in HandedOver} = Ended
            /\ {k \in JobsOf(r) : wpc[k] \in {"leave", "done"}} = Ended
        BY <3>2 DEF HandedOver
      <3>5. results[r] = {PortfolioOf(j) : j \in Ended}
        BY <3>3, <3>4
      <3>6. allErrors[r] = UNION {WalletErrors(j) : j \in Ended}
        BY <3>3, <3>4
      <3>7. Promise!Answer(r)
        BY <3>2, <3>5, <3>6, AnswerMaps
      <3> QED BY <3>7 DEF Promise!Next
    <2> QED BY <1>5, <2>1, <2>3, <2>4, <2>5 DEF RequestStep
  <1>6. ASSUME NEW j \in Jobs, JobStep(j) PROVE [Promise!Next]_Promise!vars
    <2>1. CASE Acquire(j)
      <3>1. PICK n \in todo[j] :
              /\ wpc[j] = "loop" /\ npc' = [npc EXCEPT ![<<j, n>>] = "client"]
              /\ UNCHANGED <<rpc, asked, answer, overall, out, failedWallets>>
        BY <2>1 DEF Acquire
      <3>2. n \in Networks /\ npc[<<j, n>>] = "none"
        BY <1>t, <3>1 DEF Phases, TypeOK
      <3>3. \A u \in Tasks : npc'[u] \in Merged <=> npc[u] \in Merged
        BY <1>t, <3>1, <3>2 DEF Merged, TypeOK
      <3>4. Settled' = Settled /\ Result' = Result
        BY <3>1, <3>3 DEF Settled, Result
      <3> QED BY <1>1, <1>3, <3>1, <3>4
    <2>2. CASE AwaitNetworks(j) \/ SendResult(j) \/ CollectErrors(j) \/ LeaveAll(j)
      <3>1. UNCHANGED <<rpc, asked, answer, overall, npc, out, failedWallets>>
        BY <2>2 DEF AwaitNetworks, SendResult, CollectErrors, LeaveAll,
                    requestVars, taskVars
      <3> QED BY <1>1, <1>2, <1>3, <3>1
    <2>3. CASE MarkFailed(j)
      <3> USE <2>3 DEF MarkFailed, requestVars, taskVars
      <3> DEFINE r == RequestOf(j)
      <3>1. r \in Requests /\ Phase[r] = "open"
        BY <1>t, Parts DEF Phases, Phase
      <3>2. j \in Promise!AskedJobs(r)
        BY JobTerms DEF RInv, Covered
      <3>3. \A n \in Networks : n \in asked[r].nets => npc[<<j, n>>] = "done"
        BY DEF RInv, Covered
      <3>4. Promise!JobSettled(j)
        BY <3>3, JobTerms DEF Merged
      <3>5. errs[j] # {}
        BY DEF RInv, Marked
      <3>6. WalletErrors(j) # {}
        BY <3>5 DEF WalletErrors
      <3>7. Promise!ErrorsOf(j) # {}
        BY <3>6, JobTerms
      <3>8. Promise!MarkFailed(j)
        BY <1>2, <1>3, <3>1, <3>2, <3>4, <3>7, SharedTerms
           DEF Promise!MarkFailed, Phase, Settled, Result
      <3> QED BY <3>8, SharedTerms DEF Promise!Next
    <2>4. CASE RespondSingle(j)
      <3> USE <2>4 DEF RespondSingle, taskVars
      <3> DEFINE r == RequestOf(j)
                 Ended == {k \in JobsOf(r) : wpc[k] # "none"}
      <3>1. r \in Requests
        BY Parts
      <3>2. j \in JobsOf(r) /\ j \in LiveJobs(r)
        BY DEF JobsOf, LiveJobs
      <3>3. \A k \in Ended : k = j
        <4>1. \A k \in Ended : k \in LiveJobs(r)
          BY DEF RInv, Covered, LiveJobs, JobsOf
        <4> QED BY <1>t, <3>1, <3>2, <4>1 DEF OneJob
      <3>4. Ended = {j}
        BY <3>2, <3>3
      <3>5. /\ {PortfolioOf(k) : k \in Ended} = {PortfolioOf(j)}
            /\ UNION {WalletErrors(k) : k \in Ended} = WalletErrors(j)
        BY <3>4
      <3>6. \A k \in JobsOf(r) : wpc[k] \in {"none", "leave", "done"}
        BY <3>3
      <3>7. Promise!Answer(r)
        BY <3>1, <3>5, <3>6, AnswerMaps
      <3> QED BY <3>1, <3>7 DEF Promise!Next
    <2> QED BY <1>6, <2>1, <2>2, <2>3, <2>4 DEF JobStep
  <1>7. ASSUME NEW t \in Tasks, TaskStep(t) PROVE [Promise!Next]_Promise!vars
    <2>1. ASSUME NEW v, npc' = [npc EXCEPT ![t] = v],
                 npc[t] \in Merged <=> v \in Merged,
                 npc[t] \in Merged => out' = out,
                 \A u \in Tasks : u # t => out'[u] = out[u],
                 UNCHANGED <<rpc, asked, answer, overall, failedWallets>>
          PROVE  UNCHANGED Promise!vars
      <3>1. \A u \in Tasks : npc'[u] = IF u = t THEN v ELSE npc[u]
        BY <1>t, <2>1 DEF TypeOK
      <3>2. \A u \in Tasks : npc'[u] \in Merged <=> npc[u] \in Merged
        BY <2>1, <3>1
      <3>3. \A u \in Tasks : npc[u] \in Merged => out'[u] = out[u]
        BY <2>1
      <3>4. Settled' = Settled /\ Result' = Result
        BY <3>2, <3>3 DEF Settled, Result
      <3> QED BY <1>1, <1>3, <2>1, <3>4
    <2>2. CASE GetClient(t) \/ GetClientFails(t) \/ FetchBalances(t) \/ LockWallet(t)
      <3>1. PICK v \in {"fetch", "merge", "locked"} :
              /\ npc' = [npc EXCEPT ![t] = v] /\ npc[t] \in {"client", "fetch", "merge"}
        BY <2>2 DEF GetClient, GetClientFails, FetchBalances, LockWallet
      <3>2. /\ UNCHANGED <<rpc, asked, answer, overall, failedWallets>>
            /\ \A u \in Tasks : u # t => out'[u] = out[u]
        BY <1>t, <2>2 DEF GetClient, GetClientFails, FetchBalances, LockWallet,
                          requestVars, jobVars, TypeOK
      <3> QED BY <2>1, <3>1, <3>2 DEF Merged
    <2>3. CASE ReleaseSlot(t) \/ Finish(t)
      <3>1. PICK v \in {"finish", "done"} :
              /\ npc' = [npc EXCEPT ![t] = v] /\ npc[t] \in {"release", "finish"}
        BY <2>3 DEF ReleaseSlot, Finish
      <3>2. UNCHANGED <<rpc, asked, answer, overall, failedWallets, out>>
        BY <2>3 DEF ReleaseSlot, Finish, requestVars, jobVars
      <3> QED BY <2>1, <3>1, <3>2 DEF Merged
    <2>4. CASE MergeOutcome(t)
      <3> USE <2>4 DEF MergeOutcome, requestVars
      <3> DEFINE j == JobOf(t)
                 r == RequestOf(j)
                 o == out[t]
      <3>1. j \in Jobs /\ r \in Requests /\ NetworkOf(t) \in Networks
            /\ t = <<j, NetworkOf(t)>>
        BY Parts
      <3>2. wpc[j] = "loop"
        BY <1>t, <3>1 DEF Phases, LiveTasks, TasksOf, Live, Holding
      <3>3. Phase[r] = "open"
        BY <1>t, <3>1, <3>2 DEF Phases, Phase
      <3>4. j \in Promise!AskedJobs(r)
        BY <3>1, <3>2, JobTerms DEF RInv, Covered
      <3>5. t \in Promise!AskedTasks(j)
        <4>1. NetworkOf(t) \in asked[r].nets
          BY <3>1 DEF RInv, Covered
        <4> QED BY <3>1, <4>1, SharedTerms DEF Promise!AskedTasks, TasksOf
      <3>6. t \notin Settled
        BY DEF Settled, Merged
      <3>7. o \in Outcomes \cup {ClientFailure} /\ o \in Outcome
        BY <1>t DEF RInv, Fetched, TypeOK
      <3>8. \A u \in Tasks : npc'[u] = IF u = t THEN "release" ELSE npc[u]
        BY <1>t DEF TypeOK
      <3>9. Result' = [Result EXCEPT ![t] = o]
        BY <3>8 DEF Result, Merged
      <3>10. Settled' = Settled \cup {t}
        BY <3>8 DEF Settled, Merged
      <3>11. overall' = [overall EXCEPT ![j] = @ + EntryOf(o).value]
        <4>1. seen[t] = overall[j] /\ overall[j] \in Nat
          BY <1>t, <3>1 DEF RInv, Locked, TypeOK
        <4>2. CASE o.held = {}
          <5>1. EntryOf(o).value = 0
            BY <4>2 DEF EntryOf, NoEntry
          <5>2. [overall EXCEPT ![j] = overall[j] + 0] = overall
            BY <1>t, <4>1 DEF TypeOK
          <5> QED BY <4>2, <5>1, <5>2
        <4>3. CASE o.held # {}
          <5>1. EntryOf(o).value = o.value
            BY <4>3 DEF EntryOf
          <5> QED BY <4>1, <4>3, <5>1
        <4> QED BY <4>2, <4>3
      <3>12. Promise!Settle(t)
        <4>1. UNCHANGED <<asked, failedWallets, answer>> /\ Phase' = Phase
          BY <1>3
        <4> QED BY <3>3, <3>4, <3>5, <3>6, <3>7, <3>9, <3>10, <3>11, <4>1, SharedTerms
                DEF Promise!Settle, Phase, Settled, Result
      <3> QED BY <3>12, SharedTerms DEF Promise!Next
    <2> QED BY <1>7, <2>2, <2>3, <2>4 DEF TaskStep
  <1> QED BY <1>4, <1>5, <1>6, <1>7 DEF Next, Terminated

\* The fan-out with its semaphore, mutexes, WaitGroups and channel answers what
\* PortfolioPromise, which has none of them, allows, for any number of requests at
\* once (portfolio_service.go:57-143, :415-470).
THEOREM ServiceKeepsPromise == Spec => Implements
PROOF
  <1>1. Init => Promise!Init
    <2> SUFFICES ASSUME Init PROVE Promise!Init
      OBVIOUS
    <2> USE DEF Init
    <2>1. Phase = [r \in Requests |-> "idle"]
      BY DEF Phase
    <2>2. Settled = {} /\ Result = [t \in Tasks |-> Nothing]
      BY DEF Settled, Result, Merged
    <2> QED BY <2>1, <2>2, SharedTerms DEF Promise!Init, Phase, Settled, Result
  <1> QED BY <1>1, ContentsInvariant, StepMaps, PTL DEF Spec, Implements, Promise!Spec

\* The channel of results always has room for every wallet that is about to send,
\* so no wallet's goroutine blocks before the drain (:106, :119).
THEOREM ResultsHaveRoom == Spec => []ResultsFit
PROOF
  <1>1. RInv => ResultsFit
    <2> SUFFICES ASSUME RInv, NEW r \in Requests
                 PROVE  Cardinality(results[r])
                          + Cardinality({j \in JobsOf(r) : wpc[j] = "send"})
                          <= ResultsCapacity(r)
      BY DEF ResultsFit
    <2> DEFINE Sent    == {j \in JobsOf(r) : wpc[j] \in HandedOver}
               Sending == {j \in JobsOf(r) : wpc[j] = "send"}
               Asked   == {r} \X asked[r].wallets
    <2>1. asked[r].wallets \in SUBSET Wallets
      BY DEF RInv, IInv, TypeOK
    <2>2. IsFiniteSet(asked[r].wallets)
      BY <2>1, TypesAssumption, FS_Subset
    <2>3. IsFiniteSet(Asked) /\ Cardinality(Asked) = Cardinality(asked[r].wallets)
      <3>1. IsFiniteSet({r}) /\ Cardinality({r}) = 1
        BY FS_Singleton
      <3>2. IsFiniteSet(Asked) /\ Cardinality(Asked) = 1 * Cardinality(asked[r].wallets)
        BY <2>2, <3>1, FS_Product
      <3> QED BY <2>2, <3>2, FS_CardinalityType
    <2>4. Sent \cup Sending \subseteq Asked
      <3> SUFFICES ASSUME NEW j \in JobsOf(r), wpc[j] # "none" PROVE j \in Asked
        BY DEF HandedOver
      <3>1. j = <<r, WalletOf(j)>> /\ WalletOf(j) \in asked[r].wallets
        BY Parts DEF RInv, Covered, JobsOf
      <3> QED BY <3>1
    <2>5. Sent \cap Sending = {}
      BY DEF HandedOver
    <2>6. IsFiniteSet(Sent) /\ IsFiniteSet(Sending)
      BY <2>3, <2>4, FS_Subset
    <2>7. /\ IsFiniteSet({PortfolioOf(j) : j \in Sent})
          /\ Cardinality({PortfolioOf(j) : j \in Sent}) <= Cardinality(Sent)
      <3> DEFINE f == [j \in Sent |-> PortfolioOf(j)]
      <3>1. f \in Surjection(Sent, {PortfolioOf(j) : j \in Sent})
        BY DEF Surjection
      <3> HIDE DEF f
      <3> QED BY <2>6, <3>1, FS_Surjection
    <2>8. results[r] \subseteq {PortfolioOf(j) : j \in Sent}
      BY DEF RInv, Collected
    <2>9. Cardinality(results[r]) <= Cardinality({PortfolioOf(j) : j \in Sent})
      BY <2>7, <2>8, FS_Subset
    <2>10. Cardinality(Sent) + Cardinality(Sending) = Cardinality(Sent \cup Sending)
      <3>1. Cardinality(Sent \cup Sending)
              = Cardinality(Sent) + Cardinality(Sending) - Cardinality(Sent \cap Sending)
        BY <2>6, FS_Union
      <3>2. Cardinality(Sent \cap Sending) = 0
        BY <2>5, FS_EmptySet
      <3>3. Cardinality(Sent) \in Nat /\ Cardinality(Sending) \in Nat
        BY <2>6, FS_CardinalityType
      <3> HIDE DEF Sent, Sending
      <3> QED BY <3>1, <3>2, <3>3
    <2>11. Cardinality(Sent \cup Sending) <= Cardinality(Asked)
      BY <2>3, <2>4, FS_Subset
    <2>12. /\ Cardinality(results[r]) \in Nat /\ Cardinality(Sent) \in Nat
           /\ Cardinality(Sending) \in Nat /\ Cardinality(Asked) \in Nat
           /\ Cardinality({PortfolioOf(j) : j \in Sent}) \in Nat
           /\ Cardinality(Sent \cup Sending) \in Nat
      <3>1. IsFiniteSet(results[r]) /\ IsFiniteSet(Sent \cup Sending)
        BY <2>3, <2>4, <2>7, <2>8, FS_Subset
      <3> QED BY <2>3, <2>6, <2>7, <3>1, FS_CardinalityType
    <2> HIDE DEF Sent, Sending, Asked
    <2> QED BY <2>3, <2>7, <2>9, <2>10, <2>11, <2>12 DEF ResultsCapacity, Sending
  <1> QED BY <1>1, ContentsInvariant, PTL

-----------------------------------------------------------------------------
(* Nobody waits for ever: what EveryRequestAnswered has without fairness.  *)
(* While a request is open one of its goroutines can take a step, and no   *)
(* behaviour has more steps than there is work.                            *)

\* What a goroutine waits for has come.  The conditions are those of its steps.
TaskGoes(t) == \/ npc[t] \in Live \ {"merge"}
               \/ npc[t] = "merge" /\ Unlocked(JobOf(t))

JobGoes(j) ==
  LET r == RequestOf(j) IN
  \/ wpc[j] = "loop" /\ SlotFree(r) /\ \E n \in todo[j] : \A m \in todo[j] : n <= m
  \/ wpc[j] = "loop" /\ todo[j] = {} /\ NetworksDone(j)
  \/ wpc[j] = "send" /\ Cardinality(results[r]) < ResultsCapacity(r)
  \/ wpc[j] \in {"mark", "collect"}
  \/ wpc[j] = "leave" /\ rpc[r] \in {"all", "single"}

NobodyStuck ==
  \A r \in Requests : rpc[r] \in {"all", "single"} =>
    \/ rpc[r] = "all" /\ JobsDone(r)
    \/ \E j \in JobsOf(r) : JobGoes(j) \/ \E t \in TasksOf(j) : TaskGoes(t)

\* A mutex is held by a task in the critical section, and a call for one wallet has
\* a wallet.
Held == /\ \A j \in Jobs : mu[j] => \E t \in TasksOf(j) : npc[t] = "locked"
        /\ \A r \in Requests : rpc[r] = "single" => asked[r].wallets # {}

LEMMA HeldStep == RInv /\ Held /\ [Next]_vars => Held'
<1> SUFFICES ASSUME RInv, Held, [Next]_vars PROVE Held'
  OBVIOUS
<1> USE DEF Held
<1>t. TypeOK /\ Phases
  BY DEF RInv, IInv, Accounting
<1>p. mu \in [Jobs -> BOOLEAN] /\ npc \in [Tasks -> {"none", "done"} \cup Live]
      /\ rpc \in [Requests -> {"idle", "all", "single", "done", "refused"}]
      /\ asked \in [Requests -> [wallets : SUBSET Wallets, nets : SUBSET Networks]]
  BY <1>t DEF TypeOK
\* A mutex stays held while nobody leaves the critical section.
<1>a. ASSUME UNCHANGED mu, NEW t \in Tasks, NEW v, npc[t] # "locked",
             npc' = [npc EXCEPT ![t] = v], UNCHANGED <<rpc, asked>>
      PROVE  Held'
  <2>1. \A u \in Tasks : u # t => npc'[u] = npc[u]
    BY <1>a, <1>p
  <2>2. \A j \in Jobs : mu'[j] => \E u \in TasksOf(j) : npc'[u] = "locked"
    BY <1>a, <2>1 DEF TasksOf
  <2>3. \A r \in Requests : rpc'[r] = "single" => asked'[r].wallets # {}
    BY <1>a
  <2> QED BY <2>2, <2>3
<1>b. ASSUME UNCHANGED <<mu, npc, asked>>, NEW r \in Requests, NEW v, v # "single",
             rpc' = [rpc EXCEPT ![r] = v]
      PROVE  Held'
  <2>1. \A q \in Requests : rpc'[q] = "single" => rpc[q] = "single"
    BY <1>b, <1>p
  <2>2. \A j \in Jobs : mu'[j] => \E u \in TasksOf(j) : npc'[u] = "locked"
    BY <1>b
  <2>3. \A q \in Requests : rpc'[q] = "single" => asked'[q].wallets # {}
    BY <1>b, <2>1
  <2> QED BY <2>2, <2>3
<1>c. ASSUME UNCHANGED <<mu, npc, asked, rpc>> PROVE Held'
  <2>1. \A j \in Jobs : mu'[j] => \E u \in TasksOf(j) : npc'[u] = "locked"
    BY <1>c
  <2>2. \A q \in Requests : rpc'[q] = "single" => asked'[q].wallets # {}
    BY <1>c
  <2> QED BY <2>1, <2>2
<1>s. ASSUME NEW r \in Requests, NEW kind \in {"all", "single"}, NEW ws, NEW nets,
             ws # {} \/ kind = "all", StartJobs(r, kind, ws, nets)
      PROVE  Held'
  <2> USE <1>s DEF StartJobs, taskVars
  <2>1. \A j \in Jobs : mu'[j] => \E u \in TasksOf(j) : npc'[u] = "locked"
    OBVIOUS
  <2>2. \A q \in Requests :
          /\ q # r => rpc'[q] = rpc[q] /\ asked'[q] = asked[q]
          /\ q = r => rpc'[q] = kind /\ asked'[q].wallets = ws
    BY <1>p
  <2>3. \A q \in Requests : rpc'[q] = "single" => asked'[q].wallets # {}
    BY <2>2
  <2> QED BY <2>1, <2>3
<1>1. ASSUME NEW r \in Requests, RequestStep(r) PROVE Held'
  <2>1. CASE Refuse(r)
    BY <1>b, <2>1 DEF Refuse, jobVars, taskVars
  <2>2. CASE StartAll(r)
    BY <1>s, <2>2 DEF StartAll
  <2>3. CASE StartSingle(r)
    <3>1. PICK w \in Wallets, nets \in SUBSET Networks \ {{}} : StartJobs(r, "single", {w}, nets)
      BY <2>3 DEF StartSingle
    <3> QED BY <1>s, <3>1
  <2>4. CASE RespondAll(r)
    BY <1>b, <2>4 DEF RespondAll, jobVars, taskVars
  <2> QED BY <1>1, <2>1, <2>2, <2>3, <2>4 DEF RequestStep
<1>2. ASSUME NEW j \in Jobs, JobStep(j) PROVE Held'
  <2>1. CASE Acquire(j)
    <3>1. PICK n \in todo[j] : npc' = [npc EXCEPT ![<<j, n>>] = "client"]
      BY <2>1 DEF Acquire
    <3>2. n \in Networks /\ <<j, n>> \in Tasks /\ npc[<<j, n>>] = "none"
      BY <1>t, <2>1, Parts DEF TypeOK, Phases, Acquire
    <3>3. UNCHANGED <<mu, rpc, asked>>
      BY <2>1 DEF Acquire
    <3> QED BY <1>a, <3>1, <3>2, <3>3
  <2>2. CASE AwaitNetworks(j)
    BY <1>c, <2>2 DEF AwaitNetworks, requestVars, taskVars
  <2>3. CASE SendResult(j)
    BY <1>c, <2>3 DEF SendResult, taskVars
  <2>4. CASE MarkFailed(j)
    BY <1>c, <2>4 DEF MarkFailed, requestVars, taskVars
  <2>5. CASE CollectErrors(j)
    BY <1>c, <2>5 DEF CollectErrors, taskVars
  <2>6. CASE LeaveAll(j)
    BY <1>c, <2>6 DEF LeaveAll, taskVars
  <2>7. CASE RespondSingle(j)
    <3>1. RequestOf(j) \in Requests
      BY Parts
    <3> QED BY <1>b, <2>7, <3>1 DEF RespondSingle, taskVars
  <2> QED BY <1>2, <2>1, <2>2, <2>3, <2>4, <2>5, <2>6, <2>7 DEF JobStep
<1>3. ASSUME NEW t \in Tasks, TaskStep(t) PROVE Held'
  <2>1. CASE GetClient(t)
    BY <1>a, <2>1 DEF GetClient, requestVars, jobVars
  <2>2. CASE GetClientFails(t)
    BY <1>a, <2>2 DEF GetClientFails, requestVars, jobVars
  <2>3. CASE FetchBalances(t)
    BY <1>a, <2>3 DEF FetchBalances, requestVars, jobVars
  <2>4. CASE LockWallet(t)
    <3> USE <2>4 DEF LockWallet, requestVars
    <3>1. JobOf(t) \in Jobs /\ t \in TasksOf(JobOf(t))
      BY Parts DEF TasksOf
    <3>2. \A u \in Tasks : npc'[u] = IF u = t THEN "locked" ELSE npc[u]
      BY <1>p
    <3>3. \A j \in Jobs : mu'[j] = (j = JobOf(t) \/ mu[j])
      BY <1>p
    <3>4. \A j \in Jobs : mu'[j] => \E u \in TasksOf(j) : npc'[u] = "locked"
      BY <3>1, <3>2, <3>3 DEF TasksOf
    <3>5. \A q \in Requests : rpc'[q] = "single" => asked'[q].wallets # {}
      OBVIOUS
    <3> QED BY <3>4, <3>5
  <2>5. CASE MergeOutcome(t)
    <3> USE <2>5 DEF MergeOutcome, requestVars
    <3>1. \A u \in Tasks : u # t => npc'[u] = npc[u]
      BY <1>p
    <3>2. \A j \in Jobs : mu'[j] => mu[j] /\ j # JobOf(t)
      BY <1>p
    <3>3. \A j \in Jobs : mu'[j] => \E u \in TasksOf(j) : npc'[u] = "locked"
      BY <3>1, <3>2 DEF TasksOf
    <3>4. \A q \in Requests : rpc'[q] = "single" => asked'[q].wallets # {}
      OBVIOUS
    <3> QED BY <3>3, <3>4
  <2>6. CASE ReleaseSlot(t)
    BY <1>a, <2>6 DEF ReleaseSlot, jobVars
  <2>7. CASE Finish(t)
    BY <1>a, <2>7 DEF Finish, requestVars
  <2> QED BY <1>3, <2>1, <2>2, <2>3, <2>4, <2>5, <2>6, <2>7 DEF TaskStep
<1>4. CASE UNCHANGED vars
  BY <1>c, <1>4 DEF vars, requestVars, jobVars, taskVars
<1> QED BY <1>1, <1>2, <1>3, <1>4 DEF Next, Terminated

\* A task that is alive can go, or the one in the critical section of its wallet.
LEMMA LiveTaskGoes ==
  ASSUME TypeOK, Held, NEW j \in Jobs, NEW t \in TasksOf(j), npc[t] \in Live
  PROVE  \E u \in TasksOf(j) : TaskGoes(u)
<1>1. JobOf(t) = j
  BY DEF TasksOf
<1>2. CASE npc[t] = "merge" /\ mu[j]
  <2>1. PICK u \in TasksOf(j) : npc[u] = "locked"
    BY <1>2 DEF Held
  <2> QED BY <2>1 DEF TaskGoes, Live, Holding
<1>3. CASE ~(npc[t] = "merge" /\ mu[j])
  BY <1>1, <1>3 DEF TaskGoes, Unlocked
<1> QED BY <1>2, <1>3

\* An open request without a live job has only to answer.
LEMMA LiveJobOfOpen ==
  ASSUME RInv, Held, NEW r \in Requests, rpc[r] \in {"all", "single"},
         ~(rpc[r] = "all" /\ JobsDone(r))
  PROVE  \E j \in JobsOf(r) : wpc[j] \notin {"none", "done"}
<1>1. CASE rpc[r] = "all"
  <2>1. outerWg[r] = Cardinality(LiveJobs(r)) /\ outerWg[r] # 0
    BY <1>1 DEF JobsDone, RInv, IInv, Accounting, OuterCount
  <2>2. LiveJobs(r) # {}
    BY <2>1, FS_EmptySet
  <2> QED BY <2>2 DEF LiveJobs
<1>2. CASE rpc[r] = "single"
  <2>1. PICK w \in asked[r].wallets : TRUE
    BY <1>2 DEF Held
  <2>2. w \in Wallets
    BY DEF RInv, IInv, TypeOK
  <2> DEFINE j == <<r, w>>
  <2>3. j \in Jobs /\ RequestOf(j) = r /\ WalletOf(j) = w
    BY <2>2 DEF Jobs, RequestOf, WalletOf
  <2> HIDE DEF j
  <2>4. wpc[j] # "none" /\ wpc[j] # "done"
    BY <1>2, <2>1, <2>3 DEF RInv, Covered
  <2> QED BY <2>3, <2>4 DEF JobsOf
<1> QED BY <1>1, <1>2

\* A job waits for a slot, for its tasks or for room; a task for a mutex.
LEMMA SomebodyGoes == RInv /\ Held /\ ResultsFit => NobodyStuck
<1> SUFFICES ASSUME RInv, Held, ResultsFit, NEW r \in Requests, rpc[r] \in {"all", "single"},
                    ~(rpc[r] = "all" /\ JobsDone(r))
             PROVE  \E j \in JobsOf(r) : JobGoes(j) \/ \E t \in TasksOf(j) : TaskGoes(t)
  BY DEF NobodyStuck
<1>t. TypeOK /\ SlotCount /\ WgCount
  BY DEF RInv, IInv, Accounting
<1>1. PICK j \in JobsOf(r) : wpc[j] \notin {"none", "done"}
  BY LiveJobOfOpen
<1>2. j \in Jobs /\ RequestOf(j) = r
  BY DEF JobsOf
<1>3. wpc[j] \in {"loop", "send", "mark", "collect", "leave"}
  BY <1>t, <1>1, <1>2 DEF TypeOK
<1>4. CASE wpc[j] = "loop" /\ todo[j] = {}
  <2>1. CASE wg[j] = 0
    BY <1>4, <2>1 DEF JobGoes, NetworksDone
  <2>2. CASE wg[j] # 0
    <3>1. LiveTasks(j) # {}
      BY <1>2, <1>t, <2>2, FS_EmptySet DEF WgCount
    <3>2. PICK t \in TasksOf(j) : npc[t] \in Live
      BY <3>1 DEF LiveTasks
    <3> QED BY <1>2, <1>t, <3>2, LiveTaskGoes
  <2> QED BY <2>1, <2>2
<1>5. CASE wpc[j] = "loop" /\ todo[j] # {}
  <2>1. CASE SlotFree(r)
    <3>1. todo[j] \in SUBSET Nat
      BY <1>2, <1>t, TypesAssumption DEF TypeOK
    <3>2. \E n \in todo[j] : \A m \in todo[j] : n <= m
      BY <1>5, <3>1, LeastNatural
    <3> QED BY <1>2, <1>5, <2>1, <3>2 DEF JobGoes
  <2>2. CASE ~SlotFree(r)
    <3>1. sem[r] # 0
      BY <1>t, <2>2, LimitAssumption DEF SlotFree, TypeOK
    <3>2. Holders(r) # {}
      BY <1>t, <3>1, FS_EmptySet DEF SlotCount
    <3>3. PICK t \in Tasks : RequestOf(JobOf(t)) = r /\ npc[t] \in Holding
      BY <3>2 DEF Holders
    <3> DEFINE k == JobOf(t)
    <3>4. k \in Jobs /\ k \in JobsOf(r) /\ t \in TasksOf(k) /\ npc[t] \in Live
      BY <3>3, Parts DEF JobsOf, TasksOf, Live
    <3> HIDE DEF k
    <3>5. \E u \in TasksOf(k) : TaskGoes(u)
      BY <1>t, <3>4, LiveTaskGoes
    <3> QED BY <3>4, <3>5
  <2> QED BY <2>1, <2>2
<1>6. CASE wpc[j] = "send"
  <2> DEFINE S == {k \in JobsOf(r) : wpc[k] = "send"}
  <2>1. IsFiniteSet(S)
    <3>1. S \subseteq Jobs
      BY DEF JobsOf
    <3> QED BY <3>1, Finiteness, FS_Subset
  <2>2. Cardinality(S) \in Nat /\ Cardinality(S) # 0
    <3>1. j \in S
      BY <1>6
    <3> HIDE DEF S
    <3> QED BY <2>1, <3>1, OneMore
  <2>3. asked[r].wallets \in SUBSET Wallets
    BY <1>t DEF TypeOK
  <2>4. ResultsCapacity(r) \in Nat
    BY <2>3, TypesAssumption, FS_Subset, FS_CardinalityType DEF ResultsCapacity
  <2>5. Cardinality(results[r]) + Cardinality(S) <= ResultsCapacity(r)
    BY DEF ResultsFit
  <2>6. Cardinality(results[r]) \in Nat
    <3>1. results[r] \subseteq {PortfolioOf(k) : k \in Jobs}
      BY DEF RInv, Collected, JobsOf
    <3>2. IsFiniteSet({PortfolioOf(k) : k \in Jobs})
      <4> DEFINE f == [k \in Jobs |-> PortfolioOf(k)]
      <4>1. f \in Surjection(Jobs, {PortfolioOf(k) : k \in Jobs})
        BY DEF Surjection
      <4> HIDE DEF f
      <4> QED BY <4>1, Finiteness, FS_Surjection
    <3> QED BY <3>1, <3>2, FS_Subset, FS_CardinalityType
  <2> HIDE DEF S
  <2>7. Cardinality(results[r]) < ResultsCapacity(r)
    BY <2>2, <2>4, <2>5, <2>6
  <2> QED BY <1>2, <1>6, <2>7 DEF JobGoes
<1>7. CASE wpc[j] \in {"mark", "collect", "leave"}
  BY <1>2, <1>7 DEF JobGoes
<1> QED BY <1>3, <1>4, <1>5, <1>6, <1>7

\* While a request is open it has an answer to give or one of its own goroutines has
\* what it waits for, whatever the others do: no slot, mutex, WaitGroup or place in the
\* channel is waited for in a circle (:106, :170-174, :189, :308).
THEOREM NobodyIsStuck == Spec => []NobodyStuck
<1>1. Init => Held
  BY DEF Init, Held
<1>2. Spec => []Held
  BY <1>1, HeldStep, ContentsInvariant, PTL DEF Spec
<1> QED BY <1>2, SomebodyGoes, ContentsInvariant, ResultsHaveRoom, PTL

\* The steps that are left, at most, to a goroutine at each of its places.
RequestRest(p) == CASE p = "idle" -> 2 [] p \in {"all", "single"} -> 1 [] OTHER -> 0
JobRest(p)     == CASE p = "none" -> 6 [] p = "loop" -> 5 [] p = "send" -> 4 [] p = "mark" -> 3
                    [] p = "collect" -> 2 [] p = "leave" -> 1 [] OTHER -> 0
TaskRest(p)    == CASE p = "none" -> 7 [] p = "client" -> 6 [] p = "fetch" -> 5
                    [] p = "merge" -> 4 [] p = "locked" -> 3 [] p = "release" -> 2
                    [] p = "finish" -> 1 [] OTHER -> 0

RequestWork == SumFunction([r \in Requests |-> RequestRest(rpc[r])])
JobWork     == SumFunction([j \in Jobs |-> JobRest(wpc[j])])
TaskWork    == SumFunction([t \in Tasks |-> TaskRest(npc[t])])
Work        == RequestWork + JobWork + TaskWork

LEMMA Rests == \A p : RequestRest(p) \in Nat /\ JobRest(p) \in Nat /\ TaskRest(p) \in Nat
<1>1. \A p : RequestRest(p) \in Nat
  BY DEF RequestRest
<1>2. \A p : JobRest(p) \in Nat
  BY DEF JobRest
<1>3. \A p : TaskRest(p) \in Nat
  BY DEF TaskRest
<1> QED BY <1>1, <1>2, <1>3

\* How the work of the requests, the jobs and the tasks changes with one of them.
LEMMA WorkChanges ==
  ASSUME TypeOK
  PROVE  /\ RequestWork \in Nat /\ JobWork \in Nat /\ TaskWork \in Nat
         /\ RequestWork' \in Nat /\ JobWork' \in Nat /\ TaskWork' \in Nat
         /\ UNCHANGED rpc => UNCHANGED RequestWork
         /\ UNCHANGED wpc => UNCHANGED JobWork
         /\ UNCHANGED npc => UNCHANGED TaskWork
         /\ \A r \in Requests : \A v :
              rpc' = [rpc EXCEPT ![r] = v] /\ RequestRest(v) < RequestRest(rpc[r])
              => RequestWork' < RequestWork
         /\ \A j \in Jobs : \A v :
              wpc' = [wpc EXCEPT ![j] = v] /\ JobRest(v) < JobRest(wpc[j])
              => JobWork' < JobWork
         /\ (\A j \in Jobs : JobRest(wpc'[j]) <= JobRest(wpc[j])) => JobWork' <= JobWork
         /\ \A t \in Tasks : \A v :
              npc' = [npc EXCEPT ![t] = v] /\ TaskRest(v) < TaskRest(npc[t])
              => TaskWork' < TaskWork
<1> DEFINE R == [r \in Requests |-> RequestRest(rpc[r])]
           J == [j \in Jobs |-> JobRest(wpc[j])]
           T == [t \in Tasks |-> TaskRest(npc[t])]
           R1 == [r \in Requests |-> RequestRest(rpc'[r])]
           J1 == [j \in Jobs |-> JobRest(wpc'[j])]
           T1 == [t \in Tasks |-> TaskRest(npc'[t])]
<1>1. /\ RequestWork = SumFunction(R) /\ RequestWork' = SumFunction(R1)
      /\ JobWork = SumFunction(J) /\ JobWork' = SumFunction(J1)
      /\ TaskWork = SumFunction(T) /\ TaskWork' = SumFunction(T1)
  BY DEF RequestWork, JobWork, TaskWork
<1>2. /\ DOMAIN R = Requests /\ DOMAIN R1 = Requests
      /\ DOMAIN J = Jobs /\ DOMAIN J1 = Jobs
      /\ DOMAIN T = Tasks /\ DOMAIN T1 = Tasks
      /\ \A x \in Requests : R[x] \in Nat /\ R1[x] \in Nat
      /\ \A x \in Jobs : J[x] \in Nat /\ J1[x] \in Nat
      /\ \A x \in Tasks : T[x] \in Nat /\ T1[x] \in Nat
  BY Rests
<1>3. IsFiniteSet(Requests) /\ IsFiniteSet(Jobs) /\ IsFiniteSet(Tasks)
  BY TypesAssumption, Finiteness
<1>4. /\ UNCHANGED rpc => R1 = R
      /\ UNCHANGED wpc => J1 = J
      /\ UNCHANGED npc => T1 = T
  OBVIOUS
<1>5. ASSUME NEW r \in Requests, NEW v, rpc' = [rpc EXCEPT ![r] = v],
             RequestRest(v) < RequestRest(rpc[r])
      PROVE  R1[r] < R[r] /\ \A x \in Requests : x # r => R1[x] = R[x]
  BY <1>5 DEF TypeOK
<1>6. ASSUME NEW j \in Jobs, NEW v, wpc' = [wpc EXCEPT ![j] = v],
             JobRest(v) < JobRest(wpc[j])
      PROVE  J1[j] < J[j] /\ \A x \in Jobs : x # j => J1[x] = J[x]
  BY <1>6 DEF TypeOK
<1>7. ASSUME NEW t \in Tasks, NEW v, npc' = [npc EXCEPT ![t] = v],
             TaskRest(v) < TaskRest(npc[t])
      PROVE  T1[t] < T[t] /\ \A x \in Tasks : x # t => T1[x] = T[x]
  BY <1>7 DEF TypeOK
<1>8. (\A j \in Jobs : JobRest(wpc'[j]) <= JobRest(wpc[j])) => \A x \in Jobs : J1[x] <= J[x]
  OBVIOUS
<1> HIDE DEF R, J, T, R1, J1, T1
<1>9. /\ SumFunction(R) \in Nat /\ SumFunction(R1) \in Nat
      /\ \A y \in Requests : R1[y] < R[y] /\ (\A x \in Requests : x # y => R1[x] = R[x]) =>
           SumFunction(R1) < SumFunction(R)
  BY <1>2, <1>3, SumChanges
<1>10. /\ SumFunction(J) \in Nat /\ SumFunction(J1) \in Nat
       /\ (\A x \in Jobs : J1[x] <= J[x]) => SumFunction(J1) <= SumFunction(J)
       /\ \A y \in Jobs : J1[y] < J[y] /\ (\A x \in Jobs : x # y => J1[x] = J[x]) =>
            SumFunction(J1) < SumFunction(J)
  BY <1>2, <1>3, SumChanges
<1>11. /\ SumFunction(T) \in Nat /\ SumFunction(T1) \in Nat
       /\ \A y \in Tasks : T1[y] < T[y] /\ (\A x \in Tasks : x # y => T1[x] = T[x]) =>
            SumFunction(T1) < SumFunction(T)
  BY <1>2, <1>3, SumChanges
<1>12. \A r \in Requests : \A v :
         rpc' = [rpc EXCEPT ![r] = v] /\ RequestRest(v) < RequestRest(rpc[r])
         => SumFunction(R1) < SumFunction(R)
  BY <1>5, <1>9
<1>13. \A j \in Jobs : \A v :
         wpc' = [wpc EXCEPT ![j] = v] /\ JobRest(v) < JobRest(wpc[j])
         => SumFunction(J1) < SumFunction(J)
  BY <1>6, <1>10
<1>14. \A t \in Tasks : \A v :
         npc' = [npc EXCEPT ![t] = v] /\ TaskRest(v) < TaskRest(npc[t])
         => SumFunction(T1) < SumFunction(T)
  BY <1>7, <1>11
<1> QED BY <1>1, <1>4, <1>8, <1>9, <1>10, <1>11, <1>12, <1>13, <1>14

\* Every step of the service leaves less to do.
LEMMA StepWorks == RInv /\ [Next]_vars => UNCHANGED vars \/ Work' < Work
<1> SUFFICES ASSUME RInv, [Next]_vars, vars' # vars PROVE Work' < Work
  OBVIOUS
<1>t. TypeOK /\ Phases
  BY DEF RInv, IInv, Accounting
<1>n. /\ RequestWork \in Nat /\ JobWork \in Nat /\ TaskWork \in Nat
      /\ RequestWork' \in Nat /\ JobWork' \in Nat /\ TaskWork' \in Nat
  BY <1>t, WorkChanges
<1>w. /\ Work = RequestWork + JobWork + TaskWork
      /\ Work' = RequestWork' + JobWork' + TaskWork'
  BY DEF Work
<1>l. \A a, b, c, x, y, z \in Nat :
        \/ a < x /\ b <= y /\ c = z
        \/ b < y /\ c = z /\ a = x
        \/ c < z /\ b = y /\ a = x
        => a + b + c < x + y + z
  OBVIOUS
\* A request, a job or a task moves on.
<1>r. ASSUME NEW r \in Requests, NEW v, rpc' = [rpc EXCEPT ![r] = v], UNCHANGED npc,
             RequestRest(v) < RequestRest(rpc[r]), JobWork' <= JobWork
      PROVE  Work' < Work
  <2>1. RequestWork' < RequestWork /\ TaskWork' = TaskWork
    BY <1>r, <1>t, WorkChanges
  <2> QED BY <1>l, <1>n, <1>r, <1>w, <2>1
<1>j. ASSUME NEW j \in Jobs, NEW v, wpc' = [wpc EXCEPT ![j] = v], UNCHANGED <<rpc, npc>>,
             JobRest(v) < JobRest(wpc[j])
      PROVE  Work' < Work
  <2>1. JobWork' < JobWork /\ TaskWork' = TaskWork /\ RequestWork' = RequestWork
    BY <1>j, <1>t, WorkChanges
  <2> QED BY <1>l, <1>n, <1>w, <2>1
<1>k. ASSUME NEW t \in Tasks, NEW v, npc' = [npc EXCEPT ![t] = v], UNCHANGED <<rpc, wpc>>,
             TaskRest(v) < TaskRest(npc[t])
      PROVE  Work' < Work
  <2>1. TaskWork' < TaskWork /\ JobWork' = JobWork /\ RequestWork' = RequestWork
    BY <1>k, <1>t, WorkChanges
  <2> QED BY <1>l, <1>n, <1>w, <2>1
<1>s. ASSUME NEW r \in Requests, NEW kind \in {"all", "single"}, NEW ws, NEW nets,
             StartJobs(r, kind, ws, nets)
      PROVE  Work' < Work
  <2>1. \A j \in Jobs : JobRest(wpc'[j]) <= JobRest(wpc[j])
    <3> SUFFICES ASSUME NEW j \in Jobs PROVE JobRest(wpc'[j]) <= JobRest(wpc[j])
      OBVIOUS
    <3>1. wpc'[j] = wpc[j] \/ (wpc[j] = "none" /\ wpc'[j] = "loop")
      BY <1>s, <1>t DEF StartJobs, Phases
    <3>2. JobRest("loop") <= JobRest("none") /\ JobRest(wpc[j]) \in Nat
      BY Rests DEF JobRest
    <3> QED BY <3>1, <3>2
  <2>2. JobWork' <= JobWork
    BY <1>t, <2>1, WorkChanges
  <2>3. RequestRest(kind) < RequestRest("idle")
    BY DEF RequestRest
  <2> QED BY <1>r, <1>s, <2>2, <2>3 DEF StartJobs, taskVars
<1>1. ASSUME NEW r \in Requests, RequestStep(r) PROVE Work' < Work
  <2>0. UNCHANGED wpc => JobWork' <= JobWork
    BY <1>n, <1>t, WorkChanges
  <2>1. CASE Refuse(r)
    <3>1. RequestRest("refused") < RequestRest("idle")
      BY DEF RequestRest
    <3> QED BY <1>r, <2>0, <2>1, <3>1 DEF Refuse, jobVars, taskVars
  <2>2. CASE StartAll(r)
    BY <1>s, <2>2 DEF StartAll
  <2>3. CASE StartSingle(r)
    BY <1>s, <2>3 DEF StartSingle
  <2>4. CASE RespondAll(r)
    <3>1. RequestRest("done") < RequestRest("all")
      BY DEF RequestRest
    <3> QED BY <1>r, <2>0, <2>4, <3>1 DEF RespondAll, jobVars, taskVars
  <2> QED BY <1>1, <2>1, <2>2, <2>3, <2>4 DEF RequestStep
<1>2. ASSUME NEW j \in Jobs, JobStep(j) PROVE Work' < Work
  <2>1. CASE Acquire(j)
    <3>1. PICK n \in todo[j] : npc' = [npc EXCEPT ![<<j, n>>] = "client"]
      BY <2>1 DEF Acquire
    <3>2. n \in Networks /\ <<j, n>> \in Tasks /\ npc[<<j, n>>] = "none"
      BY <1>t, <2>1, Parts DEF TypeOK, Phases, Acquire
    <3>3. UNCHANGED <<rpc, wpc>>
      BY <2>1 DEF Acquire
    <3>4. TaskRest("client") < TaskRest("none")
      BY DEF TaskRest
    <3> QED BY <1>k, <3>1, <3>2, <3>3, <3>4
  <2>2. CASE AwaitNetworks(j)
    <3>1. PICK v \in {"send", "mark", "leave"} : wpc' = [wpc EXCEPT ![j] = v]
      BY <2>2 DEF AwaitNetworks, AfterResult
    <3>2. wpc[j] = "loop" /\ JobRest(v) < JobRest("loop")
      BY <2>2 DEF AwaitNetworks, JobRest
    <3>3. JobRest(v) < JobRest(wpc[j])
      BY <3>2, Zenon
    <3> QED BY <1>j, <2>2, <3>1, <3>3 DEF AwaitNetworks, requestVars, taskVars
  <2>3. CASE SendResult(j)
    <3>1. PICK v \in {"mark", "leave"} : wpc' = [wpc EXCEPT ![j] = v]
      BY <2>3 DEF SendResult, AfterResult
    <3>2. wpc[j] = "send" /\ JobRest(v) < JobRest("send")
      BY <2>3 DEF SendResult, JobRest
    <3>3. JobRest(v) < JobRest(wpc[j])
      BY <3>2, Zenon
    <3> QED BY <1>j, <2>3, <3>1, <3>3 DEF SendResult, taskVars
  <2>4. CASE MarkFailed(j)
    <3>1. PICK v \in {"collect", "leave"} : wpc' = [wpc EXCEPT ![j] = v]
      BY <2>4 DEF MarkFailed
    <3>2. wpc[j] = "mark" /\ JobRest(v) < JobRest("mark")
      BY <2>4 DEF MarkFailed, JobRest
    <3>3. JobRest(v) < JobRest(wpc[j])
      BY <3>2, Zenon
    <3> QED BY <1>j, <2>4, <3>1, <3>3 DEF MarkFailed, requestVars, taskVars
  <2>5. CASE CollectErrors(j)
    <3>1. JobRest("leave") < JobRest("collect")
      BY DEF JobRest
    <3> QED BY <1>j, <2>5, <3>1 DEF CollectErrors, taskVars
  <2>6. CASE LeaveAll(j)
    <3>1. JobRest("done") < JobRest("leave")
      BY DEF JobRest
    <3> QED BY <1>j, <2>6, <3>1 DEF LeaveAll, taskVars
  <2>7. CASE RespondSingle(j)
    <3>1. RequestOf(j) \in Requests
      BY Parts
    <3>2. JobRest("done") < JobRest("leave") /\ RequestRest("done") < RequestRest("single")
      BY DEF JobRest, RequestRest
    <3>3. JobWork' < JobWork
      BY <1>t, <2>7, <3>2, WorkChanges DEF RespondSingle
    <3>4. JobWork' <= JobWork
      BY <1>n, <3>3
    <3> QED BY <1>r, <2>7, <3>1, <3>2, <3>4 DEF RespondSingle, taskVars
  <2> QED BY <1>2, <2>1, <2>2, <2>3, <2>4, <2>5, <2>6, <2>7 DEF JobStep
<1>3. ASSUME NEW t \in Tasks, TaskStep(t) PROVE Work' < Work
  <2>0. /\ TaskRest("fetch") < TaskRest("client") /\ TaskRest("merge") < TaskRest("client")
        /\ TaskRest("merge") < TaskRest("fetch") /\ TaskRest("locked") < TaskRest("merge")
        /\ TaskRest("release") < TaskRest("locked") /\ TaskRest("finish") < TaskRest("release")
        /\ TaskRest("done") < TaskRest("finish")
    BY DEF TaskRest
  <2>1. CASE GetClient(t)
    BY <1>k, <2>0, <2>1 DEF GetClient, requestVars, jobVars
  <2>2. CASE GetClientFails(t)
    BY <1>k, <2>0, <2>2 DEF GetClientFails, requestVars, jobVars
  <2>3. CASE FetchBalances(t)
    BY <1>k, <2>0, <2>3 DEF FetchBalances, requestVars, jobVars
  <2>4. CASE LockWallet(t)
    BY <1>k, <2>0, <2>4 DEF LockWallet, requestVars
  <2>5. CASE MergeOutcome(t)
    BY <1>k, <2>0, <2>5 DEF MergeOutcome, requestVars
  <2>6. CASE ReleaseSlot(t)
    BY <1>k, <2>0, <2>6 DEF ReleaseSlot, jobVars
  <2>7. CASE Finish(t)
    BY <1>k, <2>0, <2>7 DEF Finish, requestVars
  <2> QED BY <1>3, <2>1, <2>2, <2>3, <2>4, <2>5, <2>6, <2>7 DEF TaskStep
<1> QED BY <1>1, <1>2, <1>3 DEF Next, Terminated

\* What is left to do is a number that every step makes smaller: no behaviour goes
\* round in a circle, and after so many steps every open request is answered.
THEOREM WorkRunsOut == Spec => [](Work \in Nat) /\ [][Work' < Work]_vars
<1>1. RInv => Work \in Nat
  <2> SUFFICES ASSUME RInv PROVE Work \in Nat
    OBVIOUS
  <2>1. RequestWork \in Nat /\ JobWork \in Nat /\ TaskWork \in Nat
    BY WorkChanges DEF RInv, IInv
  <2> QED BY <2>1 DEF Work
<1>2. RInv /\ [Next]_vars => [Work' < Work]_vars
  BY StepWorks
<1> QED BY <1>1, <1>2, ContentsInvariant, PTL DEF Spec

-----------------------------------------------------------------------------
(* The process: the limit is one of each request (GlobalFetchLimit), so the bound *)
(* of the process is a limit per request.                                         *)

\* The slots of all requests together.
SlotsOfProcess == Cardinality(UNION {Holders(r) : r \in Requests})

\* However the requests interleave, no more fetches run than the limit for each of
\* them (:65, :170-174).
THEOREM ProcessIsBounded ==
  Spec => [](SlotsOfProcess <= Cardinality(Requests) * MaxRoutines)
<1>1. SlotsBounded => SlotsOfProcess <= Cardinality(Requests) * MaxRoutines
  <2> SUFFICES ASSUME SlotsBounded
               PROVE  SlotsOfProcess <= Cardinality(Requests) * MaxRoutines
    OBVIOUS
  <2> DEFINE H == [r \in Requests |-> Holders(r)]
  <2>1. H \in [Requests -> SUBSET Tasks] /\ \A r \in Requests : H[r] = Holders(r)
    BY DEF Holders
  <2>2. {H[r] : r \in Requests} = {Holders(r) : r \in Requests}
    BY <2>1
  <2>3. \A r \in Requests : Cardinality(H[r]) <= MaxRoutines
    BY <2>1 DEF SlotsBounded
  <2> HIDE DEF H
  <2>4. IsFiniteSet(Requests) /\ IsFiniteSet(Tasks) /\ MaxRoutines \in Nat
    BY TypesAssumption, LimitAssumption, Finiteness
  <2>5. Cardinality(UNION {H[r] : r \in Requests}) <= Cardinality(Requests) * MaxRoutines
    BY <2>1, <2>3, <2>4, UnionBound
  <2> QED BY <2>2, <2>5 DEF SlotsOfProcess
<1> QED BY <1>1, SlotsAreBounded, PTL
=============================================================================
