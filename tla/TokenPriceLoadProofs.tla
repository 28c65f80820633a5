------------------------ MODULE TokenPriceLoadProofs ------------------------
(***************************************************************************)
(* Proofs about TokenPriceLoad, for any networks, batch sizes, replies and *)
(* limits: the semaphore and the WaitGroup count the goroutines, the       *)
(* batches are the tokens, the cache holds what the replies brought, and   *)
(* the report never says too much, nor too little without a race.          *)
(***************************************************************************)
EXTENDS TokenPriceLoad, FoldLemmas

BatchPlaces == {"none", "ask", "work", "add", "map", "finish", "done"}

-----------------------------------------------------------------------------
(* Batches. *)

LEMMA TokensAreSequences ==
  \A i \in DOMAIN Definitions :
    Definitions[i].tokens \in Seq(Tokens) /\ Len(Definitions[i].tokens) \in Nat
<1> SUFFICES ASSUME NEW i \in DOMAIN Definitions
             PROVE  Definitions[i].tokens \in Seq(Tokens)
                    /\ Len(Definitions[i].tokens) \in Nat
  OBVIOUS
<1>1. Definitions[i].tokens \in Seq(ToSet(Definitions[i].tokens))
  BY LoadAssumption
<1>2. ToSet(Definitions[i].tokens) \subseteq Tokens
  BY DEF Tokens
<1> QED BY <1>1, <1>2

\* There are no more batches than tokens, enough for all of them, and the last
\* one begins within the tokens.
LEMMA BatchCountBound ==
  ASSUME NEW n \in Nat, NEW m \in Nat \ {0}
  PROVE  /\ BatchCount(n, m) \in 0..n
         /\ n <= BatchCount(n, m) * m
         /\ n > 0 => (BatchCount(n, m) - 1) * m < n
<1>1. n = 0 => n + m - 1 < m
  OBVIOUS
<1>2. n # 0 => n + m - 1 <= n * m
  <2>1. n # 0 => (n - 1) * (m - 1) >= 0
    OBVIOUS
  <2> QED BY <2>1
<1>3. BatchCount(n, m) \in 0..n
  BY <1>1, <1>2 DEF BatchCount
<1> DEFINE c == BatchCount(n, m)
<1>4. m * c <= n + m - 1 /\ n + m - 1 < m * c + m
  BY DEF BatchCount
<1>5. c \in Nat
  BY <1>3
<1> HIDE DEF c
<1>6. n <= c * m /\ (c - 1) * m < n
  BY <1>4, <1>5
<1> QED BY <1>3, <1>6 DEF c

LEMMA BatchesAreIds ==
  ASSUME NEW n \in BatchSizes
  PROVE  BatchesToAsk(n) \subseteq BatchIds
<1>1. ASSUME NEW i \in DOMAIN Definitions
      PROVE  DOMAIN BatchTokenInfos(Definitions[i].tokens, n)
               \subseteq 1..Len(Definitions[i].tokens)
  <2> DEFINE m == IF n <= 0 THEN 30 ELSE n
             l == Len(Definitions[i].tokens)
  <2>1. m \in Nat \ {0} /\ l \in Nat
    BY LoadAssumption, TokensAreSequences
  <2>2. DOMAIN BatchTokenInfos(Definitions[i].tokens, n) = 1..BatchCount(l, m)
    BY DEF BatchTokenInfos
  <2> HIDE DEF m, l
  <2>3. 1..BatchCount(l, m) \subseteq 1..l
    BY <2>1, BatchCountBound
  <2> QED BY <2>2, <2>3 DEF l
<1> QED BY <1>1 DEF BatchesToAsk, BatchIds

\* The slices of batchTokenInfos, one after the other, are the tokens.
LEMMA SlicesAreAll ==
  ASSUME NEW V, NEW tokens \in Seq(V), NEW batchSize \in Int \ {0}
  PROVE  LET m == IF batchSize <= 0 THEN 30 ELSE batchSize
             batches == BatchTokenInfos(tokens, batchSize)
         IN /\ batches \in Seq(Seq(V))
            /\ DOMAIN batches = 1..BatchCount(Len(tokens), m)
            /\ FlattenSeq(batches) = tokens
            /\ \A k \in DOMAIN batches :
                 Len(batches[k]) \in 1..m /\ Len(batches[k]) <= Len(tokens)
<1> DEFINE m == IF batchSize <= 0 THEN 30 ELSE batchSize
           n == Len(tokens)
           c == BatchCount(n, m)
           batches == BatchTokenInfos(tokens, batchSize)
           End(k) == IF k * m <= n THEN k * m ELSE n
<1>1. m \in Nat \ {0} /\ n \in Nat
  OBVIOUS
<1>2. batches = [k \in 1..c |-> SubSeq(tokens, (k - 1) * m + 1, End(k))]
  BY DEF BatchTokenInfos
<1> HIDE DEF m, n, batches
<1>3. c \in 0..n /\ n <= c * m /\ (n > 0 => (c - 1) * m < n)
  BY <1>1, BatchCountBound
<1> HIDE DEF c
<1>4. ASSUME NEW k \in 1..c
      PROVE  /\ (k - 1) * m \in Nat /\ (k - 1) * m < n
             /\ End(k) \in 1..n /\ (k - 1) * m < End(k) /\ End(k) - (k - 1) * m <= m
             /\ k * m = (k - 1) * m + m
             /\ (k = c => End(k) = n)
  <2>1. k \in Nat /\ c \in Nat /\ k >= 1 /\ c - k \in Nat /\ k - 1 \in Nat /\ n > 0
    BY <1>1, <1>3
  <2>2. (c - k) * m >= 0 /\ (k - 1) * m \in Nat
    BY <1>1, <2>1
  <2>3. (c - 1) * m = (c - k) * m + (k - 1) * m /\ k * m = (k - 1) * m + m
    BY <1>1, <2>1
  <2>4. (k - 1) * m < n
    <3> DEFINE p == (c - 1) * m
               q == (c - k) * m
               x == (k - 1) * m
    <3>1. p \in Int /\ q \in Int /\ x \in Nat /\ p = q + x /\ q >= 0 /\ p < n
      BY <1>1, <1>3, <2>1, <2>2, <2>3
    <3> HIDE DEF p, q, x
    <3>2. x < n
      BY <1>1, <3>1
    <3> QED BY <3>2 DEF x
  <2> DEFINE x == (k - 1) * m
             y == k * m
  <2>5. x \in Nat /\ y = x + m /\ x < n /\ (k = c => n <= y)
    BY <1>3, <2>2, <2>3, <2>4
  <2> HIDE DEF x, y
  <2>6. End(k) = IF y <= n THEN y ELSE n
    BY DEF y
  <2>7. /\ End(k) \in 1..n /\ x < End(k) /\ End(k) - x <= m
        /\ (k = c => End(k) = n)
    BY <1>1, <2>5, <2>6
  <2> QED BY <2>5, <2>7 DEF x, y
<1>5. ASSUME NEW k \in 1..c
      PROVE  /\ batches[k] \in Seq(V)
             /\ Len(batches[k]) \in 1..m /\ Len(batches[k]) <= n
  <2> DEFINE x == (k - 1) * m
             e == End(k)
  <2>1. batches[k] = SubSeq(tokens, x + 1, e)
    BY <1>2
  <2>2. x \in Nat /\ e \in 1..n /\ x < e /\ e - x <= m
    BY <1>4
  <2> HIDE DEF x, e
  <2>3. x + 1 \in 1..(n + 1) /\ e \in x..n
    BY <1>1, <2>2
  <2>4. SubSeq(tokens, x + 1, e) \in Seq(V) /\ Len(SubSeq(tokens, x + 1, e)) = e - x
    <3>1. \A i \in (x + 1)..e : tokens[i] \in V
      BY <1>1, <2>2 DEF n
    <3> QED BY <2>2, <3>1
  <2> QED BY <1>1, <2>1, <2>2, <2>4
<1>6. batches \in Seq(Seq(V)) /\ Len(batches) = c /\ DOMAIN batches = 1..c
  <2>1. c \in Nat
    BY <1>1, <1>3
  <2>2. batches \in [1..c -> Seq(V)]
    BY <1>2, <1>5
  <2> QED BY <2>1, <2>2
<1>7. PICK h \in [0..c -> Seq(V)] : Stages(h, batches, c) /\ FlattenSeq(batches) = h[c]
  BY <1>6, FlattenStages
<1> DEFINE N == {k \in Nat : k <= c => h[k] = SubSeq(tokens, 1, End(k))}
<1>8. 0 \in N
  <2>1. End(0) = 0 /\ h[0] = <<>>
    BY <1>1, <1>7 DEF Stages
  <2>2. SubSeq(tokens, 1, 0) = <<>>
    OBVIOUS
  <2> HIDE DEF End
  <2> QED BY <2>1, <2>2
<1>9. ASSUME NEW k \in Nat, k \in N PROVE k + 1 \in N
  <2> SUFFICES ASSUME k + 1 <= c PROVE h[k + 1] = SubSeq(tokens, 1, End(k + 1))
    OBVIOUS
  <2>1. k + 1 \in 1..c /\ (k + 1) - 1 = k /\ k <= c
    BY <1>1, <1>3
  <2>2. h[k + 1] = h[k] \o batches[k + 1]
    BY <1>7, <2>1 DEF Stages
  <2>3. k * m \in Nat /\ k * m < n /\ End(k + 1) \in 1..n /\ k * m < End(k + 1)
    BY <1>4, <2>1
  <2>4. End(k) = k * m
    BY <1>1, <2>3
  <2>5. batches[k + 1] = SubSeq(tokens, k * m + 1, End(k + 1))
    BY <1>2, <2>1
  <2>6. h[k] = SubSeq(tokens, 1, k * m)
    BY <1>9, <2>1, <2>4
  <2> DEFINE x == k * m
             e == End(k + 1)
  <2>7. SubSeq(tokens, 1, x) \o SubSeq(tokens, x + 1, e) = SubSeq(tokens, 1, e)
    <3>1. x \in Nat /\ e \in 1..n /\ x < e
      BY <2>3
    <3> HIDE DEF x, e
    <3>2. 1 \in 1..(Len(tokens) + 1) /\ x \in (1 - 1)..Len(tokens) /\ e \in x..Len(tokens)
      BY <1>1, <3>1 DEF n
    <3> QED BY <3>2, ConcatAdjacentSubSeq
  <2> QED BY <2>2, <2>5, <2>6, <2>7
<1>10. h[c] = tokens
  <2>1. c \in N
    <3> HIDE DEF N
    <3>1. c \in Nat
      BY <1>1, <1>3
    <3> QED BY <1>8, <1>9, <3>1, NaturalSteps
  <2>2. End(c) = n
    <3>1. CASE c = 0
      BY <1>1, <1>3, <3>1
    <3>2. CASE c # 0
      BY <1>1, <1>3, <1>4, <3>2
    <3> QED BY <3>1, <3>2
  <2>3. h[c] = SubSeq(tokens, 1, n)
    <3> HIDE DEF End
    <3> QED BY <1>1, <1>3, <2>1, <2>2
  <2> QED BY <2>3 DEF n
<1> QED BY <1>5, <1>6, <1>7, <1>10 DEF m, n, batches, c

LEMMA BatchesAreFinite == IsFiniteSet(BatchIds)
<1> DEFINE D == DOMAIN Definitions
           Of == [i \in D |-> {i} \X (1..Len(Definitions[i].tokens))]
           all == {Of[i] : i \in D}
<1>1. ASSUME NEW i \in D PROVE IsFiniteSet(Of[i])
  <2>1. Len(Definitions[i].tokens) \in Int
    BY TokensAreSequences
  <2>2. IsFiniteSet(1..Len(Definitions[i].tokens))
    BY <2>1, FS_Interval
  <2>3. IsFiniteSet({i})
    BY FS_Singleton
  <2> QED BY <2>2, <2>3, FS_Product
<1>2. Of \in Surjection(D, all)
  BY DEF Surjection
<1>3. IsFiniteSet(all)
  <2>1. IsFiniteSet(D)
    BY LoadAssumption
  <2> HIDE DEF D, Of, all
  <2> QED BY <1>2, <2>1, FS_Surjection
<1>4. IsFiniteSet(UNION all)
  <2> HIDE DEF Of, D
  <2> QED BY <1>1, <1>3, FS_UNION
<1>5. BatchIds = UNION all
  BY DEF BatchIds
<1> QED BY <1>4, <1>5

-----------------------------------------------------------------------------
(* Counting. *)

\* A set that gains or loses one element.
LEMMA OneMore ==
  ASSUME NEW S, IsFiniteSet(S), NEW x
  PROVE  /\ Cardinality(S) \in Nat
         /\ x \notin S => Cardinality(S \cup {x}) = Cardinality(S) + 1
         /\ x \in S => Cardinality(S \ {x}) = Cardinality(S) - 1
         /\ Cardinality(S) = 0 <=> S = {}
BY FS_CardinalityType, FS_AddElement, FS_RemoveElement, FS_EmptySet

\* Two of a set are two.
LEMMA TwoAreTwo ==
  ASSUME NEW S, IsFiniteSet(S), NEW x \in S, NEW y \in S, x # y
  PROVE  Cardinality(S) > 1
<1>1. IsFiniteSet(S \ {x}) /\ y \in S \ {x}
  BY FS_Subset
<1>2. Cardinality(S \ {x}) \in Nat /\ Cardinality(S \ {x}) # 0
  BY <1>1, OneMore
<1> QED BY <1>2, OneMore

InvTypes ==
  /\ size \in BatchSizes /\ limit \in Limits \cap (Nat \ {0})
  /\ bpc \in [BatchIds -> BatchPlaces]
  /\ toAsk \subseteq BatchIds

\* A batch that is yet to be asked for has no goroutine, and without the loop none has.
Fresh == /\ \A b \in toAsk : bpc[b] = "none"
         /\ load \in {"start", "failed"} => \A b \in BatchIds : bpc[b] = "none"

IInv == InvTypes /\ Fresh /\ LoadAccounting /\ sem <= limit

LEMMA CountsAreFinite == IsFiniteSet(InFlight) /\ IsFiniteSet(Running)
BY BatchesAreFinite, FS_Subset DEF InFlight, Running

\* One goroutine moves.
LEMMA Moves ==
  ASSUME InvTypes, NEW b \in BatchIds, NEW v \in BatchPlaces,
         bpc' = [bpc EXCEPT ![b] = v]
  PROVE  /\ bpc' \in [BatchIds -> BatchPlaces]
         /\ \A c \in BatchIds : bpc'[c] = IF c = b THEN v ELSE bpc[c]
         /\ InFlight' = IF v \notin {"none", "finish", "done"}
                          THEN InFlight \cup {b} ELSE InFlight \ {b}
         /\ Running'  = IF v \notin {"none", "done"}
                          THEN Running \cup {b} ELSE Running \ {b}
<1>1. /\ bpc' \in [BatchIds -> BatchPlaces]
      /\ \A c \in BatchIds : bpc'[c] = IF c = b THEN v ELSE bpc[c]
  BY DEF InvTypes
<1> QED BY <1>1 DEF InFlight, Running

\* The steps between the start of a goroutine and its release of the slot leave
\* the counters alone.
LEMMA WorkStep ==
  ASSUME IInv, NEW b \in BatchIds, NEW v \in {"work", "add", "map"},
         bpc[b] \in {"ask", "work", "add", "map"},
         bpc' = [bpc EXCEPT ![b] = v],
         UNCHANGED <<size, limit, load, toAsk, sem, wg>>
  PROVE  IInv'
<1>1. b \in InFlight /\ b \in Running
  BY DEF InFlight, Running
<1>2. InFlight' = InFlight /\ Running' = Running
  <2>1. InFlight' = InFlight \cup {b} /\ Running' = Running \cup {b}
    BY Moves DEF IInv, BatchPlaces
  <2> QED BY <1>1, <2>1
<1>3. /\ bpc' \in [BatchIds -> BatchPlaces]
      /\ \A c \in BatchIds : bpc'[c] = IF c = b THEN v ELSE bpc[c]
  BY Moves DEF IInv, BatchPlaces
<1> QED BY <1>1, <1>2, <1>3 DEF IInv, InvTypes, Fresh, LoadAccounting

LEMMA InitIInv == Init => IInv
<1> SUFFICES ASSUME Init PROVE IInv
  OBVIOUS
<1>1. InFlight = {} /\ Running = {}
  BY DEF Init, InFlight, Running
<1>2. InvTypes /\ Fresh
  BY LoadAssumption DEF Init, InvTypes, Fresh, BatchPlaces
<1>3. limit \in Nat \ {0}
  BY <1>2 DEF InvTypes
<1> QED BY <1>1, <1>2, <1>3, FS_EmptySet DEF Init, IInv, LoadAccounting

LEMMA StepIInv == IInv /\ [Next]_vars => IInv'
<1> SUFFICES ASSUME IInv, [Next]_vars PROVE IInv'
  OBVIOUS
<1>0. sem \in Nat /\ wg \in Nat /\ (wg = 0 <=> Running = {})
  BY CountsAreFinite, OneMore DEF IInv, LoadAccounting
<1>1. CASE StartLoad
  <2>1. toAsk' \subseteq BatchIds
    BY <1>1, BatchesAreIds DEF StartLoad, IInv, InvTypes
  <2>2. /\ InFlight' = InFlight /\ Running' = Running
        /\ UNCHANGED <<size, limit, sem, wg, bpc>> /\ load = "start" /\ load' # "start"
        /\ load' # "done"
    BY <1>1 DEF StartLoad, InFlight, Running, config, goVars
  <2> QED BY <2>1, <2>2 DEF IInv, InvTypes, Fresh, LoadAccounting
<1>2. CASE Launch
  <2>1. PICK b \in toAsk : /\ toAsk' = toAsk \ {b}
                           /\ bpc' = [bpc EXCEPT ![b] = "ask"]
    BY <1>2 DEF Launch
  <2>2. b \in BatchIds /\ bpc[b] = "none"
    BY DEF IInv, InvTypes, Fresh
  <2>3. /\ bpc' \in [BatchIds -> BatchPlaces]
        /\ \A c \in BatchIds : bpc'[c] = IF c = b THEN "ask" ELSE bpc[c]
        /\ InFlight' = InFlight \cup {b} /\ Running' = Running \cup {b}
    BY <2>1, <2>2, Moves DEF IInv, BatchPlaces
  <2>4. b \notin InFlight /\ b \notin Running
    BY <2>2 DEF InFlight, Running
  <2>5. sem' = Cardinality(InFlight') /\ wg' = Cardinality(Running')
    BY <1>2, <2>3, <2>4, CountsAreFinite, OneMore DEF Launch, IInv, LoadAccounting
  <2>6. sem' <= limit' /\ load = "fan" /\ UNCHANGED <<load, size, limit>>
    BY <1>0, <1>2 DEF Launch, SlotFree, config, IInv, InvTypes
  <2> QED BY <2>1, <2>3, <2>5, <2>6 DEF IInv, InvTypes, Fresh, LoadAccounting
<1>3. CASE FinishLoad
  <2>1. /\ InFlight' = InFlight /\ Running' = Running /\ wg = 0
        /\ UNCHANGED <<size, limit, toAsk, sem, wg, bpc>> /\ load' = "done"
    BY <1>3 DEF FinishLoad, BatchesDone, InFlight, Running, config, goVars
  <2> QED BY <1>0, <2>1 DEF IInv, InvTypes, Fresh, LoadAccounting
<1>4. ASSUME NEW b \in BatchIds, Ask(b) PROVE IInv'
  BY <1>4, WorkStep DEF Ask, config
<1>5. ASSUME NEW b \in BatchIds, ReadCount(b) PROVE IInv'
  BY <1>5, WorkStep DEF ReadCount, NextIs, config
<1>6. ASSUME NEW b \in BatchIds, WriteCount(b) PROVE IInv'
  BY <1>6, WorkStep DEF WriteCount, config
<1>7. ASSUME NEW b \in BatchIds, CachePrice(b) \/ ConcurrentMapWrites(b)
      PROVE  IInv'
  BY <1>7 DEF CachePrice, ConcurrentMapWrites, config, goVars, IInv, InvTypes, Fresh,
              LoadAccounting, InFlight, Running
<1>8. ASSUME NEW b \in BatchIds, EnterMap(b) PROVE IInv'
  BY <1>8, WorkStep DEF EnterMap, NextIs, config
<1>9. ASSUME NEW b \in BatchIds, LeaveMap(b) PROVE IInv'
  BY <1>9, WorkStep DEF LeaveMap, config
<1>10. ASSUME NEW b \in BatchIds, ReleaseSlot(b) PROVE IInv'
  <2>1. b \in InFlight /\ b \in Running
    BY <1>10 DEF ReleaseSlot, InFlight, Running
  <2>2. /\ bpc' \in [BatchIds -> BatchPlaces]
        /\ \A c \in BatchIds : bpc'[c] = IF c = b THEN "finish" ELSE bpc[c]
        /\ InFlight' = InFlight \ {b} /\ Running' = Running \cup {b}
    BY <1>10, Moves DEF ReleaseSlot, IInv, BatchPlaces
  <2>a. Running' = Running
    BY <2>1, <2>2
  <2>3. sem' = Cardinality(InFlight') /\ sem' <= limit'
    BY <1>0, <1>10, <2>1, <2>2, CountsAreFinite, OneMore
    DEF ReleaseSlot, FreeSlot, IInv, InvTypes, LoadAccounting, config
  <2> QED BY <1>10, <2>1, <2>2, <2>a, <2>3
          DEF ReleaseSlot, IInv, InvTypes, Fresh, LoadAccounting, config
<1>11. ASSUME NEW b \in BatchIds, Finish(b) PROVE IInv'
  <2>1. b \notin InFlight /\ b \in Running
    BY <1>11 DEF Finish, InFlight, Running
  <2>2. /\ bpc' \in [BatchIds -> BatchPlaces]
        /\ \A c \in BatchIds : bpc'[c] = IF c = b THEN "done" ELSE bpc[c]
        /\ InFlight' = InFlight \ {b} /\ Running' = Running \ {b}
    BY <1>11, Moves DEF Finish, IInv, BatchPlaces
  <2>a. InFlight' = InFlight
    BY <2>1, <2>2
  <2>3. wg' = Cardinality(Running')
    BY <1>11, <2>1, <2>2, CountsAreFinite, OneMore DEF Finish, IInv, LoadAccounting
  <2> QED BY <1>11, <2>1, <2>2, <2>a, <2>3
          DEF Finish, IInv, InvTypes, Fresh, LoadAccounting, config
<1>12. CASE UNCHANGED vars
  BY <1>12 DEF vars, config, goVars, IInv, InvTypes, Fresh, LoadAccounting, InFlight,
               Running
<1> QED BY <1>1, <1>2, <1>3, <1>4, <1>5, <1>6, <1>7, <1>8, <1>9, <1>10, <1>11, <1>12
        DEF Next, LoaderStep, BatchStep, Ended

\* For any networks, batch sizes, replies and limits.
THEOREM LoadInvariant == Spec => []IInv
BY InitIInv, StepIInv, PTL DEF Spec

\* The semaphore and the WaitGroup count the goroutines, and nothing runs once the
\* load is done.
THEOREM LoadIsAccounted == Spec => []LoadAccounting
<1>1. IInv => LoadAccounting
  BY DEF IInv
<1> QED BY <1>1, LoadInvariant, PTL

\* The requests to DEXScreener never exceed the limit.
THEOREM RequestsAreBounded == Spec => [](Cardinality(InFlight) <= limit)
<1>1. IInv => Cardinality(InFlight) <= limit
  BY DEF IInv, LoadAccounting
<1> QED BY <1>1, LoadInvariant, PTL

\* With a limit of one goroutine the unguarded map cannot end the process.
THEOREM SerialLoadSurvives == Spec => [](limit = 1 => load # "crashed")
<1> DEFINE Safe == limit = 1 => load # "crashed"
<1>1. Init => Safe
  BY DEF Init
<1>2. IInv /\ Safe /\ [Next]_vars => Safe'
  <2> SUFFICES ASSUME IInv, Safe, [Next]_vars, limit' = 1 PROVE load' # "crashed"
    OBVIOUS
  <2>1. ASSUME NEW b \in BatchIds, ConcurrentMapWrites(b) PROVE FALSE
    <3>1. PICK c \in BatchIds \ {b} : bpc[c] = "map" /\ bpc[b] = "map"
      BY <2>1 DEF ConcurrentMapWrites
    <3>2. Cardinality(InFlight) > 1
      BY <3>1, CountsAreFinite, TwoAreTwo DEF InFlight
    <3>3. limit = 1 /\ Cardinality(InFlight) <= limit
      BY <2>1 DEF ConcurrentMapWrites, config, IInv, LoadAccounting
    <3>4. Cardinality(InFlight) \in Nat
      BY CountsAreFinite, FS_CardinalityType
    <3> QED BY <3>2, <3>3, <3>4
  <2>2. CASE LoaderStep
    BY <2>2 DEF LoaderStep, StartLoad, Launch, FinishLoad, config
  <2>3. ASSUME NEW b \in BatchIds, BatchStep(b), ~ConcurrentMapWrites(b)
        PROVE  load' # "crashed"
    BY <2>3 DEF BatchStep, Ask, ReadCount, WriteCount, CachePrice, EnterMap, LeaveMap,
                ReleaseSlot, Finish
  <2>4. CASE UNCHANGED vars
    BY <2>4 DEF vars, config
  <2> QED BY <2>1, <2>2, <2>3, <2>4 DEF Next, Ended
<1> QED BY <1>1, <1>2, LoadInvariant, PTL DEF Spec

\* The tokens of a network in its batches.
LEMMA BatchesOfNetwork ==
  ASSUME NEW n \in BatchSizes, NEW i \in DOMAIN Definitions,
         NEW batches, batches = BatchTokenInfos(Definitions[i].tokens, n)
  PROVE  /\ batches \in Seq(Seq(Tokens)) /\ FlattenSeq(batches) = Definitions[i].tokens
         /\ \A k \in DOMAIN batches :
              /\ batches[k] \in Seq(Tokens)
              /\ Len(batches[k]) \in Nat \ {0}
              /\ Len(batches[k]) <= Len(Definitions[i].tokens)
              /\ n > 0 => Len(batches[k]) <= n
<1> DEFINE m == IF n <= 0 THEN 30 ELSE n
<1>1. Definitions[i].tokens \in Seq(Tokens) /\ n \in Int \ {0}
  BY TokensAreSequences, LoadAssumption
<1>2. /\ batches \in Seq(Seq(Tokens)) /\ FlattenSeq(batches) = Definitions[i].tokens
      /\ \A k \in DOMAIN batches :
           /\ Len(batches[k]) \in 1..m
           /\ Len(batches[k]) <= Len(Definitions[i].tokens)
  BY <1>1, SlicesAreAll
<1>3. m \in Nat \ {0} /\ (n > 0 => m = n)
  BY <1>1
<1> HIDE DEF m
<1>4. \A k \in DOMAIN batches : batches[k] \in Seq(Tokens)
  BY <1>2
<1> QED BY <1>2, <1>3, <1>4

\* Every slice of tokens the loop asks for is one, and fits the client.
THEOREM BatchesAreSlices == Spec => []BatchesFit
<1>1. IInv => BatchesFit
  <2> SUFFICES ASSUME IInv PROVE BatchesFit
    OBVIOUS
  <2>1. size \in BatchSizes
    BY DEF IInv, InvTypes
  <2>2. ASSUME NEW i \in DOMAIN Definitions
        PROVE  /\ FlattenSeq(BatchTokenInfos(Definitions[i].tokens, size))
                    = Definitions[i].tokens
               /\ \A k \in DOMAIN BatchTokenInfos(Definitions[i].tokens, size) :
                    LET batch == BatchTokenInfos(Definitions[i].tokens, size)[k]
                    IN  Len(batch) > 0 /\ (size > 0 => Len(batch) <= size)
    <3> DEFINE batches == BatchTokenInfos(Definitions[i].tokens, size)
    <3>1. batches = BatchTokenInfos(Definitions[i].tokens, size)
      OBVIOUS
    <3> HIDE DEF batches
    <3>2. FlattenSeq(batches) = Definitions[i].tokens
          /\ \A k \in DOMAIN batches : Len(batches[k]) \in Nat \ {0}
                                       /\ (size > 0 => Len(batches[k]) <= size)
      BY <2>1, <3>1, BatchesOfNetwork
    <3> QED BY <3>2 DEF batches
  <2> QED BY <2>2 DEF BatchesFit
<1> QED BY <1>1, LoadInvariant, PTL

-----------------------------------------------------------------------------
(* Replies and what a goroutine does with them. *)

LEMMA BatchOf ==
  ASSUME size \in BatchSizes, NEW b \in BatchesToAsk(size)
  PROVE  /\ b \in BatchIds /\ b[1] \in DOMAIN Definitions
         /\ Definitions[b[1]].dex # NoDex /\ DexOf(b) \in DexIds
         /\ Batch(b) \in Seq(Tokens) /\ Len(Batch(b)) \in Nat \ {0}
         /\ Len(Batch(b)) <= Len(Definitions[b[1]].tokens)
<1>1. b \in BatchIds
  BY BatchesAreIds
<1>2. PICK i \in DOMAIN Definitions :
        /\ Definitions[i].dex # NoDex
        /\ b \in {i} \X DOMAIN BatchTokenInfos(Definitions[i].tokens, size)
  BY DEF BatchesToAsk
<1>3. b[1] = i /\ b[2] \in DOMAIN BatchTokenInfos(Definitions[i].tokens, size)
  BY <1>2
<1>4. DexOf(b) \in DexIds
  BY <1>2, <1>3 DEF DexOf, DexIds
<1>5. /\ Batch(b) \in Seq(Tokens) /\ Len(Batch(b)) \in Nat \ {0}
      /\ Len(Batch(b)) <= Len(Definitions[i].tokens)
  <2> DEFINE batches == BatchTokenInfos(Definitions[i].tokens, size)
  <2>1. Batch(b) = batches[b[2]] /\ b[2] \in DOMAIN batches
    BY <1>3 DEF Batch
  <2>2. batches = BatchTokenInfos(Definitions[i].tokens, size)
    OBVIOUS
  <2> HIDE DEF batches
  <2>3. \A k \in DOMAIN batches :
          /\ batches[k] \in Seq(Tokens) /\ Len(batches[k]) \in Nat \ {0}
          /\ Len(batches[k]) <= Len(Definitions[i].tokens)
    BY <1>2, <2>2, BatchesOfNetwork
  <2> QED BY <2>1, <2>3
<1> QED BY <1>1, <1>2, <1>3, <1>4, <1>5

\* The steps of a script.
Counters == {"processed", "missed"}
Steps == [do : {"missed"}, by : Nat] \cup {Processed, Mark}
           \cup [do : {"store"}, token : Tokens, price : Prices \ {NoPrice}]

\* What a step adds to a counter.
By(c) == [e \in Steps |-> IF e.do = c THEN e.by ELSE 0]

LEMMA ByIsNat == \A c \in Counters : By(c) \in [Steps -> Nat]
<1> SUFFICES ASSUME NEW c \in Counters, NEW e \in Steps, e.do = c PROVE e.by \in Nat
  BY DEF By
<1> QED BY DEF Counters, Steps, Processed, Mark

LEMMA StepsOf ==
  /\ \A n \in Nat : Missed(n) \in Steps /\ By("missed")[Missed(n)] = n
                    /\ By("processed")[Missed(n)] = 0 /\ Missed(n).do = "missed"
  /\ Processed \in Steps /\ By("missed")[Processed] = 0
     /\ By("processed")[Processed] = 1 /\ Processed.do = "processed"
  /\ Mark \in Steps /\ By("missed")[Mark] = 0 /\ By("processed")[Mark] = 0
     /\ Mark.do = "mark"
  /\ \A t \in Tokens, p \in Prices \ {NoPrice} :
       /\ Store(t, p) \in Steps
       /\ By("missed")[Store(t, p)] = 0 /\ By("processed")[Store(t, p)] = 0
       /\ Store(t, p).do = "store" /\ Store(t, p).token = t /\ Store(t, p).price = p
<1>1. ASSUME NEW n \in Nat PROVE Missed(n) \in Steps /\ Missed(n).do = "missed"
                                 /\ Missed(n).by = n
  BY DEF Steps, Missed
<1>2. /\ Processed \in Steps /\ Processed.do = "processed" /\ Processed.by = 1
      /\ Mark \in Steps /\ Mark.do = "mark"
  BY DEF Steps, Processed, Mark
<1>3. ASSUME NEW t \in Tokens, NEW p \in Prices \ {NoPrice}
      PROVE  Store(t, p) \in Steps /\ Store(t, p).do = "store"
             /\ Store(t, p).token = t /\ Store(t, p).price = p
  BY DEF Steps, Store
<1> QED BY <1>1, <1>2, <1>3 DEF By

\* The script of one token: its steps, what they store and what they count.
LEMMA TokenScripts ==
  ASSUME NEW t \in Tokens, NEW q \in Quotes
  PROVE  /\ TokenScript(t, q) \in Seq(Steps)
         /\ \A e \in ToSet(TokenScript(t, q)) :
              e.do = "store" => q.price # NoPrice /\ e = Store(t, q.price)
         /\ q.price # NoPrice => Store(t, q.price) \in ToSet(TokenScript(t, q))
         /\ Weight(By("processed"), TokenScript(t, q)) = IF q.price # NoPrice THEN 1 ELSE 0
         /\ Weight(By("missed"), TokenScript(t, q)) = Misses(q)
<1> DEFINE bad  == [k \in 1..q.bad |-> Missed(1)]
           rest == IF q.price = NoPrice THEN <<Missed(1)>>
                   ELSE <<Store(t, q.price), Processed, Mark>>
<1>1. q.bad \in Nat /\ q.price \in Prices
  BY LoadAssumption DEF Prices
<1>2. Missed(1) \in Steps /\ Missed(1).do = "missed"
  BY StepsOf
<1>3. bad \in Seq(Steps) /\ Len(bad) = q.bad /\ \A k \in 1..q.bad : bad[k] = Missed(1)
  BY <1>1, <1>2
<1>4. rest \in Seq(Steps)
  BY <1>1, <1>2, StepsOf
<1>5. TokenScript(t, q) = bad \o rest
  BY DEF TokenScript
<1>6. Weight(By("missed"), bad) = q.bad /\ Weight(By("processed"), bad) = 0
  <2>1. IsFiniteSet(1..q.bad) /\ Cardinality(1..q.bad) = q.bad
    BY <1>1, FS_Interval
  <2>2. By("missed")[Missed(1)] = 1 /\ By("processed")[Missed(1)] = 0
    BY StepsOf
  <2> DEFINE m == [k \in DOMAIN bad |-> By("missed")[bad[k]]]
             p == [k \in DOMAIN bad |-> By("processed")[bad[k]]]
  <2>3. /\ DOMAIN m = 1..q.bad /\ DOMAIN p = 1..q.bad
        /\ \A k \in 1..q.bad : m[k] = 1 /\ p[k] = 0
    BY <1>1, <1>3, <2>2
  <2> HIDE DEF m, p
  <2>4. SumFunctionOnSet(m, 1..q.bad) = Cardinality({k \in 1..q.bad : m[k] = 1})
    BY <2>1, <2>3, SumCounts
  <2>5. {k \in 1..q.bad : m[k] = 1} = 1..q.bad
    BY <2>3
  <2>6. SumFunctionOnSet(p, 1..q.bad) = 0
    BY <2>1, <2>3, SumOfNothing
  <2>7. SumFunction(m) = q.bad /\ SumFunction(p) = 0
    BY <2>1, <2>3, <2>4, <2>5, <2>6 DEF SumFunction
  <2> QED BY <2>7 DEF Weight, m, p
<1>7. Weight(By("missed"), rest) = (IF q.price = NoPrice THEN 1 ELSE 0)
      /\ Weight(By("processed"), rest) = (IF q.price # NoPrice THEN 1 ELSE 0)
  <2>1. ASSUME NEW c \in Counters, NEW x \in Steps
        PROVE  Weight(By(c), <<x>>) = By(c)[x]
    <3>0. <<x>> \in Seq(Steps) /\ <<x>> # <<>> /\ By(c) \in [Steps -> Nat]
      BY ByIsNat
    <3>a. Weight(By(c), <<x>>) = By(c)[Head(<<x>>)] + Weight(By(c), Tail(<<x>>))
      BY <3>0, WeightOfTail
    <3>1. Weight(By(c), <<x>>) = By(c)[Head(<<x>>)] + Weight(By(c), Tail(<<x>>))
          /\ By(c)[x] \in Nat
      BY <3>0, <3>a
    <3>2. Head(<<x>>) = x /\ Tail(<<x>>) = <<>> /\ Weight(By(c), <<>>) = 0
      BY WeightOfNone
    <3> QED BY <3>1, <3>2
  <2>2. CASE q.price = NoPrice
    BY <1>2, <2>1, <2>2, StepsOf DEF Counters
  <2>3. CASE q.price # NoPrice
    <3> DEFINE x == Store(t, q.price)
    <3>1. x \in Steps /\ Processed \in Steps /\ Mark \in Steps
          /\ By("missed")[x] = 0 /\ By("processed")[x] = 0
      BY <1>1, <2>3, StepsOf
    <3> HIDE DEF x
    <3>2. ASSUME NEW c \in Counters
          PROVE  Weight(By(c), <<x, Processed, Mark>>)
                   = By(c)[x] + (By(c)[Processed] + By(c)[Mark])
      <4>1. /\ <<x, Processed, Mark>> = <<x>> \o (<<Processed>> \o <<Mark>>)
            /\ <<x>> \in Seq(Steps) /\ <<Processed>> \in Seq(Steps)
            /\ <<Mark>> \in Seq(Steps) /\ <<Processed>> \o <<Mark>> \in Seq(Steps)
        BY <3>1
      <4>2. By(c) \in [Steps -> Nat]
        BY ByIsNat
      <4>3. Weight(By(c), <<Processed>> \o <<Mark>>)
              = Weight(By(c), <<Processed>>) + Weight(By(c), <<Mark>>)
        BY <4>1, <4>2, WeightOfConcat
      <4>4. Weight(By(c), <<x>> \o (<<Processed>> \o <<Mark>>))
              = Weight(By(c), <<x>>) + Weight(By(c), <<Processed>> \o <<Mark>>)
        BY <4>1, <4>2, WeightOfConcat
      <4>5. /\ Weight(By(c), <<x>>) = By(c)[x]
            /\ Weight(By(c), <<Processed>>) = By(c)[Processed]
            /\ Weight(By(c), <<Mark>>) = By(c)[Mark]
        BY <2>1, <3>1
      <4> QED BY <4>1, <4>3, <4>4, <4>5, Zenon
    <3>3. /\ By("missed")[Processed] = 0 /\ By("missed")[Mark] = 0
          /\ By("processed")[Processed] = 1 /\ By("processed")[Mark] = 0
      BY StepsOf
    <3>4. /\ Weight(By("missed"), <<x, Processed, Mark>>) = 0
          /\ Weight(By("processed"), <<x, Processed, Mark>>) = 1
      BY <3>1, <3>2, <3>3 DEF Counters
    <3> QED BY <2>3, <3>4 DEF x
  <2> QED BY <2>2, <2>3
<1>8. ASSUME NEW c \in Counters
      PROVE  Weight(By(c), TokenScript(t, q)) = Weight(By(c), bad) + Weight(By(c), rest)
  <2> HIDE DEF bad, rest
  <2>1. Weight(By(c), bad \o rest) = Weight(By(c), bad) + Weight(By(c), rest)
    BY <1>3, <1>4, ByIsNat, WeightOfConcat
  <2> QED BY <1>5, <2>1, Zenon
<1>9. TokenScript(t, q) \in Seq(Steps)
  <2> HIDE DEF bad, rest
  <2> QED BY <1>3, <1>4, <1>5
<1>10. ASSUME NEW e \in ToSet(TokenScript(t, q)), e.do = "store"
       PROVE  q.price # NoPrice /\ e = Store(t, q.price)
  <2>1. e \in ToSet(bad) \cup ToSet(rest)
    <3> HIDE DEF bad, rest
    <3>1. ToSet(bad \o rest) = ToSet(bad) \cup ToSet(rest)
      BY <1>3, <1>4, ToSetOfConcat
    <3> QED BY <1>5, <3>1, Zenon
  <2>2. e # Missed(1) /\ e # Processed /\ e # Mark
    BY <1>10, StepsOf
  <2>3. e \notin ToSet(bad)
    BY <1>3, <2>2 DEF ToSet
  <2>4. e \in ToSet(rest)
    BY <2>1, <2>3
  <2>5. CASE q.price = NoPrice
    BY <2>2, <2>4, <2>5 DEF ToSet
  <2>6. CASE q.price # NoPrice
    BY <2>2, <2>4, <2>6 DEF ToSet
  <2> QED BY <2>5, <2>6
<1>11. ASSUME q.price # NoPrice PROVE Store(t, q.price) \in ToSet(TokenScript(t, q))
  <2>1. rest = <<Store(t, q.price), Processed, Mark>>
    BY <1>11
  <2>2. Store(t, q.price) \in ToSet(rest)
    BY <2>1 DEF ToSet
  <2> HIDE DEF bad, rest
  <2>3. ToSet(bad \o rest) = ToSet(bad) \cup ToSet(rest)
    BY <1>3, <1>4, ToSetOfConcat
  <2>4. ToSet(TokenScript(t, q)) = ToSet(bad) \cup ToSet(rest)
    BY <1>5, <2>3, Zenon
  <2> QED BY <2>2, <2>4
<1> HIDE DEF bad, rest
<1>12. Weight(By("processed"), TokenScript(t, q)) = IF q.price # NoPrice THEN 1 ELSE 0
  BY <1>6, <1>7, <1>8 DEF Counters
<1>13. Weight(By("missed"), TokenScript(t, q)) = Misses(q)
  BY <1>1, <1>6, <1>7, <1>8 DEF Counters, Misses
<1> QED BY <1>9, <1>10, <1>11, <1>12, <1>13

\* A reply says of the tokens what a step of the script stores.
Brought(tokens, r, e) ==
  \E k \in DOMAIN r : tokens[k] = e.token /\ r[k].price = e.price

\* The script of a reply: its steps, what they store and what they count.
LEMMA ScriptOf ==
  ASSUME NEW tokens \in Seq(Tokens), tokens # <<>>,
         NEW r, r = <<>> \/ r \in [1..Len(tokens) -> Quotes]
  PROVE  /\ Script(tokens, r) \in Seq(Steps) /\ r \in Seq(Quotes)
         /\ \A e \in ToSet(Script(tokens, r)) :
              e.do = "store" => Brought(tokens, r, e)
         /\ \A k \in DOMAIN r : r[k].price # NoPrice =>
              Store(tokens[k], r[k].price) \in ToSet(Script(tokens, r))
         /\ Weight(By("processed"), Script(tokens, r))
              = Cardinality({k \in DOMAIN r : r[k].price # NoPrice})
         /\ Weight(By("missed"), Script(tokens, r))
              = IF r = <<>> THEN Len(tokens)
                ELSE SumFunction([k \in DOMAIN r |-> Misses(r[k])])
<1>0. Len(tokens) \in Nat \ {0} /\ DOMAIN tokens = 1..Len(tokens)
      /\ \A k \in DOMAIN tokens : tokens[k] \in Tokens
  OBVIOUS
<1>1. CASE r = <<>>
  <2> DEFINE m == Missed(Len(tokens))
  <2>1. Script(tokens, r) = <<m>> /\ DOMAIN r = {} /\ r \in Seq(Quotes)
    BY <1>1 DEF Script, FailedScript
  <2>2. /\ m \in Steps /\ m.do = "missed" /\ By("missed")[m] = Len(tokens)
        /\ By("processed")[m] = 0
    BY <1>0, StepsOf
  <2> HIDE DEF m
  <2>3. ASSUME NEW c \in Counters PROVE Weight(By(c), <<m>>) = By(c)[m]
    <3>1. <<m>> \in Seq(Steps) /\ <<m>> # <<>> /\ By(c) \in [Steps -> Nat]
          /\ Head(<<m>>) = m /\ Tail(<<m>>) = <<>>
      BY <2>2, ByIsNat
    <3>2. Weight(By(c), <<m>>) = By(c)[Head(<<m>>)] + Weight(By(c), Tail(<<m>>))
      BY <3>1, WeightOfTail
    <3>3. Weight(By(c), <<>>) = 0 /\ By(c)[m] \in Nat
      BY <2>2, <3>1, WeightOfNone
    <3> QED BY <3>1, <3>2, <3>3
  <2>4. /\ Weight(By("missed"), <<m>>) = Len(tokens)
        /\ Weight(By("processed"), <<m>>) = 0
    BY <2>2, <2>3 DEF Counters
  <2>5. Cardinality({k \in DOMAIN r : r[k].price # NoPrice}) = 0
    BY <2>1, FS_EmptySet
  <2>6. <<m>> \in Seq(Steps) /\ \A e \in ToSet(<<m>>) : e.do # "store"
    BY <2>2 DEF ToSet
  <2> QED BY <1>1, <2>1, <2>4, <2>5, <2>6
<1>2. CASE r # <<>>
  <2> DEFINE ss == [k \in DOMAIN tokens |-> TokenScript(tokens[k], r[k])]
  <2>1. /\ r \in [1..Len(tokens) -> Quotes] /\ DOMAIN r = 1..Len(tokens)
        /\ r \in Seq(Quotes)
    BY <1>0, <1>2
  <2>2. Script(tokens, r) = FlattenSeq(ss)
    BY <1>2 DEF Script
  <2>3. \A k \in 1..Len(tokens) :
          /\ ss[k] = TokenScript(tokens[k], r[k]) /\ tokens[k] \in Tokens
          /\ r[k] \in Quotes /\ ss[k] \in Seq(Steps)
    BY <1>0, <2>1, TokenScripts
  <2>4. ss \in Seq(Seq(Steps)) /\ DOMAIN ss = 1..Len(tokens)
    <3>1. ss \in [1..Len(tokens) -> Seq(Steps)]
      BY <1>0, <2>3
    <3> HIDE DEF ss
    <3> QED BY <1>0, <3>1
  <2> HIDE DEF ss
  <2>5. FlattenSeq(ss) \in Seq(Steps)
        /\ ToSet(FlattenSeq(ss)) = UNION {ToSet(ss[k]) : k \in DOMAIN ss}
    BY <2>4, FlattenElements
  <2>6. ASSUME NEW e \in ToSet(FlattenSeq(ss)), e.do = "store"
        PROVE  Brought(tokens, r, e)
    <3>1. PICK k \in 1..Len(tokens) : e \in ToSet(ss[k])
      BY <2>4, <2>5
    <3>2. r[k].price # NoPrice /\ e = Store(tokens[k], r[k].price)
      BY <2>3, <2>6, <3>1, TokenScripts
    <3>3. e.token = tokens[k] /\ e.price = r[k].price
      BY <3>2 DEF Store
    <3> QED BY <2>1, <3>3 DEF Brought
  <2>7. ASSUME NEW k \in DOMAIN r, r[k].price # NoPrice
        PROVE  Store(tokens[k], r[k].price) \in ToSet(FlattenSeq(ss))
    <3>1. Store(tokens[k], r[k].price) \in ToSet(ss[k])
      BY <2>1, <2>3, <2>7, TokenScripts
    <3> QED BY <2>1, <2>4, <2>5, <3>1
  <2>8. ASSUME NEW c \in Counters
        PROVE  Weight(By(c), FlattenSeq(ss))
                 = SumFunction([k \in DOMAIN ss |-> Weight(By(c), ss[k])])
    BY <2>4, ByIsNat, WeightOfFlatten
  <2>9. Weight(By("missed"), FlattenSeq(ss)) = SumFunction([k \in DOMAIN r |-> Misses(r[k])])
    <3>1. \A k \in 1..Len(tokens) : Weight(By("missed"), ss[k]) = Misses(r[k])
      BY <2>3, TokenScripts
    <3>2. [k \in DOMAIN ss |-> Weight(By("missed"), ss[k])]
            = [k \in DOMAIN r |-> Misses(r[k])]
      BY <2>1, <2>4, <3>1
    <3> QED BY <2>8, <3>2 DEF Counters
  <2>10. Weight(By("processed"), FlattenSeq(ss))
           = Cardinality({k \in DOMAIN r : r[k].price # NoPrice})
    <3> DEFINE f == [k \in DOMAIN ss |-> Weight(By("processed"), ss[k])]
    <3>1. \A k \in 1..Len(tokens) :
            Weight(By("processed"), ss[k]) = IF r[k].price # NoPrice THEN 1 ELSE 0
      BY <2>3, TokenScripts
    <3>2. /\ DOMAIN f = 1..Len(tokens)
          /\ \A k \in 1..Len(tokens) : f[k] = IF r[k].price # NoPrice THEN 1 ELSE 0
      BY <2>4, <3>1
    <3> HIDE DEF f
    <3>3. SumFunctionOnSet(f, 1..Len(tokens)) = Cardinality({k \in 1..Len(tokens) : f[k] = 1})
      <4>1. IsFiniteSet(1..Len(tokens))
        BY <1>0, FS_Interval
      <4>2. \A k \in 1..Len(tokens) : f[k] \in {0, 1}
        BY <3>2
      <4> QED BY <4>1, <4>2, SumCounts
    <3>4. {k \in 1..Len(tokens) : f[k] = 1} = {k \in DOMAIN r : r[k].price # NoPrice}
      BY <2>1, <3>2
    <3>5. SumFunction(f) = Cardinality({k \in DOMAIN r : r[k].price # NoPrice})
      BY <3>2, <3>3, <3>4 DEF SumFunction
    <3> QED BY <2>8, <3>5 DEF f, Counters
  <2> QED BY <1>2, <2>1, <2>2, <2>5, <2>6, <2>7, <2>9, <2>10
<1> QED BY <1>1, <1>2

-----------------------------------------------------------------------------
(* Where a goroutine is, and what it has left to do. *)

PlaceOf(b) ==
  /\ bpc[b] \in {"none", "ask", "finish", "done"} => script[b] = <<>>
  /\ bpc[b] \in {"none", "ask"} => reply[b] = <<>>
  /\ reply[b] # <<>> => Len(reply[b]) = Len(Batch(b))
  /\ bpc[b] = "add" => script[b] # <<>> /\ Head(script[b]).do \in Counters
  /\ bpc[b] = "map" => script[b] # <<>> /\ Head(script[b]).do = "mark"

\* Every batch of the load is asked for, and nothing else is.
Covered ==
  /\ toAsk \subseteq BatchesToAsk(size)
  /\ \A b \in BatchIds : bpc[b] # "none" => b \in BatchesToAsk(size)
  /\ load \in {"fan", "done"} =>
       \A b \in BatchesToAsk(size) : b \in toAsk \/ bpc[b] # "none"
  /\ load = "done" => toAsk = {}

DataTypes ==
  /\ load \in {"start", "fan", "done", "failed", "crashed"}
  /\ reply  \in [BatchIds -> Seq(Quotes)]
  /\ script \in [BatchIds -> Seq(Steps)]
  /\ seen   \in [BatchIds -> Nat]
  /\ counts \in [processed : Nat, missed : Nat]
  /\ cachedPrices \in [DexIds -> [Tokens -> Prices]]

PInv == DataTypes /\ Covered /\ \A b \in BatchIds : PlaceOf(b)

LEMMA InitPInv == Init => PInv
<1> SUFFICES ASSUME Init PROVE PInv
  OBVIOUS
<1>1. DataTypes
  BY DEF Init, DataTypes, Prices
<1>2. Covered
  BY DEF Init, Covered
<1>3. \A b \in BatchIds : PlaceOf(b)
  BY DEF Init, PlaceOf
<1> QED BY <1>1, <1>2, <1>3 DEF PInv

\* A goroutine's step keeps the load covered and the other goroutines' places.
LEMMA OneMoves ==
  ASSUME IInv, PInv, NEW b \in BatchIds, bpc[b] # "none",
         NEW v \in BatchPlaces \ {"none"}, bpc' = [bpc EXCEPT ![b] = v],
         NEW r \in Seq(Quotes), reply' = [reply EXCEPT ![b] = r],
         NEW s \in Seq(Steps), script' = [script EXCEPT ![b] = s],
         UNCHANGED <<size, limit, load, toAsk>>
  PROVE  /\ bpc'[b] = v /\ reply'[b] = r /\ script'[b] = s
         /\ b \in BatchesToAsk(size) /\ Batch(b)' = Batch(b)
         /\ reply' \in [BatchIds -> Seq(Quotes)] /\ script' \in [BatchIds -> Seq(Steps)]
         /\ Covered'
         /\ \A c \in BatchIds \ {b} :
              /\ PlaceOf(c)'
              /\ UNCHANGED <<bpc[c], reply[c], script[c]>>
<1>1. /\ bpc \in [BatchIds -> BatchPlaces]
      /\ reply \in [BatchIds -> Seq(Quotes)] /\ script \in [BatchIds -> Seq(Steps)]
  BY DEF IInv, InvTypes, PInv, DataTypes
<1>2. /\ bpc'[b] = v /\ reply'[b] = r /\ script'[b] = s
      /\ reply' \in [BatchIds -> Seq(Quotes)] /\ script' \in [BatchIds -> Seq(Steps)]
      /\ \A c \in BatchIds \ {b} :
           bpc'[c] = bpc[c] /\ reply'[c] = reply[c] /\ script'[c] = script[c]
  BY <1>1
<1>3. \A c : Batch(c)' = Batch(c)
  BY DEF Batch
<1>4. \A c \in BatchIds \ {b} : PlaceOf(c)'
  BY <1>2, <1>3 DEF PInv, PlaceOf
<1>5. b \in BatchesToAsk(size)
  BY DEF PInv, Covered
<1>6. Covered'
  BY <1>2, <1>5 DEF PInv, Covered
<1> QED BY <1>2, <1>3, <1>4, <1>5, <1>6

\* What is left of a script after its first step.
LEMMA TailOf ==
  ASSUME NEW s \in Seq(Steps), s # <<>>
  PROVE  /\ Tail(s) \in Seq(Steps) /\ Head(s) \in Steps
         /\ ToSet(s) = {Head(s)} \cup ToSet(Tail(s))
<1>1. /\ <<Head(s)>> \in Seq(Steps) /\ Tail(s) \in Seq(Steps) /\ Head(s) \in Steps
      /\ s = <<Head(s)>> \o Tail(s)
  OBVIOUS
<1>2. ToSet(<<Head(s)>> \o Tail(s)) = ToSet(<<Head(s)>>) \cup ToSet(Tail(s))
  BY <1>1, ToSetOfConcat
<1>3. ToSet(<<Head(s)>>) = {Head(s)}
  BY DEF ToSet
<1> QED BY <1>1, <1>2, <1>3, Zenon

\* A reply of DEXScreener.
LEMMA ReplyOf ==
  ASSUME IInv, PInv, NEW b \in BatchIds, bpc[b] = "ask", NEW r \in Replies(b)
  PROVE  /\ b \in BatchesToAsk(size)
         /\ Batch(b) \in Seq(Tokens) /\ Batch(b) # <<>>
         /\ r = <<>> \/ r \in [1..Len(Batch(b)) -> Quotes]
<1>1. b \in BatchesToAsk(size) /\ size \in BatchSizes
  BY DEF PInv, Covered, IInv, InvTypes
<1>2. Batch(b) \in Seq(Tokens) /\ Batch(b) # <<>>
  <2>1. Batch(b) \in Seq(Tokens) /\ Len(Batch(b)) \in Nat \ {0}
    BY <1>1, BatchOf
  <2> HIDE DEF Batch
  <2> QED BY <2>1
<1>3. r = <<>> \/ r \in [1..Len(Batch(b)) -> Quotes]
  BY DEF Replies
<1> QED BY <1>1, <1>2, <1>3

\* The whole of what a step of a goroutine does to its places.
LEMMA GoStep ==
  ASSUME IInv, PInv, NEW b \in BatchIds, BatchStep(b)
  PROVE  /\ UNCHANGED <<size, limit, toAsk>>
         /\ Covered' /\ \A c \in BatchIds : PlaceOf(c)'
         /\ reply' \in [BatchIds -> Seq(Quotes)] /\ script' \in [BatchIds -> Seq(Steps)]
         /\ \A c \in BatchIds \ {b} : UNCHANGED <<bpc[c], reply[c], script[c]>>
<1> DEFINE Goal == /\ UNCHANGED <<size, limit, toAsk>>
                   /\ Covered' /\ \A c \in BatchIds : PlaceOf(c)'
                   /\ reply' \in [BatchIds -> Seq(Quotes)]
                   /\ script' \in [BatchIds -> Seq(Steps)]
                   /\ \A c \in BatchIds \ {b} : UNCHANGED <<bpc[c], reply[c], script[c]>>
<1> SUFFICES Goal
  OBVIOUS
<1> HIDE DEF Goal
<1>t. /\ bpc \in [BatchIds -> BatchPlaces]
      /\ reply \in [BatchIds -> Seq(Quotes)] /\ script \in [BatchIds -> Seq(Steps)]
      /\ reply[b] \in Seq(Quotes) /\ script[b] \in Seq(Steps) /\ PlaceOf(b)
  BY DEF IInv, InvTypes, PInv, DataTypes
<1>r. reply' = reply => reply' = [reply EXCEPT ![b] = reply[b]]
  BY <1>t
<1>s. script' = script => script' = [script EXCEPT ![b] = script[b]]
  BY <1>t
<1>p. bpc' = bpc => bpc' = [bpc EXCEPT ![b] = bpc[b]]
  BY <1>t
<1>1. CASE Ask(b)
  <2>1. PICK r \in Replies(b) :
          /\ reply'  = [reply EXCEPT ![b] = r]
          /\ script' = [script EXCEPT ![b] = Script(Batch(b), r)]
    BY <1>1 DEF Ask
  <2>2. /\ bpc[b] = "ask" /\ bpc' = [bpc EXCEPT ![b] = "work"]
        /\ UNCHANGED <<size, limit, load, toAsk>>
    BY <1>1 DEF Ask, config
  <2>3. /\ b \in BatchesToAsk(size)
        /\ Batch(b) \in Seq(Tokens) /\ Batch(b) # <<>>
        /\ r = <<>> \/ r \in [1..Len(Batch(b)) -> Quotes]
    BY <2>2, ReplyOf
  <2>4. Script(Batch(b), r) \in Seq(Steps) /\ r \in Seq(Quotes)
    <3> DEFINE batch == Batch(b)
    <3> HIDE DEF batch
    <3>1. Script(batch, r) \in Seq(Steps) /\ r \in Seq(Quotes)
      BY <2>3, ScriptOf DEF batch
    <3> QED BY <3>1 DEF batch
  <2>5. r # <<>> => Len(r) = Len(Batch(b))
    <3>1. Len(Batch(b)) \in Nat
      BY <2>3
    <3> QED BY <2>3, <3>1
  <2>6. /\ bpc'[b] = "work" /\ reply'[b] = r /\ Batch(b)' = Batch(b) /\ Covered'
        /\ reply' \in [BatchIds -> Seq(Quotes)] /\ script' \in [BatchIds -> Seq(Steps)]
        /\ \A c \in BatchIds \ {b} : PlaceOf(c)'
             /\ UNCHANGED <<bpc[c], reply[c], script[c]>>
    BY <2>1, <2>2, <2>4, OneMoves DEF BatchPlaces
  <2>7. PlaceOf(b)'
    BY <2>5, <2>6 DEF PlaceOf
  <2> QED BY <2>2, <2>6, <2>7 DEF Goal
<1>2. ASSUME NEW v \in BatchPlaces \ {"none"}, bpc[b] # "none",
             bpc' = [bpc EXCEPT ![b] = v], NEW s \in Seq(Steps),
             script' = [script EXCEPT ![b] = s], reply' = reply,
             v \notin {"ask"}, v \in {"finish", "done"} => s = <<>>,
             v = "add" => s # <<>> /\ Head(s).do \in Counters,
             v = "map" => s # <<>> /\ Head(s).do = "mark",
             UNCHANGED <<size, limit, load, toAsk>>
      PROVE  Goal
  <2>1. /\ bpc'[b] = v /\ reply'[b] = reply[b] /\ script'[b] = s
        /\ Batch(b)' = Batch(b) /\ Covered'
        /\ reply' \in [BatchIds -> Seq(Quotes)] /\ script' \in [BatchIds -> Seq(Steps)]
        /\ \A c \in BatchIds \ {b} : PlaceOf(c)'
             /\ UNCHANGED <<bpc[c], reply[c], script[c]>>
    <3>1. reply[b] \in Seq(Quotes) /\ reply' = [reply EXCEPT ![b] = reply[b]]
      BY <1>2, <1>r, <1>t
    <3> QED BY <1>2, <3>1, OneMoves
  <2>2. PlaceOf(b)'
    BY <1>2, <1>t, <2>1 DEF PlaceOf
  <2> QED BY <1>2, <2>1, <2>2 DEF Goal
<1>h. script[b] # <<>> => Tail(script[b]) \in Seq(Steps)
  BY <1>t
<1>3. CASE ReadCount(b)
  <2>1. /\ script[b] # <<>> /\ Head(script[b]).do \in Counters
        /\ UNCHANGED <<size, limit, load, toAsk, reply, script>>
        /\ bpc[b] # "none" /\ bpc' = [bpc EXCEPT ![b] = "add"]
    BY <1>3 DEF ReadCount, NextIs, Counters, config
  <2>2. "add" \in BatchPlaces \ {"none"}
    BY DEF BatchPlaces
  <2> QED BY <1>2, <1>s, <1>t, <2>1, <2>2
<1>4. CASE WriteCount(b)
  <2>1. /\ script[b] # <<>> /\ UNCHANGED <<size, limit, load, toAsk, reply>>
        /\ script' = [script EXCEPT ![b] = Tail(script[b])]
        /\ bpc[b] # "none" /\ bpc' = [bpc EXCEPT ![b] = "work"]
    BY <1>4, <1>t DEF WriteCount, PlaceOf, config
  <2>2. "work" \in BatchPlaces \ {"none"}
    BY DEF BatchPlaces
  <2> QED BY <1>2, <1>h, <2>1, <2>2
<1>5. CASE CachePrice(b)
  <2>1. /\ script[b] # <<>> /\ UNCHANGED <<size, limit, load, toAsk, reply, bpc>>
        /\ script' = [script EXCEPT ![b] = Tail(script[b])]
        /\ bpc[b] = "work"
    BY <1>5 DEF CachePrice, NextIs, config
  <2> QED BY <1>2, <1>h, <1>p, <2>1 DEF BatchPlaces
<1>6. CASE EnterMap(b)
  <2>1. /\ script[b] # <<>> /\ Head(script[b]).do = "mark"
        /\ UNCHANGED <<size, limit, load, toAsk, reply, script>>
        /\ bpc[b] # "none" /\ bpc' = [bpc EXCEPT ![b] = "map"]
    BY <1>6 DEF EnterMap, NextIs, config
  <2>2. "map" \in BatchPlaces \ {"none"}
    BY DEF BatchPlaces
  <2> QED BY <1>2, <1>s, <1>t, <2>1, <2>2
<1>7. CASE LeaveMap(b)
  <2>1. /\ script[b] # <<>> /\ UNCHANGED <<size, limit, load, toAsk, reply>>
        /\ script' = [script EXCEPT ![b] = Tail(script[b])]
        /\ bpc[b] # "none" /\ bpc' = [bpc EXCEPT ![b] = "work"]
    BY <1>7, <1>t DEF LeaveMap, PlaceOf, config
  <2>2. "work" \in BatchPlaces \ {"none"}
    BY DEF BatchPlaces
  <2> QED BY <1>2, <1>h, <2>1, <2>2
<1>8. CASE ConcurrentMapWrites(b)
  <2>1. /\ UNCHANGED <<size, limit, toAsk, bpc, reply, script>> /\ load' = "crashed"
    BY <1>8 DEF ConcurrentMapWrites, config, goVars
  <2>2. \A c : Batch(c)' = Batch(c)
    BY <2>1 DEF Batch
  <2> QED BY <1>t, <2>1, <2>2 DEF PInv, Covered, PlaceOf, Goal
<1>9. CASE ReleaseSlot(b)
  <2>1. /\ script[b] = <<>> /\ UNCHANGED <<size, limit, load, toAsk, reply, script>>
        /\ bpc[b] # "none" /\ bpc' = [bpc EXCEPT ![b] = "finish"]
    BY <1>9 DEF ReleaseSlot, config
  <2>2. "finish" \in BatchPlaces \ {"none"}
    BY DEF BatchPlaces
  <2> QED BY <1>2, <1>s, <1>t, <2>1, <2>2
<1>10. CASE Finish(b)
  <2>1. /\ script[b] = <<>> /\ UNCHANGED <<size, limit, load, toAsk, reply, script>>
        /\ bpc[b] # "none" /\ bpc' = [bpc EXCEPT ![b] = "done"]
    BY <1>10, <1>t DEF Finish, PlaceOf, config
  <2>2. "done" \in BatchPlaces \ {"none"}
    BY DEF BatchPlaces
  <2> QED BY <1>2, <1>s, <1>t, <2>1, <2>2
<1> QED BY <1>1, <1>3, <1>4, <1>5, <1>6, <1>7, <1>8, <1>9, <1>10 DEF BatchStep

\* What the steps of a script carry.
LEMMA StepKinds ==
  \A e \in Steps :
    /\ e.do \in Counters => e.by \in Nat /\ \A c \in Counters : By(c)[e] =
                                              IF e.do = c THEN e.by ELSE 0
    /\ e.do \notin Counters => \A c \in Counters : By(c)[e] = 0
    /\ e.do = "store" => /\ e.token \in Tokens /\ e.price \in Prices \ {NoPrice}
                         /\ e = Store(e.token, e.price)
<1> SUFFICES ASSUME NEW e \in Steps
             PROVE  /\ e.do \in Counters => e.by \in Nat
                    /\ \A c \in Counters : By(c)[e] = IF e.do = c THEN e.by ELSE 0
                    /\ e.do = "store" => /\ e.token \in Tokens
                                         /\ e.price \in Prices \ {NoPrice}
                                         /\ e = Store(e.token, e.price)
  OBVIOUS
<1>1. \A c \in Counters : By(c)[e] = IF e.do = c THEN e.by ELSE 0
  BY DEF By
<1>2. e.do \in Counters => e.by \in Nat
  BY DEF Steps, Counters, Processed, Mark
<1>3. e.do = "store" => e \in [do : {"store"}, token : Tokens, price : Prices \ {NoPrice}]
  BY DEF Steps, Processed, Mark
<1>4. e \in [do : {"store"}, token : Tokens, price : Prices \ {NoPrice}] =>
        /\ e.token \in Tokens /\ e.price \in Prices \ {NoPrice}
        /\ e = Store(e.token, e.price)
  BY DEF Store
<1> QED BY <1>1, <1>2, <1>3, <1>4

LEMMA LoaderPInv == IInv /\ PInv /\ LoaderStep => PInv'
<1> SUFFICES ASSUME IInv, PInv, LoaderStep PROVE PInv'
  OBVIOUS
<1>1. \A b : size' = size => Batch(b)' = Batch(b)
  BY DEF Batch
<1>2. CASE StartLoad
  <2>1. /\ UNCHANGED <<size, bpc, reply, script, seen, counts, cachedPrices>>
        /\ load = "start"
        /\ \/ load' = "failed" /\ toAsk' = toAsk
           \/ load' = "fan" /\ toAsk' = BatchesToAsk(size)
    BY <1>2 DEF StartLoad, config, goVars
  <2>2. DataTypes'
    BY <2>1 DEF PInv, DataTypes
  <2>3. Covered'
    BY <2>1 DEF PInv, Covered, IInv, Fresh
  <2>4. \A b \in BatchIds : PlaceOf(b)'
    BY <1>1, <2>1 DEF PInv, PlaceOf
  <2> QED BY <2>2, <2>3, <2>4 DEF PInv
<1>3. CASE Launch
  <2>1. PICK b \in toAsk : /\ toAsk' = toAsk \ {b}
                           /\ bpc' = [bpc EXCEPT ![b] = "ask"]
    BY <1>3 DEF Launch
  <2>2. UNCHANGED <<size, load, reply, script, seen, counts, cachedPrices>>
        /\ load = "fan"
    BY <1>3 DEF Launch, config
  <2>3. b \in BatchIds /\ bpc[b] = "none" /\ b \in BatchesToAsk(size)
    BY DEF IInv, InvTypes, Fresh, PInv, Covered
  <2>4. \A c \in BatchIds : bpc'[c] = IF c = b THEN "ask" ELSE bpc[c]
    BY <2>1, <2>3, Moves DEF IInv, BatchPlaces
  <2>5. DataTypes'
    BY <2>2 DEF PInv, DataTypes
  <2>6. Covered'
    <3>1. BatchesToAsk(size) \subseteq BatchIds
      BY BatchesAreIds DEF IInv, InvTypes
    <3> QED BY <2>1, <2>2, <2>3, <2>4, <3>1 DEF PInv, Covered
  <2>7. ASSUME NEW c \in BatchIds PROVE PlaceOf(c)'
    <3>1. PlaceOf(c) /\ reply'[c] = reply[c] /\ script'[c] = script[c]
          /\ Batch(c)' = Batch(c)
      BY <1>1, <2>2 DEF PInv
    <3>2. bpc'[c] = bpc[c] \/ (bpc[c] = "none" /\ bpc'[c] = "ask")
      BY <2>3, <2>4
    <3> QED BY <3>1, <3>2 DEF PlaceOf
  <2> QED BY <2>5, <2>6, <2>7 DEF PInv
<1>4. CASE FinishLoad
  <2>1. /\ UNCHANGED <<size, toAsk, bpc, reply, script, seen, counts, cachedPrices>>
        /\ load = "fan" /\ load' = "done" /\ toAsk = {}
    BY <1>4 DEF FinishLoad, config, goVars
  <2>2. DataTypes'
    BY <2>1 DEF PInv, DataTypes
  <2>3. Covered'
    BY <2>1 DEF PInv, Covered
  <2>4. \A b \in BatchIds : PlaceOf(b)'
    BY <1>1, <2>1 DEF PInv, PlaceOf
  <2> QED BY <2>2, <2>3, <2>4 DEF PInv
<1> QED BY <1>2, <1>3, <1>4 DEF LoaderStep

\* What a goroutine does to the counters and the cache.
LEMMA GoData ==
  ASSUME IInv, PInv, NEW b \in BatchIds, BatchStep(b)
  PROVE  /\ load' \in {"start", "fan", "done", "failed", "crashed"}
         /\ seen' \in [BatchIds -> Nat] /\ counts' \in [processed : Nat, missed : Nat]
         /\ cachedPrices' \in [DexIds -> [Tokens -> Prices]]
<1>1. /\ load \in {"start", "fan", "done", "failed", "crashed"}
      /\ seen \in [BatchIds -> Nat] /\ counts \in [processed : Nat, missed : Nat]
      /\ cachedPrices \in [DexIds -> [Tokens -> Prices]] /\ script[b] \in Seq(Steps)
      /\ PlaceOf(b)
  BY DEF PInv, DataTypes
<1>2. script[b] # <<>> => Head(script[b]) \in Steps
  BY <1>1
<1>3. CASE ReadCount(b)
  <2>1. /\ script[b] # <<>> /\ Head(script[b]).do \in Counters
        /\ seen' = [seen EXCEPT ![b] = counts[Head(script[b]).do]]
        /\ UNCHANGED <<load, counts, cachedPrices>>
    BY <1>3 DEF ReadCount, NextIs, Counters
  <2>2. \A c \in Counters : counts[c] \in Nat
    BY <1>1 DEF Counters
  <2> QED BY <1>1, <2>1, <2>2
<1>4. CASE WriteCount(b)
  <2> DEFINE step == Head(script[b])
  <2>1. /\ bpc[b] = "add" /\ counts' = [counts EXCEPT ![step.do] = seen[b] + step.by]
        /\ seen' = [seen EXCEPT ![b] = 0] /\ UNCHANGED <<load, cachedPrices>>
    BY <1>4 DEF WriteCount
  <2>2. step \in Steps /\ step.do \in Counters
    BY <1>1, <1>2, <2>1 DEF PlaceOf
  <2>3. step.by \in Nat
    BY <2>2, StepKinds
  <2> HIDE DEF step
  <2>4. seen[b] + step.by \in Nat
    BY <1>1, <2>3
  <2>5. counts' \in [processed : Nat, missed : Nat]
    BY <1>1, <2>1, <2>2, <2>4 DEF Counters
  <2> QED BY <1>1, <2>1, <2>5
<1>5. CASE CachePrice(b)
  <2> DEFINE step == Head(script[b])
  <2>1. /\ step \in Steps /\ step.do = "store" /\ bpc[b] = "work"
        /\ cachedPrices' = [cachedPrices EXCEPT ![DexOf(b)][step.token] = step.price]
        /\ UNCHANGED <<load, seen, counts>>
    BY <1>2, <1>5 DEF CachePrice, NextIs
  <2>2. step.token \in Tokens /\ step.price \in Prices
    BY <2>1, StepKinds
  <2> HIDE DEF step
  <2> QED BY <1>1, <2>1, <2>2
<1>6. CASE Ask(b) \/ EnterMap(b) \/ LeaveMap(b) \/ ReleaseSlot(b) \/ Finish(b)
  BY <1>1, <1>6 DEF Ask, EnterMap, LeaveMap, ReleaseSlot, Finish
<1>7. CASE ConcurrentMapWrites(b)
  BY <1>1, <1>7 DEF ConcurrentMapWrites, goVars
<1> QED BY <1>3, <1>4, <1>5, <1>6, <1>7 DEF BatchStep

LEMMA StepPInv == IInv /\ PInv /\ [Next]_vars => PInv'
<1> SUFFICES ASSUME IInv, PInv, [Next]_vars PROVE PInv'
  OBVIOUS
<1>1. CASE LoaderStep
  BY <1>1, LoaderPInv
<1>2. ASSUME NEW b \in BatchIds, BatchStep(b) PROVE PInv'
  BY <1>2, GoStep, GoData DEF PInv, DataTypes
<1>3. CASE UNCHANGED vars
  <2>1. UNCHANGED <<size, load, toAsk, bpc, reply, script, seen, counts, cachedPrices>>
    BY <1>3 DEF vars, config, goVars
  <2>2. \A b : Batch(b)' = Batch(b)
    BY <2>1 DEF Batch
  <2> QED BY <2>1, <2>2 DEF PInv, DataTypes, Covered, PlaceOf
<1> QED BY <1>1, <1>2, <1>3 DEF Next, Ended

\* Only the report's counters are recorded.
LEMMA RacedAreCounters == Spec => [](raced \subseteq {"processed", "missed"})
<1> DEFINE OfCounters == raced \subseteq {"processed", "missed"}
<1>1. Init => OfCounters
  BY DEF Init
<1>2. OfCounters /\ [Next]_vars => OfCounters'
  <2> SUFFICES ASSUME OfCounters, [Next]_vars PROVE OfCounters'
    OBVIOUS
  <2>1. CASE LoaderStep \/ UNCHANGED vars
    BY <2>1 DEF LoaderStep, StartLoad, Launch, FinishLoad, vars, goVars
  <2>2. ASSUME NEW b \in BatchIds, BatchStep(b) PROVE OfCounters'
    BY <2>2 DEF BatchStep, Ask, ReadCount, NextIs, WriteCount, CachePrice, EnterMap,
                LeaveMap, ConcurrentMapWrites, ReleaseSlot, Finish, goVars
  <2> QED BY <2>1, <2>2 DEF Next, Ended
<1> QED BY <1>1, <1>2, PTL DEF Spec

\* The type invariant: no counter, slot or price leaves its range, and a reply is
\* never longer than the tokens of its network.
THEOREM LoadTypes == Spec => []LoadTypeOK
<1>1. IInv /\ PInv /\ raced \subseteq {"processed", "missed"} => LoadTypeOK
  <2> SUFFICES ASSUME IInv, PInv, raced \subseteq {"processed", "missed"}
               PROVE  LoadTypeOK
    OBVIOUS
  <2>1. sem \in 0..limit /\ wg \in Nat
    <3>1. sem \in Nat /\ wg \in Nat
      BY CountsAreFinite, OneMore DEF IInv, LoadAccounting
    <3> QED BY <3>1 DEF IInv, InvTypes
  <2>2. ASSUME NEW b \in BatchIds
        PROVE  Len(reply[b]) <= Len(Definitions[b[1]].tokens)
    <3>0. b[1] \in DOMAIN Definitions
      BY DEF BatchIds
    <3>1. Len(Definitions[b[1]].tokens) \in Nat
      BY <3>0, TokensAreSequences
    <3>2. CASE reply[b] = <<>>
      BY <3>1, <3>2
    <3>3. CASE reply[b] # <<>>
      <4>1. bpc[b] # "none" /\ Len(reply[b]) = Len(Batch(b))
        BY <3>3 DEF PInv, PlaceOf
      <4>2. b \in BatchesToAsk(size) /\ size \in BatchSizes
        BY <4>1 DEF PInv, Covered, IInv, InvTypes
      <4> QED BY <4>1, <4>2, BatchOf
    <3> QED BY <3>2, <3>3
  <2>3. limit \in Limits
    BY DEF IInv, InvTypes
  <2> QED BY <2>1, <2>2, <2>3 DEF LoadTypeOK, IInv, InvTypes, PInv, DataTypes, BatchPlaces
<1> QED BY <1>1, RacedAreCounters, InitIInv, StepIInv, InitPInv, StepPInv, PTL DEF Spec

-----------------------------------------------------------------------------
(* What is cached is what was replied. *)

\* A cached price is one some reply brought for that token of that network.
FromReplies ==
  \A d \in DexIds, t \in Tokens :
    cachedPrices[d][t] # NoPrice =>
      \E b \in BatchIds : \E k \in DOMAIN reply[b] :
        DexOf(b) = d /\ Batch(b)[k] = t /\ reply[b][k].price = cachedPrices[d][t]

\* A price still to be cached is one the reply brought.
StoresReplied(b) ==
  \A e \in ToSet(script[b]) : e.do = "store" => Brought(Batch(b), reply[b], e)

\* A price the reply brought is still to be cached, or its token has one.
RepliesStored(b) ==
  \A k \in DOMAIN reply[b] : reply[b][k].price # NoPrice =>
    \/ Store(Batch(b)[k], reply[b][k].price) \in ToSet(script[b])
    \/ cachedPrices[DexOf(b)][Batch(b)[k]] # NoPrice

Cached == FromReplies /\ \A b \in BatchIds : StoresReplied(b) /\ RepliesStored(b)

LEMMA Replied ==
  ASSUME IInv, PInv, NEW b \in BatchIds, NEW k \in DOMAIN reply[b]
  PROVE  /\ b \in BatchesToAsk(size) /\ DexOf(b) \in DexIds
         /\ k \in DOMAIN Batch(b) /\ Batch(b)[k] \in Tokens
         /\ bpc[b] \notin {"none", "ask"}
<1>1. reply[b] \in Seq(Quotes) /\ reply[b] # <<>>
  BY DEF PInv, DataTypes
<1>2. bpc[b] \notin {"none", "ask"} /\ Len(reply[b]) = Len(Batch(b))
  BY <1>1 DEF PInv, PlaceOf
<1>3. b \in BatchesToAsk(size) /\ size \in BatchSizes
  BY <1>2 DEF PInv, Covered, IInv, InvTypes
<1>4. DexOf(b) \in DexIds /\ Batch(b) \in Seq(Tokens)
  BY <1>3, BatchOf
<1> HIDE DEF Batch
<1> QED BY <1>1, <1>2, <1>3, <1>4

LEMMA InitCached == Init => Cached
<1> SUFFICES ASSUME Init PROVE Cached
  OBVIOUS
<1>1. \A b \in BatchIds : reply[b] = <<>> /\ ToSet(script[b]) = {}
  BY DEF Init, ToSet
<1>2. FromReplies
  BY DEF Init, FromReplies
<1> QED BY <1>1, <1>2 DEF Cached, StoresReplied, RepliesStored

\* A step that leaves the replies and the cache alone, and drops no store.
LEMMA CacheStays ==
  ASSUME IInv, PInv, Cached, UNCHANGED <<size, reply, cachedPrices>>,
         \A c \in BatchIds : /\ ToSet(script'[c]) \subseteq ToSet(script[c])
                             /\ \A e \in ToSet(script[c]) \ ToSet(script'[c]) : e.do # "store"
  PROVE  Cached'
<1>1. \A c : Batch(c)' = Batch(c) /\ DexOf(c)' = DexOf(c)
  BY DEF Batch, DexOf
<1>2. FromReplies'
  BY <1>1 DEF Cached, FromReplies
<1>3. ASSUME NEW c \in BatchIds PROVE StoresReplied(c)' /\ RepliesStored(c)'
  <2>1. StoresReplied(c)'
    BY <1>1 DEF Cached, StoresReplied
  <2>2. ASSUME NEW k \in DOMAIN reply[c], reply[c][k].price # NoPrice
        PROVE  \/ Store(Batch(c)[k], reply[c][k].price) \in ToSet(script'[c])
               \/ cachedPrices[DexOf(c)][Batch(c)[k]] # NoPrice
    <3>1. \/ Store(Batch(c)[k], reply[c][k].price) \in ToSet(script[c])
          \/ cachedPrices[DexOf(c)][Batch(c)[k]] # NoPrice
      BY <2>2 DEF Cached, RepliesStored
    <3>2. Store(Batch(c)[k], reply[c][k].price).do = "store"
      BY DEF Store
    <3> HIDE DEF Batch
    <3> QED BY <3>1, <3>2
  <2> QED BY <1>1, <2>1, <2>2 DEF RepliesStored
<1> QED BY <1>2, <1>3 DEF Cached

LEMMA AskCached ==
  ASSUME IInv, PInv, Cached, NEW b \in BatchIds, Ask(b)
  PROVE  Cached'
<1>1. PICK r \in Replies(b) : /\ reply'  = [reply EXCEPT ![b] = r]
                              /\ script' = [script EXCEPT ![b] = Script(Batch(b), r)]
  BY DEF Ask
<1>2. bpc[b] = "ask" /\ UNCHANGED <<size, cachedPrices>>
  BY DEF Ask, config
<1>3. /\ Batch(b) \in Seq(Tokens) /\ Batch(b) # <<>>
      /\ r = <<>> \/ r \in [1..Len(Batch(b)) -> Quotes]
  BY <1>2, ReplyOf
<1>4. /\ \A e \in ToSet(Script(Batch(b), r)) :
           e.do = "store" => Brought(Batch(b), r, e)
      /\ \A k \in DOMAIN r : r[k].price # NoPrice =>
           Store(Batch(b)[k], r[k].price) \in ToSet(Script(Batch(b), r))
  <2> DEFINE batch == Batch(b)
  <2> HIDE DEF batch
  <2>1. /\ batch \in Seq(Tokens) /\ batch # <<>>
        /\ r = <<>> \/ r \in [1..Len(batch) -> Quotes]
    BY <1>3 DEF batch
  <2>2. /\ \A e \in ToSet(Script(batch, r)) : e.do = "store" => Brought(batch, r, e)
        /\ \A k \in DOMAIN r : r[k].price # NoPrice =>
             Store(batch[k], r[k].price) \in ToSet(Script(batch, r))
    BY <2>1, ScriptOf
  <2> QED BY <2>2 DEF batch
<1>5. \A c : Batch(c)' = Batch(c) /\ DexOf(c)' = DexOf(c)
  BY <1>2 DEF Batch, DexOf
<1>6. /\ reply \in [BatchIds -> Seq(Quotes)] /\ script \in [BatchIds -> Seq(Steps)]
      /\ reply[b] = <<>>
  BY <1>2 DEF PInv, DataTypes, PlaceOf
<1>7. /\ reply'[b] = r /\ script'[b] = Script(Batch(b), r)
      /\ \A c \in BatchIds \ {b} : reply'[c] = reply[c] /\ script'[c] = script[c]
  BY <1>1, <1>6
<1>8. FromReplies'
  <2> SUFFICES ASSUME NEW d \in DexIds, NEW t \in Tokens, cachedPrices[d][t] # NoPrice
               PROVE  \E c \in BatchIds : \E k \in DOMAIN reply'[c] :
                        /\ DexOf(c) = d /\ Batch(c)[k] = t
                        /\ reply'[c][k].price = cachedPrices[d][t]
    BY <1>2, <1>5 DEF FromReplies
  <2>1. PICK c \in BatchIds : \E k \in DOMAIN reply[c] :
               /\ DexOf(c) = d /\ Batch(c)[k] = t
               /\ reply[c][k].price = cachedPrices[d][t]
    BY DEF Cached, FromReplies
  <2>2. c # b
    BY <1>6, <2>1
  <2> QED BY <1>7, <2>1, <2>2
<1>9. ASSUME NEW c \in BatchIds PROVE StoresReplied(c)' /\ RepliesStored(c)'
  <2>1. CASE c = b
    BY <1>4, <1>5, <1>7, <2>1 DEF StoresReplied, RepliesStored
  <2>2. CASE c # b
    BY <1>2, <1>5, <1>7, <2>2 DEF Cached, StoresReplied, RepliesStored
  <2> QED BY <2>1, <2>2
<1> QED BY <1>8, <1>9 DEF Cached

LEMMA StoreCached ==
  ASSUME IInv, PInv, Cached, NEW b \in BatchIds, CachePrice(b)
  PROVE  Cached'
<1> DEFINE step == Head(script[b])
<1>1. /\ script[b] # <<>> /\ step.do = "store" /\ UNCHANGED <<size, reply>>
      /\ cachedPrices' = [cachedPrices EXCEPT ![DexOf(b)][step.token] = step.price]
      /\ script' = [script EXCEPT ![b] = Tail(script[b])]
  BY DEF CachePrice, NextIs, config
<1>2. /\ script \in [BatchIds -> Seq(Steps)] /\ script[b] \in Seq(Steps)
      /\ cachedPrices \in [DexIds -> [Tokens -> Prices]]
  BY DEF PInv, DataTypes
<1>3. /\ step \in Steps /\ ToSet(script[b]) = {step} \cup ToSet(Tail(script[b]))
  BY <1>1, <1>2, TailOf
<1>4. /\ step.token \in Tokens /\ step.price \in Prices \ {NoPrice}
      /\ step = Store(step.token, step.price)
  BY <1>1, <1>3, StepKinds
<1>5. PICK k \in DOMAIN reply[b] :
             Batch(b)[k] = step.token /\ reply[b][k].price = step.price
  BY <1>1, <1>3 DEF Cached, StoresReplied, Brought
<1>6. \A c : Batch(c)' = Batch(c) /\ DexOf(c)' = DexOf(c)
  BY <1>1 DEF Batch, DexOf
<1> HIDE DEF step
<1>7. \A d \in DexIds, t \in Tokens :
        cachedPrices'[d][t] = IF d = DexOf(b) /\ t = step.token THEN step.price
                              ELSE cachedPrices[d][t]
  BY <1>1, <1>2
<1>8. /\ script'[b] = Tail(script[b])
      /\ \A c \in BatchIds \ {b} : script'[c] = script[c]
  BY <1>1, <1>2
<1>9. FromReplies'
  <2> SUFFICES ASSUME NEW d \in DexIds, NEW t \in Tokens, cachedPrices'[d][t] # NoPrice
               PROVE  \E c \in BatchIds : \E j \in DOMAIN reply[c] :
                        /\ DexOf(c) = d /\ Batch(c)[j] = t
                        /\ reply[c][j].price = cachedPrices'[d][t]
    BY <1>1, <1>6 DEF FromReplies
  <2>1. CASE d = DexOf(b) /\ t = step.token
    BY <1>5, <1>7, <2>1
  <2>2. CASE ~(d = DexOf(b) /\ t = step.token)
    <3>1. cachedPrices'[d][t] = cachedPrices[d][t]
      BY <1>7, <2>2
    <3> QED BY <3>1 DEF Cached, FromReplies
  <2> QED BY <2>1, <2>2
<1>10. ASSUME NEW c \in BatchIds PROVE StoresReplied(c)' /\ RepliesStored(c)'
  <2>1. ToSet(script'[c]) \subseteq ToSet(script[c])
        /\ \A e \in ToSet(script[c]) : e \in ToSet(script'[c]) \/ (c = b /\ e = step)
    BY <1>3, <1>8
  <2>2. StoresReplied(c)'
    BY <1>1, <1>6, <2>1 DEF Cached, StoresReplied
  <2>3. ASSUME NEW j \in DOMAIN reply[c], reply[c][j].price # NoPrice
        PROVE  \/ Store(Batch(c)[j], reply[c][j].price) \in ToSet(script'[c])
               \/ cachedPrices'[DexOf(c)][Batch(c)[j]] # NoPrice
    <3>1. DexOf(c) \in DexIds /\ Batch(c)[j] \in Tokens
      BY Replied
    <3> DEFINE t == Batch(c)[j]
               q == reply[c][j].price
    <3>2. Store(t, q) \in ToSet(script[c]) \/ cachedPrices[DexOf(c)][t] # NoPrice
      BY <2>3 DEF Cached, RepliesStored
    <3>3. Store(t, q).token = t /\ Store(t, q).price = q
      BY DEF Store
    <3> HIDE DEF t, q
    <3>4. Store(t, q) = step /\ c = b => cachedPrices'[DexOf(c)][t] # NoPrice
      BY <1>4, <1>7, <3>1, <3>3 DEF t
    <3>5. cachedPrices[DexOf(c)][t] # NoPrice => cachedPrices'[DexOf(c)][t] # NoPrice
      BY <1>4, <1>7, <3>1 DEF t
    <3> QED BY <2>1, <3>2, <3>4, <3>5 DEF t, q
  <2> QED BY <1>1, <1>6, <2>2, <2>3 DEF RepliesStored
<1> QED BY <1>9, <1>10 DEF Cached

LEMMA StepCached == IInv /\ PInv /\ Cached /\ [Next]_vars => Cached'
<1> SUFFICES ASSUME IInv, PInv, Cached, [Next]_vars PROVE Cached'
  OBVIOUS
<1>1. ASSUME UNCHANGED <<size, reply, script, cachedPrices>> PROVE Cached'
  BY <1>1, CacheStays
<1>2. CASE LoaderStep \/ UNCHANGED vars
  <2>1. UNCHANGED <<size, reply, script, cachedPrices>>
    BY <1>2 DEF LoaderStep, StartLoad, Launch, FinishLoad, vars, config, goVars
  <2> QED BY <1>1, <2>1
<1>3. ASSUME NEW b \in BatchIds, BatchStep(b) PROVE Cached'
  <2>t. script \in [BatchIds -> Seq(Steps)] /\ script[b] \in Seq(Steps) /\ PlaceOf(b)
    BY DEF PInv, DataTypes
  <2>1. CASE Ask(b)
    BY <2>1, AskCached
  <2>2. CASE CachePrice(b)
    BY <2>2, StoreCached
  <2>3. CASE WriteCount(b) \/ LeaveMap(b)
    <3>1. /\ script[b] # <<>> /\ Head(script[b]).do # "store"
          /\ script' = [script EXCEPT ![b] = Tail(script[b])]
          /\ UNCHANGED <<size, reply, cachedPrices>>
      BY <2>3, <2>t DEF WriteCount, LeaveMap, PlaceOf, Counters, config
    <3>2. ToSet(script[b]) = {Head(script[b])} \cup ToSet(Tail(script[b]))
      BY <2>t, <3>1, TailOf
    <3>3. \A c \in BatchIds : script'[c] = IF c = b THEN Tail(script[b]) ELSE script[c]
      BY <2>t, <3>1
    <3>4. \A c \in BatchIds :
            /\ ToSet(script'[c]) \subseteq ToSet(script[c])
            /\ \A e \in ToSet(script[c]) \ ToSet(script'[c]) : e.do # "store"
      BY <3>1, <3>2, <3>3
    <3> QED BY <3>1, <3>4, CacheStays
  <2>4. CASE ReadCount(b) \/ EnterMap(b) \/ ConcurrentMapWrites(b) \/ ReleaseSlot(b)
             \/ Finish(b)
    <3>1. UNCHANGED <<size, reply, script, cachedPrices>>
      BY <2>4 DEF ReadCount, EnterMap, ConcurrentMapWrites, ReleaseSlot, Finish, config,
                  goVars
    <3> QED BY <1>1, <3>1
  <2> QED BY <1>3, <2>1, <2>2, <2>3, <2>4 DEF BatchStep
<1> QED BY <1>2, <1>3 DEF Next, Ended

\* When the load is done, a goroutine answered every batch, and has nothing left to do.
LEMMA LoadDone ==
  ASSUME IInv, PInv, load = "done", NEW b \in BatchesToAsk(size)
  PROVE  b \in BatchIds /\ bpc[b] = "done" /\ script[b] = <<>>
<1>1. b \in BatchIds /\ bpc[b] # "none"
  BY BatchesAreIds DEF IInv, InvTypes, PInv, Covered
<1>2. bpc[b] = "done"
  BY <1>1 DEF IInv, LoadAccounting, Running
<1> QED BY <1>1, <1>2 DEF PInv, PlaceOf

\* Every token of a network is in a batch that is asked for.
LEMMA TokenInBatch ==
  ASSUME size \in BatchSizes, NEW i \in DOMAIN Definitions, Definitions[i].dex # NoDex,
         NEW t \in ToSet(Definitions[i].tokens)
  PROVE  \E b \in BatchesToAsk(size) :
           b[1] = i /\ \E k \in DOMAIN Batch(b) : Batch(b)[k] = t
<1> DEFINE batches == BatchTokenInfos(Definitions[i].tokens, size)
<1>1. batches \in Seq(Seq(Tokens)) /\ FlattenSeq(batches) = Definitions[i].tokens
  BY BatchesOfNetwork
<1>2. \A n \in DOMAIN batches : <<i, n>> \in BatchesToAsk(size)
                                /\ Batch(<<i, n>>) = batches[n]
  BY DEF BatchesToAsk, Batch
<1> HIDE DEF batches
<1>3. ToSet(FlattenSeq(batches)) = UNION {ToSet(batches[n]) : n \in DOMAIN batches}
  BY <1>1, FlattenElements
<1>4. PICK n \in DOMAIN batches : t \in ToSet(batches[n])
  BY <1>1, <1>3
<1>5. \E k \in DOMAIN batches[n] : batches[n][k] = t
  BY <1>4 DEF ToSet
<1>6. <<i, n>> \in BatchesToAsk(size) /\ Batch(<<i, n>>) = batches[n] /\ <<i, n>>[1] = i
  BY <1>2
<1> QED BY <1>5, <1>6

\* When the load is done, every token of a network DEXScreener knows has the price the
\* reply for its batch brought, or none if the reply or its price is missing.
THEOREM CacheComplete == Spec => []CacheIsComplete
<1>1. IInv /\ PInv /\ Cached => CacheIsComplete
  <2> SUFFICES ASSUME IInv, PInv, Cached, load = "done", NEW i \in DOMAIN Definitions,
                      Definitions[i].dex # NoDex, NEW t \in ToSet(Definitions[i].tokens)
               PROVE  \E b \in BatchIds :
                        /\ b[1] = i /\ bpc[b] = "done"
                        /\ \E k \in DOMAIN Batch(b) :
                             /\ Batch(b)[k] = t
                             /\ cachedPrices[DexOf(b)][t] =
                                  IF reply[b] = <<>> THEN NoPrice ELSE reply[b][k].price
    BY DEF CacheIsComplete
  <2> DEFINE d == Definitions[i].dex
  <2>1. d \in DexIds /\ t \in Tokens /\ size \in BatchSizes
    BY DEF DexIds, Tokens, IInv, InvTypes
  <2>2. CASE cachedPrices[d][t] # NoPrice
    <3>0. PICK b \in BatchIds : \E k \in DOMAIN reply[b] :
                 /\ DexOf(b) = d /\ Batch(b)[k] = t
                 /\ reply[b][k].price = cachedPrices[d][t]
      BY <2>1, <2>2 DEF Cached, FromReplies
    <3>1. PICK k \in DOMAIN reply[b] :
                 /\ DexOf(b) = d /\ Batch(b)[k] = t
                 /\ reply[b][k].price = cachedPrices[d][t]
      BY <3>0
    <3>2. b \in BatchesToAsk(size) /\ k \in DOMAIN Batch(b) /\ reply[b] # <<>>
      BY Replied
    <3>3. b[1] \in DOMAIN Definitions /\ b[1] = i
      <4>1. b[1] \in DOMAIN Definitions
        BY DEF BatchIds
      <4>2. Definitions[b[1]].dex = Definitions[i].dex
        BY <3>1 DEF DexOf
      <4> QED BY <4>1, <4>2, LoadAssumption
    <3>4. bpc[b] = "done"
      BY <3>2, LoadDone
    <3> HIDE DEF d
    <3> QED BY <3>1, <3>2, <3>3, <3>4
  <2>3. CASE cachedPrices[d][t] = NoPrice
    <3>1. PICK b \in BatchesToAsk(size) :
                 b[1] = i /\ \E k \in DOMAIN Batch(b) : Batch(b)[k] = t
      BY <2>1, TokenInBatch
    <3>2. PICK k \in DOMAIN Batch(b) : Batch(b)[k] = t
      BY <3>1
    <3>3. b \in BatchIds /\ bpc[b] = "done" /\ script[b] = <<>> /\ DexOf(b) = d
      BY <3>1, LoadDone DEF DexOf
    <3>4. reply[b] # <<>> => reply[b][k].price = NoPrice
      <4> SUFFICES ASSUME reply[b] # <<>> PROVE reply[b][k].price = NoPrice
        OBVIOUS
      <4>1. Len(reply[b]) = Len(Batch(b)) /\ reply[b] \in Seq(Quotes)
        BY <3>3 DEF PInv, PlaceOf, DataTypes
      <4>2. Batch(b) \in Seq(Tokens)
        BY <2>1, BatchOf
      <4>3. k \in DOMAIN reply[b]
        <5> HIDE DEF Batch
        <5> QED BY <4>1, <4>2
      <4>4. ToSet(script[b]) = {}
        BY <3>3 DEF ToSet
      <4> QED BY <2>3, <3>2, <3>3, <4>3, <4>4 DEF Cached, RepliesStored
    <3> HIDE DEF d
    <3> QED BY <2>3, <3>1, <3>2, <3>3, <3>4
  <2> QED BY <2>2, <2>3
<1> QED BY <1>1, InitIInv, StepIInv, InitPInv, StepPInv, InitCached, StepCached, PTL
        DEF Spec

-----------------------------------------------------------------------------
(* What the report counts. *)

\* What a counter should gain from a batch, and what it should have gained so far.
Total(c, b)  == IF c = "processed" THEN Cardinality(Priced(b)) ELSE Unpriced(b)
Gained(c, b) == Total(c, b) - Weight(By(c), script[b])
Written(c)   == SumFunction([b \in BatchIds |-> Gained(c, b)])

\* A counter, and every value of it a goroutine is about to add to, is at most what
\* should have been written; while no two goroutines met at it, it is exactly that.
Tally(c) ==
  /\ counts[c] <= Written(c)
  /\ \A b \in BatchIds : Adding(b, c) => seen[b] <= Written(c)
  /\ c \notin raced =>
       /\ counts[c] = Written(c)
       /\ \A b \in BatchIds : Adding(b, c) => seen[b] = counts[c]
       /\ \A a, b \in BatchIds : Adding(a, c) /\ Adding(b, c) => a = b

Tallied == \A c \in Counters : Tally(c)

LEMMA TotalsAreNat ==
  ASSUME IInv, PInv, NEW b \in BatchIds
  PROVE  /\ Cardinality(Priced(b)) \in Nat /\ Unpriced(b) \in Nat
         /\ \A c \in Counters : /\ Total(c, b) \in Nat
                                /\ Weight(By(c), script[b]) \in Nat
                                /\ Gained(c, b) \in Int
<1>1. reply[b] \in Seq(Quotes) /\ script[b] \in Seq(Steps) /\ PlaceOf(b)
  BY DEF PInv, DataTypes
<1>2. IsFiniteSet(DOMAIN reply[b])
  <2>1. DOMAIN reply[b] = 1..Len(reply[b]) /\ Len(reply[b]) \in Int
    BY <1>1
  <2> QED BY <2>1, FS_Interval
<1>3. Cardinality(Priced(b)) \in Nat
  <2>1. Priced(b) \subseteq DOMAIN reply[b]
    BY DEF Priced
  <2> QED BY <1>2, <2>1, FS_Subset, FS_CardinalityType
<1>4. Unpriced(b) \in Nat
  <2>1. CASE bpc[b] \in {"none", "ask"}
    BY <2>1 DEF Unpriced
  <2>2. CASE bpc[b] \notin {"none", "ask"} /\ reply[b] = <<>>
    <3>1. b \in BatchesToAsk(size) /\ size \in BatchSizes
      BY <2>2 DEF PInv, Covered, IInv, InvTypes
    <3>2. Len(Batch(b)) \in Nat
      BY <3>1, BatchOf
    <3> QED BY <2>2, <3>2 DEF Unpriced
  <2>3. CASE bpc[b] \notin {"none", "ask"} /\ reply[b] # <<>>
    <3> DEFINE f == [k \in DOMAIN reply[b] |-> Misses(reply[b][k])]
    <3>1. DOMAIN f = DOMAIN reply[b] /\ \A k \in DOMAIN reply[b] : f[k] \in Nat
      <4>1. ASSUME NEW k \in DOMAIN reply[b] PROVE Misses(reply[b][k]) \in Nat
        <5>1. reply[b][k] \in Quotes
          BY <1>1
        <5>2. reply[b][k].bad \in Nat
          BY <5>1, LoadAssumption
        <5> QED BY <5>2 DEF Misses
      <4> QED BY <4>1
    <3>2. Unpriced(b) = SumFunctionOnSet(f, DOMAIN f)
      BY <2>3 DEF Unpriced, SumFunction
    <3> HIDE DEF f
    <3>3. SumFunctionOnSet(f, DOMAIN reply[b]) \in Nat
      BY <1>2, <3>1, SumIsNat
    <3> QED BY <3>1, <3>2, <3>3
  <2> QED BY <2>1, <2>2, <2>3
<1>5. ASSUME NEW c \in Counters PROVE Weight(By(c), script[b]) \in Nat
  <2>1. By(c) \in [Steps -> Nat]
    BY ByIsNat
  <2> QED BY <1>1, <2>1, WeightOfConcat
<1>6. ASSUME NEW c \in Counters PROVE Total(c, b) \in Nat
  BY <1>3, <1>4 DEF Total
<1> QED BY <1>3, <1>4, <1>5, <1>6 DEF Gained

\* A goroutine that keeps its reply keeps what its batch should count.
LEMMA TotalStays ==
  ASSUME NEW b, NEW c, size' = size, reply'[b] = reply[b],
         bpc'[b] \in {"none", "ask"} <=> bpc[b] \in {"none", "ask"}
  PROVE  Total(c, b)' = Total(c, b)
<1>1. Batch(b)' = Batch(b)
  BY DEF Batch
<1>2. Priced(b)' = Priced(b)
  BY DEF Priced
<1>3. Unpriced(b)' = Unpriced(b)
  BY <1>1 DEF Unpriced
<1> QED BY <1>2, <1>3 DEF Total

\* An answer adds as much to what is to be counted as to what is left to count.
LEMMA AskGains ==
  ASSUME IInv, PInv, NEW b \in BatchIds, Ask(b), NEW c \in Counters
  PROVE  Gained(c, b)' = Gained(c, b)
<1>1. PICK r \in Replies(b) : /\ reply'  = [reply EXCEPT ![b] = r]
                              /\ script' = [script EXCEPT ![b] = Script(Batch(b), r)]
  BY DEF Ask
<1>2. bpc[b] = "ask" /\ size' = size /\ bpc' = [bpc EXCEPT ![b] = "work"]
  BY DEF Ask, config
<1>3. /\ Batch(b) \in Seq(Tokens) /\ Batch(b) # <<>>
      /\ r = <<>> \/ r \in [1..Len(Batch(b)) -> Quotes]
  BY <1>2, ReplyOf
<1>4. /\ reply'[b] = r /\ script'[b] = Script(Batch(b), r) /\ bpc'[b] = "work"
      /\ reply[b] = <<>> /\ script[b] = <<>> /\ Batch(b)' = Batch(b)
  BY <1>1, <1>2 DEF PInv, DataTypes, PlaceOf, IInv, InvTypes, Batch
<1>5. /\ Weight(By("processed"), Script(Batch(b), r))
           = Cardinality({k \in DOMAIN r : r[k].price # NoPrice})
      /\ Weight(By("missed"), Script(Batch(b), r))
           = IF r = <<>> THEN Len(Batch(b)) ELSE SumFunction([k \in DOMAIN r |-> Misses(r[k])])
  <2> DEFINE batch == Batch(b)
  <2> HIDE DEF batch
  <2>1. /\ batch \in Seq(Tokens) /\ batch # <<>>
        /\ r = <<>> \/ r \in [1..Len(batch) -> Quotes]
    BY <1>3 DEF batch
  <2>2. /\ Weight(By("processed"), Script(batch, r))
             = Cardinality({k \in DOMAIN r : r[k].price # NoPrice})
        /\ Weight(By("missed"), Script(batch, r))
             = IF r = <<>> THEN Len(batch) ELSE SumFunction([k \in DOMAIN r |-> Misses(r[k])])
    BY <2>1, ScriptOf
  <2> QED BY <2>2 DEF batch
<1>6. Priced(b)' = {k \in DOMAIN r : r[k].price # NoPrice}
  BY <1>4 DEF Priced
<1>7. Unpriced(b)' = IF r = <<>> THEN Len(Batch(b))
                     ELSE SumFunction([k \in DOMAIN r |-> Misses(r[k])])
  BY <1>4 DEF Unpriced
<1>8. Total(c, b)' = Weight(By(c), script'[b])
  BY <1>4, <1>5, <1>6, <1>7 DEF Total, Counters
<1>9. Total(c, b)' \in Nat
  <2>1. script'[b] \in Seq(Steps) /\ By(c) \in [Steps -> Nat]
    <3> DEFINE batch == Batch(b)
    <3>1. batch \in Seq(Tokens) /\ batch # <<>>
          /\ (r = <<>> \/ r \in [1..Len(batch) -> Quotes])
      BY <1>3
    <3>2. script'[b] = Script(batch, r)
      BY <1>4
    <3> HIDE DEF batch
    <3>3. Script(batch, r) \in Seq(Steps)
      BY <3>1, ScriptOf
    <3> QED BY <3>2, <3>3, ByIsNat
  <2>2. Weight(By(c), script'[b]) \in Nat
    BY <2>1, WeightOfConcat
  <2> QED BY <1>8, <2>2
<1>10. Total(c, b) = 0
  <2>1. Priced(b) = {}
    BY <1>4 DEF Priced
  <2>2. Unpriced(b) = 0
    BY <1>2 DEF Unpriced
  <2> QED BY <2>1, <2>2, FS_EmptySet DEF Total
<1>11. Weight(By(c), script[b]) = 0
  BY <1>4, WeightOfNone
<1>12. Gained(c, b)' = Total(c, b)' - Weight(By(c), script'[b])
  BY DEF Gained, By
<1>13. Gained(c, b) = 0 - 0
  BY <1>10, <1>11 DEF Gained
<1> QED BY <1>8, <1>9, <1>12, <1>13

\* What a counter gains from a goroutine is what the goroutine's steps add to it.
LEMMA StepGains ==
  ASSUME IInv, PInv, NEW b \in BatchIds, NEW c \in Counters, size' = size,
         reply'[b] = reply[b], script[b] # <<>>, script'[b] = Tail(script[b]),
         bpc'[b] \in {"none", "ask"} <=> bpc[b] \in {"none", "ask"}
  PROVE  Gained(c, b)' = Gained(c, b) + By(c)[Head(script[b])]
<1>1. script[b] \in Seq(Steps) /\ By(c) \in [Steps -> Nat] /\ Head(script[b]) \in Steps
  <2>1. script[b] \in Seq(Steps)
    BY DEF PInv, DataTypes
  <2> QED BY <2>1, ByIsNat
<1> DEFINE w == By(c)[Head(script[b])]
           l == Weight(By(c), Tail(script[b]))
<1>2. Weight(By(c), script[b]) = w + l /\ l \in Nat /\ w \in Nat
  BY <1>1, WeightOfTail
<1>3. Total(c, b)' = Total(c, b) /\ Total(c, b) \in Nat
  BY TotalStays, TotalsAreNat
<1>4. Gained(c, b)' = Total(c, b)' - Weight(By(c), script'[b])
  BY DEF Gained, By
<1>5. Gained(c, b)' = Total(c, b) - l
  BY <1>3, <1>4
<1>6. Gained(c, b) = Total(c, b) - (w + l)
  BY <1>2 DEF Gained
<1> HIDE DEF l, w
<1>7. Gained(c, b)' = Gained(c, b) + w
  BY <1>2, <1>3, <1>5, <1>6
<1> QED BY <1>7 DEF w

LEMMA GainStays ==
  ASSUME NEW b, NEW c, size' = size, reply'[b] = reply[b], script'[b] = script[b],
         bpc'[b] \in {"none", "ask"} <=> bpc[b] \in {"none", "ask"}
  PROVE  Gained(c, b)' = Gained(c, b)
<1>1. Total(c, b)' = Total(c, b)
  BY TotalStays
<1>2. Gained(c, b)' = Total(c, b)' - Weight(By(c), script'[b])
  BY DEF Gained, By
<1> QED BY <1>1, <1>2 DEF Gained

\* Only a write of the counter changes what should have been written, by as much as it
\* adds.
LEMMA WritesGain ==
  ASSUME IInv, PInv, [Next]_vars, NEW c \in Counters, NEW a \in BatchIds
  PROVE  /\ ~WriteCount(a) => Gained(c, a)' = Gained(c, a)
         /\ WriteCount(a) => Gained(c, a)' = Gained(c, a) + By(c)[Head(script[a])]
<1>t. /\ script[a] \in Seq(Steps) /\ PlaceOf(a) /\ bpc \in [BatchIds -> BatchPlaces]
      /\ script \in [BatchIds -> Seq(Steps)] /\ By(c) \in [Steps -> Nat]
  BY ByIsNat DEF PInv, DataTypes, IInv, InvTypes
<1>g. Gained(c, a) \in Int
  BY TotalsAreNat
<1>1. ASSUME WriteCount(a)
      PROVE  Gained(c, a)' = Gained(c, a) + By(c)[Head(script[a])]
  <2>1. /\ script[a] # <<>> /\ size' = size /\ reply'[a] = reply[a]
        /\ script'[a] = Tail(script[a])
        /\ bpc'[a] = "work" /\ bpc[a] = "add"
    BY <1>1, <1>t DEF WriteCount, PlaceOf, config
  <2> QED BY <2>1, StepGains
<1>2. ASSUME LeaveMap(a) \/ CachePrice(a) PROVE Gained(c, a)' = Gained(c, a)
  <2>1. /\ script[a] # <<>> /\ size' = size /\ reply'[a] = reply[a]
        /\ script'[a] = Tail(script[a]) /\ Head(script[a]).do \notin Counters
        /\ (bpc'[a] \in {"none", "ask"} <=> bpc[a] \in {"none", "ask"})
    BY <1>2, <1>t DEF LeaveMap, CachePrice, NextIs, PlaceOf, config, Counters
  <2>2. By(c)[Head(script[a])] = 0
    <3>1. Head(script[a]) \in Steps
      BY <1>t, <2>1
    <3> QED BY <2>1, <3>1, StepKinds
  <2>3. Gained(c, a)' = Gained(c, a) + By(c)[Head(script[a])]
    BY <2>1, StepGains
  <2> QED BY <1>g, <2>2, <2>3
<1>3. CASE LoaderStep \/ UNCHANGED vars
  <2>1. UNCHANGED <<size, reply, script>>
    BY <1>3 DEF LoaderStep, StartLoad, Launch, FinishLoad, vars, config, goVars
  <2>2. bpc'[a] \in {"none", "ask"} <=> bpc[a] \in {"none", "ask"}
    <3>1. bpc' = bpc \/ \E b \in toAsk : bpc' = [bpc EXCEPT ![b] = "ask"]
      BY <1>3 DEF LoaderStep, StartLoad, Launch, FinishLoad, vars, goVars
    <3>2. \A b \in toAsk : b \in BatchIds /\ bpc[b] = "none"
      BY DEF IInv, InvTypes, Fresh
    <3> QED BY <1>t, <3>1, <3>2
  <2>3. Gained(c, a)' = Gained(c, a)
    BY <2>1, <2>2, GainStays
  <2>4. WriteCount(a) => By(c)[Head(script[a])] = 0
    <3>1. WriteCount(a) => script'[a] = Tail(script[a]) /\ script[a] # <<>>
      BY <1>t DEF WriteCount, PlaceOf
    <3>2. script[a] # <<>> => Len(Tail(script[a])) # Len(script[a])
      BY <1>t
    <3> QED BY <2>1, <3>1, <3>2
  <2> QED BY <1>1, <2>3
<1>4. ASSUME NEW b \in BatchIds, BatchStep(b), ~WriteCount(a)
      PROVE  Gained(c, a)' = Gained(c, a)
  <2>1. size' = size /\ (a # b => UNCHANGED <<bpc[a], reply[a], script[a]>>)
    BY <1>4, GoStep
  <2>2. CASE a # b
    BY <2>1, <2>2, GainStays
  <2>3. CASE a = b /\ Ask(b)
    BY <2>3, AskGains
  <2>4. CASE a = b /\ (LeaveMap(b) \/ CachePrice(b))
    BY <1>2, <2>4
  <2>5. CASE a = b /\ (ReadCount(b) \/ EnterMap(b) \/ ConcurrentMapWrites(b)
                         \/ ReleaseSlot(b) \/ Finish(b))
    <3>1. /\ reply'[a] = reply[a] /\ script'[a] = script[a]
          /\ (bpc'[a] \in {"none", "ask"} <=> bpc[a] \in {"none", "ask"})
      BY <1>t, <2>5 DEF ReadCount, EnterMap, ConcurrentMapWrites, ReleaseSlot, Finish,
                        NextIs, goVars
    <3> QED BY <2>1, <3>1, GainStays
  <2> QED BY <1>4, <2>2, <2>3, <2>4, <2>5 DEF BatchStep
<1> QED BY <1>1, <1>3, <1>4 DEF Next, Ended

LEMMA WrittenIsSum ==
  ASSUME IInv, PInv, NEW c \in Counters
  PROVE  /\ Numbers([b \in BatchIds |-> Gained(c, b)], BatchIds)
         /\ Written(c) = SumFunctionOnSet([b \in BatchIds |-> Gained(c, b)], BatchIds)
         /\ Written(c) \in Int
<1> DEFINE f == [b \in BatchIds |-> Gained(c, b)]
<1>1. DOMAIN f = BatchIds /\ Numbers(f, BatchIds)
  BY TotalsAreNat DEF Numbers
<1>2. Written(c) = SumFunctionOnSet(f, DOMAIN f)
  BY DEF Written, SumFunction
<1> HIDE DEF f
<1>3. SumFunctionOnSet(f, BatchIds) \in Int
  BY <1>1, BatchesAreFinite, SumFirst
<1> QED BY <1>1, <1>2, <1>3 DEF f

LEMMA WrittenStays ==
  ASSUME IInv, PInv, [Next]_vars, \A b \in BatchIds : ~WriteCount(b), NEW c \in Counters
  PROVE  Written(c)' = Written(c)
<1>1. \A b \in BatchIds : Gained(c, b)' = Gained(c, b)
  BY WritesGain
<1>2. [b \in BatchIds |-> Gained(c, b)]' = [b \in BatchIds |-> Gained(c, b)]
  BY <1>1
<1> QED BY <1>2 DEF Written

LEMMA WrittenGrows ==
  ASSUME IInv, PInv, [Next]_vars, NEW b \in BatchIds, WriteCount(b), NEW c \in Counters
  PROVE  Written(c)' = Written(c) + By(c)[Head(script[b])]
<1> DEFINE f == [a \in BatchIds |-> Gained(c, a)]
           g == [a \in BatchIds |-> Gained(c, a)']
           w == By(c)[Head(script[b])]
<1>1. IInv' /\ PInv'
  BY StepIInv, StepPInv
<1>2. ASSUME NEW a \in BatchIds, a # b PROVE ~WriteCount(a)
  <2>1. bpc \in [BatchIds -> BatchPlaces] /\ bpc[b] = "add"
    BY DEF IInv, InvTypes, WriteCount
  <2>2. bpc' = [bpc EXCEPT ![b] = "work"]
    BY DEF WriteCount
  <2>3. WriteCount(a) => bpc'[a] = "work" /\ bpc[a] = "add"
    BY <2>1 DEF WriteCount
  <2>4. bpc'[a] = bpc[a]
    BY <1>2, <2>1, <2>2
  <2> QED BY <2>3, <2>4
<1>3. /\ \A a \in BatchIds : a # b => g[a] = f[a]
      /\ g[b] = f[b] + w /\ f[b] \in Int
  BY <1>2, WritesGain, TotalsAreNat
<1>4. /\ Numbers(f, BatchIds) /\ Written(c) = SumFunctionOnSet(f, BatchIds)
      /\ Written(c) \in Int
  BY WrittenIsSum
<1>5. DOMAIN g = BatchIds /\ Written(c)' = SumFunctionOnSet(g, DOMAIN g)
  BY DEF Written, SumFunction
<1>6. w \in Nat
  <2>1. script[b] \in Seq(Steps) /\ script[b] # <<>> /\ By(c) \in [Steps -> Nat]
    BY ByIsNat DEF PInv, DataTypes, PlaceOf, WriteCount
  <2> QED BY <2>1
<1> HIDE DEF f, g, w
<1>7. Numbers(g, BatchIds)
  BY <1>3, <1>4, <1>6 DEF Numbers
<1>8. SumFunctionOnSet(g, BatchIds) = SumFunctionOnSet(f, BatchIds) - f[b] + g[b]
  BY <1>3, <1>4, <1>7, BatchesAreFinite, SumMoves
<1>9. Written(c)' = Written(c) + w
  BY <1>3, <1>4, <1>5, <1>6, <1>8
<1> QED BY <1>9 DEF w

LEMMA InitTallied == Init => Tallied
<1> SUFFICES ASSUME Init, NEW c \in Counters PROVE Tally(c)
  BY DEF Tallied
<1>1. ASSUME NEW b \in BatchIds PROVE Gained(c, b) = 0
  <2>1. bpc[b] = "none" /\ reply[b] = <<>> /\ script[b] = <<>>
    BY <1>1 DEF Init
  <2>2. Weight(By(c), script[b]) = 0
    BY <2>1, WeightOfNone
  <2>3. Priced(b) = {} /\ Unpriced(b) = 0
    BY <2>1 DEF Priced, Unpriced
  <2>4. Total(c, b) = 0
    BY <2>3, FS_EmptySet DEF Total
  <2> QED BY <2>2, <2>4 DEF Gained
<1>2. Written(c) = 0
  <2> DEFINE f == [b \in BatchIds |-> Gained(c, b)]
  <2>1. DOMAIN f = BatchIds /\ \A b \in BatchIds : f[b] = 0
    BY <1>1
  <2>2. Written(c) = SumFunctionOnSet(f, DOMAIN f)
    BY DEF Written, SumFunction
  <2> HIDE DEF f
  <2>3. SumFunctionOnSet(f, BatchIds) = 0
    BY <2>1, BatchesAreFinite, SumOfNothing
  <2> QED BY <2>1, <2>2, <2>3
<1>3. counts[c] = 0 /\ \A b \in BatchIds : bpc[b] = "none"
  BY DEF Init, Counters
<1> QED BY <1>2, <1>3 DEF Tally, Adding

\* A goroutine that is about to write a counter was before, or has just read it.
LEMMA AboutToAdd ==
  ASSUME IInv, PInv, [Next]_vars, NEW a \in BatchIds, bpc'[a] = "add"
  PROVE  /\ script'[a] = script[a]
         /\ \/ bpc[a] = "add" /\ seen'[a] = seen[a]
            \/ ReadCount(a)
<1>t. /\ bpc \in [BatchIds -> BatchPlaces] /\ script \in [BatchIds -> Seq(Steps)]
      /\ seen \in [BatchIds -> Nat]
  BY DEF PInv, DataTypes, IInv, InvTypes
<1>1. CASE LoaderStep \/ UNCHANGED vars
  <2>1. UNCHANGED <<script, seen>>
    BY <1>1 DEF LoaderStep, StartLoad, Launch, FinishLoad, vars, goVars
  <2>2. bpc' = bpc \/ \E b \in toAsk : bpc' = [bpc EXCEPT ![b] = "ask"]
    BY <1>1 DEF LoaderStep, StartLoad, Launch, FinishLoad, vars, goVars
  <2>3. bpc[a] = "add"
    BY <1>t, <2>2
  <2> QED BY <2>1, <2>3
<1>2. ASSUME NEW b \in BatchIds, BatchStep(b)
      PROVE  /\ script'[a] = script[a]
             /\ \/ bpc[a] = "add" /\ seen'[a] = seen[a]
                \/ ReadCount(a)
  <2>1. CASE a # b
    <3>1. bpc'[a] = bpc[a] /\ script'[a] = script[a]
      BY <1>2, <2>1, GoStep
    <3>2. \/ seen' = seen
          \/ seen' = [seen EXCEPT ![b] = counts[Head(script[b]).do]]
          \/ seen' = [seen EXCEPT ![b] = 0]
      BY <1>2 DEF BatchStep, Ask, ReadCount, WriteCount, CachePrice, EnterMap, LeaveMap,
                  ConcurrentMapWrites, ReleaseSlot, Finish, goVars
    <3>3. seen'[a] = seen[a]
      BY <1>t, <2>1, <3>2
    <3> QED BY <3>1, <3>3
  <2>2. CASE a = b /\ ReadCount(b)
    BY <1>t, <2>2 DEF ReadCount
  <2>3. CASE a = b /\ ConcurrentMapWrites(b)
    BY <2>3 DEF ConcurrentMapWrites, goVars
  <2>4. CASE a = b /\ (Ask(b) \/ WriteCount(b) \/ EnterMap(b) \/ LeaveMap(b)
                         \/ ReleaseSlot(b) \/ Finish(b))
    <3>1. PICK v \in {"work", "map", "finish", "done"} : bpc' = [bpc EXCEPT ![b] = v]
      BY <2>4 DEF Ask, WriteCount, EnterMap, LeaveMap, ReleaseSlot, Finish
    <3>2. bpc'[a] = v
      BY <1>t, <2>4, <3>1
    <3> QED BY <3>2
  <2>5. CASE a = b /\ CachePrice(b)
    BY <2>5 DEF CachePrice, NextIs
  <2> QED BY <1>2, <2>1, <2>2, <2>3, <2>4, <2>5 DEF BatchStep
<1> QED BY <1>1, <1>2 DEF Next, Ended

\* With a limit of one, a goroutine at work is alone.
LEMMA Alone ==
  ASSUME IInv, limit = 1, NEW a \in InFlight, NEW b \in InFlight
  PROVE  a = b
<1>1. Cardinality(InFlight) <= 1 /\ Cardinality(InFlight) \in Nat
  BY CountsAreFinite, FS_CardinalityType DEF IInv, LoadAccounting
<1>2. a # b => Cardinality(InFlight) > 1
  BY CountsAreFinite, TwoAreTwo
<1> QED BY <1>1, <1>2

LEMMA CountsAreNat ==
  ASSUME PInv
  PROVE  /\ \A c \in Counters : counts[c] \in Nat
         /\ \A b \in BatchIds : seen[b] \in Nat
BY DEF PInv, DataTypes, Counters

\* A write of a counter.
LEMMA WriteTallied ==
  ASSUME IInv, PInv, Tallied, [Next]_vars, NEW b \in BatchIds, WriteCount(b)
  PROVE  Tallied'
<1> DEFINE step == Head(script[b])
<1>1. /\ bpc[b] = "add" /\ raced' = raced
      /\ counts' = [counts EXCEPT ![step.do] = seen[b] + step.by]
      /\ bpc' = [bpc EXCEPT ![b] = "work"]
  BY DEF WriteCount, config
<1>t. /\ counts \in [processed : Nat, missed : Nat] /\ seen[b] \in Nat
      /\ bpc \in [BatchIds -> BatchPlaces] /\ script[b] \in Seq(Steps) /\ PlaceOf(b)
  BY DEF PInv, DataTypes, IInv, InvTypes
<1>2. step \in Steps /\ step.do \in Counters
  BY <1>1, <1>t DEF PlaceOf
<1>3. /\ step.by \in Nat
      /\ \A c \in Counters : By(c)[step] = IF step.do = c THEN step.by ELSE 0
  BY <1>2, StepKinds
<1>4. \A c \in Counters : /\ Written(c)' = Written(c) + By(c)[step]
                          /\ Written(c) \in Int /\ counts[c] \in Nat
  BY WrittenGrows, WrittenIsSum, CountsAreNat
<1>5. \A a \in BatchIds : bpc'[a] = "add" =>
        a # b /\ bpc[a] = "add" /\ script'[a] = script[a] /\ seen'[a] = seen[a]
  <2> SUFFICES ASSUME NEW a \in BatchIds, bpc'[a] = "add"
               PROVE  a # b /\ bpc[a] = "add" /\ script'[a] = script[a]
                      /\ seen'[a] = seen[a]
    OBVIOUS
  <2>1. a # b /\ bpc'[a] = bpc[a]
    BY <1>1, <1>t
  <2>2. seen' = [seen EXCEPT ![b] = 0] /\ script' = [script EXCEPT ![b] = Tail(script[b])]
    BY DEF WriteCount
  <2>3. seen'[a] = seen[a] /\ script'[a] = script[a]
    BY <2>1, <2>2 DEF PInv, DataTypes
  <2> QED BY <2>1, <2>3
<1>6. \A c \in Counters :
        counts'[c] = IF step.do = c THEN seen[b] + step.by ELSE counts[c]
  BY <1>1, <1>2, <1>t DEF Counters
<1>7. ASSUME NEW c \in Counters PROVE Tally(c)'
  <2> DEFINE W == Written(c)
             V == Written(c)'
             added == step.do = c
  <2>1. \A a \in BatchIds :
          Adding(a, c)' => a # b /\ Adding(a, c) /\ seen'[a] = seen[a] /\ seen[a] \in Nat
    BY <1>5, CountsAreNat DEF Adding
  <2>2. added => Adding(b, c)
    BY <1>1 DEF Adding
  <2>3. /\ counts[c] <= W
        /\ \A a \in BatchIds : Adding(a, c) => seen[a] <= W
        /\ c \notin raced =>
             /\ counts[c] = W
             /\ \A a \in BatchIds : Adding(a, c) => seen[a] = counts[c]
             /\ \A a, d \in BatchIds : Adding(a, c) /\ Adding(d, c) => a = d
    BY DEF Tallied, Tally
  <2>4. /\ W \in Int /\ V = W + (IF added THEN step.by ELSE 0)
        /\ counts[c] \in Nat /\ step.by \in Nat /\ seen[b] \in Nat
        /\ counts'[c] = IF added THEN seen[b] + step.by ELSE counts[c]
    BY <1>3, <1>4, <1>6, <1>t
  <2>5. added => seen[b] <= W /\ (c \notin raced => seen[b] = W)
    BY <2>2, <2>3
  <2> HIDE DEF W, V, added, step
  <2>6. counts'[c] <= V /\ W <= V /\ V \in Int /\ (c \notin raced => counts'[c] = V)
    BY <2>3, <2>4, <2>5
  <2>7. \A a \in BatchIds : Adding(a, c)' => seen'[a] <= V
    BY <2>1, <2>3, <2>4, <2>6
  <2>8. ASSUME c \notin raced
        PROVE  /\ \A a \in BatchIds : Adding(a, c)' => seen'[a] = counts'[c]
               /\ \A a, d \in BatchIds : Adding(a, c)' /\ Adding(d, c)' => a = d
    <3>1. \A a, d \in BatchIds : Adding(a, c)' /\ Adding(d, c)' => a = d
      BY <2>1, <2>3, <2>8
    <3>2. CASE added
      <4>1. \A a \in BatchIds : ~Adding(a, c)'
        BY <2>1, <2>2, <2>3, <2>8, <3>2
      <4> QED BY <3>1, <4>1
    <3>3. CASE ~added
      <4>1. counts'[c] = counts[c]
        BY <2>4, <3>3
      <4> QED BY <2>1, <2>3, <2>8, <3>1, <4>1
    <3> QED BY <3>2, <3>3
  <2> QED BY <1>1, <2>6, <2>7, <2>8 DEF Tally, V
<1> QED BY <1>7 DEF Tallied

\* What met stays recorded.
LEMMA RacedStays == [Next]_vars => raced \subseteq raced'
<1> SUFFICES ASSUME [Next]_vars PROVE raced \subseteq raced'
  OBVIOUS
<1>1. CASE LoaderStep \/ UNCHANGED vars
  BY <1>1 DEF LoaderStep, StartLoad, Launch, FinishLoad, vars, goVars
<1>2. ASSUME NEW b \in BatchIds, BatchStep(b) PROVE raced \subseteq raced'
  BY <1>2 DEF BatchStep, Ask, ReadCount, WriteCount, CachePrice, EnterMap, LeaveMap,
              ConcurrentMapWrites, ReleaseSlot, Finish, goVars
<1> QED BY <1>1, <1>2 DEF Next, Ended

\* A goroutine that reads a counter reads what it is, the others stay where they are,
\* and whoever is about to add to it has met it.
LEMMA WhoReads ==
  ASSUME IInv, PInv, NEW a \in BatchIds, ReadCount(a), NEW c, Adding(a, c)'
  PROVE  /\ seen'[a] = counts[c]
         /\ \A d \in BatchIds : d # a => bpc'[d] = bpc[d]
         /\ \A d \in BatchIds : Adding(d, c) => c \in raced'
<1>1. script' = script /\ Head(script[a]).do = c
  BY DEF ReadCount, Adding
<1>2. /\ seen' = [seen EXCEPT ![a] = counts[c]]
      /\ bpc' = [bpc EXCEPT ![a] = "add"]
      /\ raced' = IF \E d \in BatchIds : Adding(d, c) THEN raced \cup {c} ELSE raced
  BY <1>1 DEF ReadCount
<1>3. seen \in [BatchIds -> Nat] /\ bpc \in [BatchIds -> BatchPlaces]
  BY DEF PInv, DataTypes, IInv, InvTypes
<1> QED BY <1>2, <1>3

LEMMA StepTallied == IInv /\ PInv /\ Tallied /\ [Next]_vars => Tallied'
<1> SUFFICES ASSUME IInv, PInv, Tallied, [Next]_vars PROVE Tallied'
  OBVIOUS
<1>1. CASE \E b \in BatchIds : WriteCount(b)
  BY <1>1, WriteTallied
<1>2. CASE \A b \in BatchIds : ~WriteCount(b)
  <2>1. counts' = counts
    <3>1. CASE LoaderStep \/ UNCHANGED vars
      BY <3>1 DEF LoaderStep, StartLoad, Launch, FinishLoad, vars
    <3>2. ASSUME NEW b \in BatchIds, BatchStep(b) PROVE counts' = counts
      BY <1>2, <3>2 DEF BatchStep, Ask, ReadCount, CachePrice, EnterMap, LeaveMap,
                        ConcurrentMapWrites, ReleaseSlot, Finish
    <3> QED BY <3>1, <3>2 DEF Next, Ended
  <2>2. \A c \in Counters : Written(c)' = Written(c)
    BY <1>2, WrittenStays
  <2>3. ASSUME NEW c \in Counters, NEW a \in BatchIds, Adding(a, c)'
        PROVE  \/ Adding(a, c) /\ seen'[a] = seen[a]
               \/ ReadCount(a) /\ seen'[a] = counts[c]
    <3>1. bpc'[a] = "add" /\ Head(script'[a]).do = c
      BY <2>3 DEF Adding
    <3>2. /\ script'[a] = script[a]
          /\ \/ bpc[a] = "add" /\ seen'[a] = seen[a]
             \/ ReadCount(a)
      BY <3>1, AboutToAdd
    <3>3. ReadCount(a) => seen'[a] = counts[c]
      BY <2>3, WhoReads
    <3> QED BY <3>1, <3>2, <3>3 DEF Adding
  <2>4. ASSUME NEW c \in Counters, NEW a \in BatchIds, NEW d \in BatchIds, a # d,
               Adding(a, c)', Adding(d, c)', c \notin raced'
        PROVE  FALSE
    <3>1. ReadCount(a) => Adding(d, c)
      <4> SUFFICES ASSUME ReadCount(a), ~Adding(d, c) PROVE FALSE
        OBVIOUS
      <4>1. ReadCount(d)
        BY <2>3, <2>4
      <4>2. bpc[d] = "work" /\ bpc'[d] = bpc[d]
        BY <2>4, <4>1, WhoReads DEF ReadCount, NextIs
      <4> QED BY <2>4, <4>2 DEF Adding
    <3>2. ~ReadCount(a)
      BY <2>4, <3>1, WhoReads
    <3>3. ReadCount(d) => Adding(a, c)
      BY <2>3, <2>4, <3>2
    <3>4. ~ReadCount(d)
      BY <2>4, <3>3, WhoReads
    <3>5. Adding(a, c) /\ Adding(d, c)
      BY <2>3, <2>4, <3>2, <3>4
    <3>6. c \notin raced
      BY <2>4, RacedStays
    <3> QED BY <2>4, <3>5, <3>6 DEF Tallied, Tally
  <2>5. ASSUME NEW c \in Counters PROVE Tally(c)'
    <3>1. /\ counts[c] <= Written(c)
          /\ \A b \in BatchIds : Adding(b, c) => seen[b] <= Written(c)
          /\ c \notin raced =>
               /\ counts[c] = Written(c)
               /\ \A b \in BatchIds : Adding(b, c) => seen[b] = counts[c]
      BY DEF Tallied, Tally
    <3>2. \A a \in BatchIds : Adding(a, c)' =>
            (Adding(a, c) /\ seen'[a] = seen[a]) \/ seen'[a] = counts[c]
      BY <2>3
    <3>3. c \notin raced' => c \notin raced
      BY RacedStays
    <3>4. c \notin raced' =>
            \A a, d \in BatchIds : Adding(a, c)' /\ Adding(d, c)' => a = d
      BY <2>4
    <3> QED BY <2>1, <2>2, <3>1, <3>2, <3>3, <3>4 DEF Tally
  <2> QED BY <2>5 DEF Tallied
<1> QED BY <1>1, <1>2

LEMMA TallyInvariant == Spec => [](IInv /\ PInv /\ Tallied)
BY InitIInv, StepIInv, InitPInv, StepPInv, InitTallied, StepTallied, PTL DEF Spec

\* What the report should say is what each batch should, added up.
LEMMA TrueSums ==
  ASSUME IInv, PInv
  PROVE  /\ TruePriced = SumFunctionOnSet([b \in BatchIds |-> Total("processed", b)], BatchIds)
         /\ TrueUnpriced = SumFunctionOnSet([b \in BatchIds |-> Total("missed", b)], BatchIds)
         /\ \A c \in Counters : Numbers([b \in BatchIds |-> Total(c, b)], BatchIds)
<1>1. /\ [b \in BatchIds |-> Cardinality(Priced(b))] = [b \in BatchIds |-> Total("processed", b)]
      /\ [b \in BatchIds |-> Unpriced(b)] = [b \in BatchIds |-> Total("missed", b)]
  BY DEF Total
<1>2. \A c \in Counters : Numbers([b \in BatchIds |-> Total(c, b)], BatchIds)
  BY TotalsAreNat DEF Numbers
<1>3. \A c : DOMAIN [b \in BatchIds |-> Total(c, b)] = BatchIds
  OBVIOUS
<1>4. /\ TruePriced = SumFunction([b \in BatchIds |-> Total("processed", b)])
      /\ TrueUnpriced = SumFunction([b \in BatchIds |-> Total("missed", b)])
  BY <1>1 DEF TruePriced, TrueUnpriced
<1> QED BY <1>2, <1>3, <1>4 DEF SumFunction

\* What was written so far is at most what the report should say, and all of it once
\* no goroutine has a step left.
LEMMA WrittenBound ==
  ASSUME IInv, PInv, NEW c \in Counters
  PROVE  LET all == SumFunctionOnSet([b \in BatchIds |-> Total(c, b)], BatchIds)
         IN /\ Written(c) <= all /\ all \in Int /\ Written(c) \in Int
            /\ (\A b \in BatchIds : script[b] = <<>>) => Written(c) = all
<1> DEFINE f == [b \in BatchIds |-> Gained(c, b)]
           g == [b \in BatchIds |-> Total(c, b)]
<1>1. Numbers(f, BatchIds) /\ Written(c) = SumFunctionOnSet(f, BatchIds) /\ Written(c) \in Int
  BY WrittenIsSum
<1>2. Numbers(g, BatchIds)
  BY TrueSums
<1>3. \A b \in BatchIds : f[b] <= g[b]
  <2> SUFFICES ASSUME NEW b \in BatchIds PROVE Gained(c, b) <= Total(c, b)
    OBVIOUS
  <2>1. Total(c, b) \in Nat /\ Weight(By(c), script[b]) \in Nat
    BY TotalsAreNat
  <2> QED BY <2>1 DEF Gained
<1>4. ASSUME \A b \in BatchIds : script[b] = <<>>
      PROVE  \A b \in BatchIds : f[b] = g[b]
  <2> SUFFICES ASSUME NEW b \in BatchIds PROVE Gained(c, b) = Total(c, b)
    OBVIOUS
  <2>1. Total(c, b) \in Nat /\ Weight(By(c), script[b]) = 0
    BY <1>4, TotalsAreNat, WeightOfNone
  <2> QED BY <2>1 DEF Gained
<1> HIDE DEF f, g
<1>5. SumFunctionOnSet(f, BatchIds) <= SumFunctionOnSet(g, BatchIds)
  BY <1>1, <1>2, <1>3, BatchesAreFinite, SumCompares
<1>6. (\A b \in BatchIds : script[b] = <<>>) =>
        SumFunctionOnSet(f, BatchIds) = SumFunctionOnSet(g, BatchIds)
  BY <1>1, <1>2, <1>4, BatchesAreFinite, SumCompares
<1>7. SumFunctionOnSet(g, BatchIds) \in Int
  BY <1>2, BatchesAreFinite, SumFirst
<1> QED BY <1>1, <1>5, <1>6, <1>7 DEF g

\* The report's counters never say more than the replies: a lost update only loses.
THEOREM ReportNotOver == Spec => []ReportNeverOver
<1>1. IInv /\ PInv /\ Tallied => ReportNeverOver
  <2> SUFFICES ASSUME IInv, PInv, Tallied PROVE ReportNeverOver
    OBVIOUS
  <2>1. /\ counts["processed"] <= Written("processed") /\ counts["processed"] \in Nat
        /\ counts["missed"] <= Written("missed") /\ counts["missed"] \in Nat
    BY CountsAreNat DEF Tallied, Tally, Counters
  <2>2. /\ Written("processed") <= TruePriced /\ TruePriced \in Int
        /\ Written("processed") \in Int
        /\ Written("missed") <= TrueUnpriced /\ TrueUnpriced \in Int
        /\ Written("missed") \in Int
    BY TrueSums, WrittenBound DEF Counters
  <2> QED BY <2>1, <2>2 DEF ReportNeverOver
<1> QED BY <1>1, TallyInvariant, PTL

\* With a limit of one no goroutines meet at a counter.
LEMMA SerialNotRaced == Spec => [](limit = 1 => raced = {})
<1> DEFINE Lone == limit = 1 => raced = {}
<1>1. Init => Lone
  BY DEF Init
<1>2. IInv /\ Lone /\ [Next]_vars => Lone'
  <2> SUFFICES ASSUME IInv, Lone, [Next]_vars, limit' = 1 PROVE raced' = {}
    OBVIOUS
  <2>1. CASE LoaderStep \/ UNCHANGED vars
    BY <2>1 DEF LoaderStep, StartLoad, Launch, FinishLoad, vars, config, goVars
  <2>2. ASSUME NEW b \in BatchIds, BatchStep(b) PROVE raced' = {}
    <3>1. CASE ReadCount(b)
      <4>1. limit = 1 /\ bpc[b] = "work"
        BY <3>1 DEF ReadCount, NextIs, config
      <4>2. ASSUME NEW a \in BatchIds, NEW c, Adding(a, c) PROVE FALSE
        <5>1. bpc[a] = "add"
          BY <4>2 DEF Adding
        <5>2. a \in InFlight /\ b \in InFlight /\ a # b
          BY <4>1, <5>1 DEF InFlight
        <5> QED BY <4>1, <5>2, Alone
      <4> QED BY <3>1, <4>1, <4>2 DEF ReadCount
    <3>2. CASE ~ReadCount(b)
      BY <2>2, <3>2 DEF BatchStep, Ask, WriteCount, CachePrice, EnterMap, LeaveMap,
                        ConcurrentMapWrites, ReleaseSlot, Finish, config, goVars
    <3> QED BY <3>1, <3>2
  <2> QED BY <2>1, <2>2 DEF Next, Ended
<1> QED BY <1>1, <1>2, LoadInvariant, PTL DEF Spec

\* A counter at which no two goroutines met is exact when the load is done, for any
\* batches, replies and order of the goroutines; with a limit of one none meets, and
\* the process survives.
THEOREM ReportExactUnlessRaced == Spec => []ExactUnlessRaced
<1>1. /\ IInv /\ PInv /\ Tallied
      /\ limit = 1 => load # "crashed"
      /\ limit = 1 => raced = {}
      => ExactUnlessRaced
  <2> SUFFICES ASSUME IInv, PInv, Tallied, load = "done"
               PROVE  /\ "processed" \notin raced => counts.processed = TruePriced
                      /\ "missed" \notin raced => counts.missed = TrueUnpriced
    BY DEF ExactUnlessRaced
  <2>1. \A b \in BatchIds : script[b] = <<>>
    BY DEF IInv, InvTypes, BatchPlaces, LoadAccounting, Running, PInv, PlaceOf
  <2>2. /\ "processed" \notin raced => counts["processed"] = Written("processed")
        /\ "missed" \notin raced => counts["missed"] = Written("missed")
    BY DEF Tallied, Tally, Counters
  <2>3. Written("processed") = TruePriced /\ Written("missed") = TrueUnpriced
    BY <2>1, TrueSums, WrittenBound DEF Counters
  <2> QED BY <2>2, <2>3
<1> QED BY <1>1, TallyInvariant, SerialLoadSurvives, SerialNotRaced, PTL

-----------------------------------------------------------------------------
(* The load neither stops nor goes on for ever: what LoadEnds has without   *)
(* fairness.                                                                *)

\* What the loader or a goroutine waits for has come: the conditions of their steps.
LoaderGoes ==
  \/ SlotFree /\ \E b \in toAsk : \A c \in toAsk \ {b} : Before(b, c)
  \/ toAsk = {} /\ BatchesDone
BatchGoes(b) ==
  \/ bpc[b] \in {"ask", "add", "map", "finish"}
  \/ bpc[b] = "work" /\ script[b] = <<>>
  \/ NextIs(b, {"processed", "missed", "store", "mark"})

LoadNotStuck == load = "fan" => LoaderGoes \/ \E b \in BatchIds : BatchGoes(b)

\* The first of the batches that are left.
LEMMA NextBatch ==
  ASSUME toAsk \subseteq BatchIds, toAsk # {}
  PROVE  \E b \in toAsk : \A c \in toAsk \ {b} : Before(b, c)
<1> DEFINE I == {b[1] : b \in toAsk}
<1>1. \A b \in toAsk : b[1] \in Nat /\ b[2] \in Nat /\ b = <<b[1], b[2]>>
  <2> SUFFICES ASSUME NEW b \in toAsk
               PROVE  b[1] \in Nat /\ b[2] \in Nat /\ b = <<b[1], b[2]>>
    OBVIOUS
  <2>1. PICK i \in DOMAIN Definitions : b \in {i} \X (1..Len(Definitions[i].tokens))
    BY DEF BatchIds
  <2>2. i \in Nat /\ Len(Definitions[i].tokens) \in Nat
    BY LoadAssumption, TokensAreSequences
  <2> QED BY <2>1, <2>2
<1>2. PICK i \in I : \A j \in I : i <= j
  <2>1. I \in SUBSET Nat /\ I # {}
    BY <1>1
  <2> HIDE DEF I
  <2> QED BY <2>1, LeastNatural
<1> DEFINE K == {b[2] : b \in {d \in toAsk : d[1] = i}}
<1>3. PICK k \in K : \A l \in K : k <= l
  <2>1. K \in SUBSET Nat /\ K # {}
    BY <1>1
  <2> HIDE DEF K
  <2> QED BY <2>1, LeastNatural
<1>4. PICK b \in toAsk : b[1] = i /\ b[2] = k
  OBVIOUS
<1>5. ASSUME NEW c \in toAsk \ {b} PROVE Before(b, c)
  <2>1. i <= c[1] /\ (c[1] = i => k <= c[2])
    BY <1>2, <1>3
  <2>2. c[1] # i \/ c[2] # k
    BY <1>1, <1>4, <1>5
  <2>3. i \in Nat /\ k \in Nat /\ c[1] \in Nat /\ c[2] \in Nat
    BY <1>1, <1>4
  <2> QED BY <1>4, <2>1, <2>2, <2>3 DEF Before
<1> QED BY <1>5

LEMMA SomeBatchGoes == IInv /\ PInv => LoadNotStuck
<1> SUFFICES ASSUME IInv, PInv, load = "fan", \A b \in BatchIds : ~BatchGoes(b)
             PROVE  LoaderGoes
  BY DEF LoadNotStuck
<1>1. \A b \in BatchIds : bpc[b] \in {"none", "done"}
  <2> SUFFICES ASSUME NEW b \in BatchIds, bpc[b] = "work", script[b] # <<>>
               PROVE  BatchGoes(b)
    BY DEF BatchGoes, IInv, InvTypes, BatchPlaces
  <2>1. Head(script[b]) \in Steps
    <3>1. script[b] \in Seq(Steps)
      BY DEF PInv, DataTypes
    <3> QED BY <3>1, TailOf
  <2>2. Head(script[b]).do \in {"processed", "missed", "store", "mark"}
    BY <2>1 DEF Steps, Processed, Mark
  <2> QED BY <2>2 DEF BatchGoes, NextIs
<1>2. InFlight = {} /\ Running = {}
  BY <1>1 DEF InFlight, Running
<1>3. sem = 0 /\ wg = 0 /\ limit \in Nat \ {0}
  BY <1>2, FS_EmptySet DEF IInv, InvTypes, LoadAccounting
<1>4. CASE toAsk = {}
  BY <1>3, <1>4 DEF LoaderGoes, BatchesDone
<1>5. CASE toAsk # {}
  BY <1>3, <1>5, NextBatch DEF LoaderGoes, SlotFree, IInv, InvTypes
<1> QED BY <1>4, <1>5

\* While the load runs, the loop or one of its goroutines has what it waits for: the
\* semaphore, the WaitGroup and the goroutines never wait for each other in a circle
\* (:131-207).
THEOREM LoadIsNotStuck == Spec => []LoadNotStuck
BY SomeBatchGoes, TallyInvariant, PTL

\* The steps that are left before the replies, and those left with them.
LoadRest(p)   == CASE p = "start" -> 2 [] p = "fan" -> 1 [] OTHER -> 0
BatchRest(p)  == CASE p = "none" -> 2 [] p = "ask" -> 1 [] OTHER -> 0
ScriptRest(p) == CASE p = "work" -> 2 [] p \in {"add", "map", "finish"} -> 1 [] OTHER -> 0

LoadWork   == LoadRest(load) + SumFunction([b \in BatchIds |-> BatchRest(bpc[b])])
ScriptWork == SumFunction([b \in BatchIds |-> 2 * Len(script[b]) + ScriptRest(bpc[b])])

LEMMA LoadRests ==
  \A p : LoadRest(p) \in Nat /\ BatchRest(p) \in Nat /\ ScriptRest(p) \in Nat
<1>1. \A p : LoadRest(p) \in Nat
  BY DEF LoadRest
<1>2. \A p : BatchRest(p) \in Nat
  BY DEF BatchRest
<1>3. \A p : ScriptRest(p) \in Nat
  BY DEF ScriptRest
<1> QED BY <1>1, <1>2, <1>3

\* How the work changes with a batch.
LEMMA LoadWorkChanges ==
  ASSUME IInv, PInv, IInv', PInv'
  PROVE  /\ LoadWork \in Nat /\ LoadWork' \in Nat
         /\ ScriptWork \in Nat /\ ScriptWork' \in Nat
         /\ UNCHANGED bpc /\ LoadRest(load') < LoadRest(load) => LoadWork' < LoadWork
         /\ \A b \in BatchIds : \A v :
              /\ UNCHANGED load /\ bpc' = [bpc EXCEPT ![b] = v]
              /\ BatchRest(v) < BatchRest(bpc[b])
              => LoadWork' < LoadWork
         /\ \A b \in BatchIds : \A v :
              /\ UNCHANGED load /\ bpc' = [bpc EXCEPT ![b] = v]
              /\ BatchRest(v) = BatchRest(bpc[b])
              => LoadWork' = LoadWork
         /\ \A b \in BatchIds : \A v : \A s \in Seq(Steps) :
              /\ bpc' = [bpc EXCEPT ![b] = v] /\ script' = [script EXCEPT ![b] = s]
              /\ 2 * Len(s) + ScriptRest(v) < 2 * Len(script[b]) + ScriptRest(bpc[b])
              => ScriptWork' < ScriptWork
<1> DEFINE B == [b \in BatchIds |-> BatchRest(bpc[b])]
           S == [b \in BatchIds |-> 2 * Len(script[b]) + ScriptRest(bpc[b])]
           B1 == [b \in BatchIds |-> BatchRest(bpc'[b])]
           S1 == [b \in BatchIds |-> 2 * Len(script'[b]) + ScriptRest(bpc'[b])]
<1>t. /\ bpc \in [BatchIds -> BatchPlaces] /\ script \in [BatchIds -> Seq(Steps)]
      /\ script' \in [BatchIds -> Seq(Steps)]
  BY DEF IInv, InvTypes, PInv, DataTypes
<1>1. /\ LoadWork = LoadRest(load) + SumFunction(B)
      /\ LoadWork' = LoadRest(load') + SumFunction(B1)
      /\ ScriptWork = SumFunction(S) /\ ScriptWork' = SumFunction(S1)
  BY DEF LoadWork, ScriptWork
<1>2. /\ DOMAIN B = BatchIds /\ DOMAIN B1 = BatchIds
      /\ DOMAIN S = BatchIds /\ DOMAIN S1 = BatchIds
      /\ \A x \in BatchIds : B[x] \in Nat /\ B1[x] \in Nat
  BY LoadRests
<1>3. \A x \in BatchIds : S[x] \in Nat /\ S1[x] \in Nat
  <2> SUFFICES ASSUME NEW x \in BatchIds PROVE S[x] \in Nat /\ S1[x] \in Nat
    OBVIOUS
  <2>1. Len(script[x]) \in Nat /\ Len(script'[x]) \in Nat
    BY <1>t
  <2>2. ScriptRest(bpc[x]) \in Nat /\ ScriptRest(bpc'[x]) \in Nat
    BY LoadRests
  <2> QED BY <2>1, <2>2
<1>4. UNCHANGED bpc => B1 = B
  OBVIOUS
<1>5. ASSUME NEW b \in BatchIds, NEW v, bpc' = [bpc EXCEPT ![b] = v],
             BatchRest(v) < BatchRest(bpc[b])
      PROVE  B1[b] < B[b] /\ \A x \in BatchIds : x # b => B1[x] = B[x]
  BY <1>5, <1>t
<1>6. ASSUME NEW b \in BatchIds, NEW v, bpc' = [bpc EXCEPT ![b] = v],
             BatchRest(v) = BatchRest(bpc[b])
      PROVE  B1 = B
  BY <1>6, <1>t
<1>7. ASSUME NEW b \in BatchIds, NEW v, NEW s \in Seq(Steps),
             bpc' = [bpc EXCEPT ![b] = v], script' = [script EXCEPT ![b] = s],
             2 * Len(s) + ScriptRest(v) < 2 * Len(script[b]) + ScriptRest(bpc[b])
      PROVE  S1[b] < S[b] /\ \A x \in BatchIds : x # b => S1[x] = S[x]
  <2>1. bpc'[b] = v /\ script'[b] = s
    BY <1>7, <1>t
  <2>2. \A x \in BatchIds : x # b => bpc'[x] = bpc[x] /\ script'[x] = script[x]
    BY <1>7, <1>t
  <2>3. S1[b] = 2 * Len(s) + ScriptRest(v) /\ S[b] = 2 * Len(script[b]) + ScriptRest(bpc[b])
    BY <2>1
  <2>4. \A x \in BatchIds : x # b => S1[x] = S[x]
    BY <2>2
  <2> QED BY <1>7, <2>3, <2>4
<1> HIDE DEF B, S, B1, S1
<1>8. /\ SumFunction(B) \in Nat /\ SumFunction(B1) \in Nat
      /\ \A y \in BatchIds : B1[y] < B[y] /\ (\A x \in BatchIds : x # y => B1[x] = B[x]) =>
           SumFunction(B1) < SumFunction(B)
  BY <1>2, BatchesAreFinite, SumChanges
<1>9. /\ SumFunction(S) \in Nat /\ SumFunction(S1) \in Nat
      /\ \A y \in BatchIds : S1[y] < S[y] /\ (\A x \in BatchIds : x # y => S1[x] = S[x]) =>
           SumFunction(S1) < SumFunction(S)
  BY <1>2, <1>3, BatchesAreFinite, SumChanges
<1>10. LoadRest(load) \in Nat /\ LoadRest(load') \in Nat
  BY LoadRests
<1>11. LoadWork \in Nat /\ LoadWork' \in Nat /\ ScriptWork \in Nat /\ ScriptWork' \in Nat
  BY <1>1, <1>8, <1>9, <1>10
<1>12. UNCHANGED bpc /\ LoadRest(load') < LoadRest(load) => LoadWork' < LoadWork
  BY <1>1, <1>4, <1>8, <1>10
<1>13. ASSUME NEW b \in BatchIds, NEW v, UNCHANGED load, bpc' = [bpc EXCEPT ![b] = v],
              BatchRest(v) < BatchRest(bpc[b])
       PROVE  LoadWork' < LoadWork
  <2>1. SumFunction(B1) < SumFunction(B)
    BY <1>5, <1>8, <1>13
  <2>2. LoadRest(load') = LoadRest(load)
    BY <1>13
  <2> QED BY <1>1, <1>8, <1>10, <2>1, <2>2
<1>14. ASSUME NEW b \in BatchIds, NEW v, UNCHANGED load, bpc' = [bpc EXCEPT ![b] = v],
              BatchRest(v) = BatchRest(bpc[b])
       PROVE  LoadWork' = LoadWork
  <2>1. B1 = B
    BY <1>6, <1>14
  <2> QED BY <1>1, <1>14, <2>1
<1>15. ASSUME NEW b \in BatchIds, NEW v, NEW s \in Seq(Steps),
              bpc' = [bpc EXCEPT ![b] = v], script' = [script EXCEPT ![b] = s],
              2 * Len(s) + ScriptRest(v) < 2 * Len(script[b]) + ScriptRest(bpc[b])
       PROVE  ScriptWork' < ScriptWork
  <2>1. SumFunction(S1) < SumFunction(S)
    BY <1>7, <1>9, <1>15
  <2> QED BY <1>1, <2>1
<1> QED BY <1>11, <1>12, <1>13, <1>14, <1>15

\* Less to ask for, or as much and less to do with the replies.
LoadShrinks == LoadWork' < LoadWork \/ (LoadWork' = LoadWork /\ ScriptWork' < ScriptWork)

LEMMA StepLoads ==
  IInv /\ PInv /\ IInv' /\ PInv' /\ [Next]_vars => UNCHANGED vars \/ LoadShrinks
<1> SUFFICES ASSUME IInv, PInv, IInv', PInv', [Next]_vars, vars' # vars PROVE LoadShrinks
  OBVIOUS
<1>t. /\ bpc \in [BatchIds -> BatchPlaces] /\ script \in [BatchIds -> Seq(Steps)]
      /\ \A b \in BatchIds : PlaceOf(b)
  BY DEF IInv, InvTypes, PInv, DataTypes
<1>l. /\ LoadRest("fan") < LoadRest("start") /\ LoadRest("failed") < LoadRest("start")
      /\ LoadRest("done") < LoadRest("fan") /\ LoadRest("crashed") < LoadRest("fan")
  BY DEF LoadRest
<1>b. /\ BatchRest("ask") < BatchRest("none") /\ BatchRest("work") < BatchRest("ask")
      /\ BatchRest("work") = 0 /\ BatchRest("add") = 0 /\ BatchRest("map") = 0
      /\ BatchRest("finish") = 0 /\ BatchRest("done") = 0
  BY DEF BatchRest
<1>s. /\ ScriptRest("work") = 2 /\ ScriptRest("add") = 1 /\ ScriptRest("map") = 1
      /\ ScriptRest("finish") = 1 /\ ScriptRest("done") = 0
  BY DEF ScriptRest
\* A goroutine that goes on with its script.
<1>g. ASSUME NEW b \in BatchIds, NEW u \in {"work", "add", "map", "finish"},
             NEW v \in {"work", "add", "map", "finish", "done"}, bpc[b] = u,
             bpc' = [bpc EXCEPT ![b] = v], UNCHANGED load, NEW s \in Seq(Steps),
             script' = [script EXCEPT ![b] = s],
             2 * Len(s) + ScriptRest(v) < 2 * Len(script[b]) + ScriptRest(u)
      PROVE  LoadShrinks
  <2>1. BatchRest(v) = 0 /\ BatchRest(u) = 0
    BY <1>b, <1>g
  <2>2. BatchRest(v) = BatchRest(bpc[b])
    BY <1>g, <2>1, Zenon
  <2>3. LoadWork' = LoadWork
    BY <1>g, <2>2, LoadWorkChanges
  <2>4. 2 * Len(s) + ScriptRest(v) < 2 * Len(script[b]) + ScriptRest(bpc[b])
    BY <1>g, Zenon
  <2>5. ScriptWork' < ScriptWork
    BY <1>g, <2>4, LoadWorkChanges
  <2> QED BY <2>3, <2>5 DEF LoadShrinks
\* With the same script, or without its first step.
<1>h. ASSUME NEW b \in BatchIds
      PROVE  /\ script[b] \in Seq(Steps) /\ Len(script[b]) \in Nat
             /\ script[b] # <<>> => Tail(script[b]) \in Seq(Steps)
                                    /\ Len(script[b]) = Len(Tail(script[b])) + 1
                                    /\ Len(Tail(script[b])) \in Nat
             /\ UNCHANGED script => script' = [script EXCEPT ![b] = script[b]]
             /\ UNCHANGED bpc => bpc' = [bpc EXCEPT ![b] = bpc[b]]
  BY <1>t
<1>1. CASE StartLoad
  <2>1. UNCHANGED bpc /\ load = "start" /\ load' \in {"fan", "failed"}
    BY <1>1 DEF StartLoad, goVars
  <2>2. LoadRest(load') < LoadRest(load)
    BY <1>l, <2>1
  <2> QED BY <2>1, <2>2, LoadWorkChanges DEF LoadShrinks
<1>2. CASE Launch
  <2>1. PICK b \in toAsk : bpc' = [bpc EXCEPT ![b] = "ask"]
    BY <1>2 DEF Launch
  <2>2. b \in BatchIds /\ bpc[b] = "none" /\ UNCHANGED load
    BY <1>2 DEF Launch, IInv, InvTypes, Fresh
  <2>3. BatchRest("ask") < BatchRest(bpc[b])
    BY <1>b, <2>2, Zenon
  <2> QED BY <2>1, <2>2, <2>3, LoadWorkChanges DEF LoadShrinks
<1>3. CASE FinishLoad
  <2>1. UNCHANGED bpc /\ load = "fan" /\ load' = "done"
    BY <1>3 DEF FinishLoad, goVars
  <2>2. LoadRest(load') < LoadRest(load)
    BY <1>l, <2>1
  <2> QED BY <2>1, <2>2, LoadWorkChanges DEF LoadShrinks
<1>4. ASSUME NEW b \in BatchIds, BatchStep(b) PROVE LoadShrinks
  <2>1. CASE Ask(b)
    <3>1. bpc[b] = "ask" /\ bpc' = [bpc EXCEPT ![b] = "work"] /\ UNCHANGED load
      BY <2>1 DEF Ask
    <3>2. BatchRest("work") < BatchRest(bpc[b])
      BY <1>b, <3>1, Zenon
    <3> QED BY <3>1, <3>2, LoadWorkChanges DEF LoadShrinks
  <2>2. CASE ReadCount(b)
    <3>1. /\ bpc[b] = "work" /\ bpc' = [bpc EXCEPT ![b] = "add"]
          /\ UNCHANGED <<load, script>>
      BY <2>2 DEF ReadCount, NextIs
    <3>2. 2 * Len(script[b]) + ScriptRest("add") < 2 * Len(script[b]) + ScriptRest("work")
      BY <1>h, <1>s
    <3> QED BY <1>g, <1>h, <3>1, <3>2
  <2>3. CASE WriteCount(b)
    <3>1. /\ bpc[b] = "add" /\ bpc' = [bpc EXCEPT ![b] = "work"] /\ UNCHANGED load
          /\ script' = [script EXCEPT ![b] = Tail(script[b])]
      BY <2>3, <1>t DEF WriteCount
    <3>2. script[b] # <<>>
      BY <1>t, <3>1 DEF PlaceOf
    <3>3. 2 * Len(Tail(script[b])) + ScriptRest("work") < 2 * Len(script[b]) + ScriptRest("add")
      BY <1>h, <1>s, <3>2
    <3> QED BY <1>g, <1>h, <3>1, <3>2, <3>3
  <2>4. CASE CachePrice(b)
    <3>1. /\ bpc[b] = "work" /\ bpc' = [bpc EXCEPT ![b] = "work"] /\ UNCHANGED load
          /\ script' = [script EXCEPT ![b] = Tail(script[b])] /\ script[b] # <<>>
      BY <2>4, <1>t DEF CachePrice, NextIs
    <3>2. 2 * Len(Tail(script[b])) + ScriptRest("work") < 2 * Len(script[b]) + ScriptRest("work")
      BY <1>h, <1>s, <3>1
    <3> QED BY <1>g, <1>h, <3>1, <3>2
  <2>5. CASE EnterMap(b)
    <3>1. /\ bpc[b] = "work" /\ bpc' = [bpc EXCEPT ![b] = "map"]
          /\ UNCHANGED <<load, script>>
      BY <2>5 DEF EnterMap, NextIs
    <3>2. 2 * Len(script[b]) + ScriptRest("map") < 2 * Len(script[b]) + ScriptRest("work")
      BY <1>h, <1>s
    <3> QED BY <1>g, <1>h, <3>1, <3>2
  <2>6. CASE LeaveMap(b)
    <3>1. /\ bpc[b] = "map" /\ bpc' = [bpc EXCEPT ![b] = "work"] /\ UNCHANGED load
          /\ script' = [script EXCEPT ![b] = Tail(script[b])]
      BY <2>6, <1>t DEF LeaveMap
    <3>2. script[b] # <<>>
      BY <1>t, <3>1 DEF PlaceOf
    <3>3. 2 * Len(Tail(script[b])) + ScriptRest("work") < 2 * Len(script[b]) + ScriptRest("map")
      BY <1>h, <1>s, <3>2
    <3> QED BY <1>g, <1>h, <3>1, <3>2, <3>3
  <2>7. CASE ConcurrentMapWrites(b)
    <3>1. UNCHANGED bpc /\ bpc[b] = "map" /\ load # "crashed" /\ load' = "crashed"
      BY <1>4, <2>7 DEF BatchStep, ConcurrentMapWrites, goVars
    <3>2. b \in Running
      BY <3>1 DEF Running
    <3>3. load = "fan"
      BY <3>1, <3>2 DEF PInv, DataTypes, IInv, Fresh, LoadAccounting
    <3>4. LoadRest(load') < LoadRest(load)
      BY <1>l, <3>1, <3>3
    <3> QED BY <3>1, <3>4, LoadWorkChanges DEF LoadShrinks
  <2>8. CASE ReleaseSlot(b)
    <3>1. /\ bpc[b] = "work" /\ bpc' = [bpc EXCEPT ![b] = "finish"]
          /\ UNCHANGED <<load, script>>
      BY <2>8 DEF ReleaseSlot
    <3>2. 2 * Len(script[b]) + ScriptRest("finish") < 2 * Len(script[b]) + ScriptRest("work")
      BY <1>h, <1>s
    <3> QED BY <1>g, <1>h, <3>1, <3>2
  <2>9. CASE Finish(b)
    <3>1. /\ bpc[b] = "finish" /\ bpc' = [bpc EXCEPT ![b] = "done"]
          /\ UNCHANGED <<load, script>>
      BY <2>9 DEF Finish
    <3>2. 2 * Len(script[b]) + ScriptRest("done") < 2 * Len(script[b]) + ScriptRest("finish")
      BY <1>h, <1>s
    <3> QED BY <1>g, <1>h, <3>1, <3>2
  <2> QED BY <1>4, <2>1, <2>2, <2>3, <2>4, <2>5, <2>6, <2>7, <2>8, <2>9 DEF BatchStep
<1> QED BY <1>1, <1>2, <1>3, <1>4 DEF Next, LoaderStep, Ended

\* Every step leaves less to ask for or, with as much to ask for, less to do with the
\* replies that came: whatever DEXScreener says of a token, the load does not go on for
\* ever.
THEOREM LoadRunsOut ==
  Spec => [](LoadWork \in Nat /\ ScriptWork \in Nat) /\ [][LoadShrinks]_vars
<1>1. IInv /\ PInv /\ IInv' /\ PInv' => LoadWork \in Nat /\ ScriptWork \in Nat
  BY LoadWorkChanges
<1> QED BY <1>1, StepLoads, TallyInvariant, PTL DEF Spec
=============================================================================
