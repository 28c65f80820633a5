---------------------------- MODULE TokenPriceLoad ----------------------------
(***************************************************************************)
(* LoadAndCacheTokenPrices of internal/app/service/token_price_service.go, *)
(* which main.go calls once before it serves: a goroutine per batch of     *)
(* tokens, at most concurrencyLimit at a time, asks DEXScreener for pairs  *)
(* and caches the prices it finds.                                         *)
(*                                                                         *)
(* The goroutines write cachedPrices under s.mu, but share the counters of *)
(* the final report and the map platformsWithCachedPrices without a lock.  *)
(* A counter is read and written in two steps; two goroutines inside the   *)
(* map at once may be stopped by the runtime ("concurrent map writes"),    *)
(* which ends the process.                                                 *)
(***************************************************************************)
EXTENDS Integers, SequencesExt

CONSTANTS
  Definitions,   \* activeNetworkDefs: DEXScreener id and tokens of each network
  NoDex,         \* a DEXScreenerChainID that is empty
  BatchSizes,    \* values of MaxTokensPerBatchRequest
  Quotes,        \* what the pairs of a reply say of one token
  NoPrice,       \* the price of a token no pair has a readable price for
  Limits         \* values of concurrencyLimit, the capacity of sem

\* configloader.Load replaces a size of 0 by 30 and a limit below 1 by 10.
\* activeNetworkDefs is a slice, so that its positions are numbers.
\* A network has one token file and the ids of the known networks differ, so no
\* two active networks share an id.  Of the pairs of a token, "bad" come before
\* the first readable price.
ASSUME LoadAssumption ==
  /\ Limits \subseteq Nat \ {0}
  /\ BatchSizes \subseteq Int \ {0}
  /\ IsFiniteSet(DOMAIN Definitions)
  /\ DOMAIN Definitions \subseteq Nat
  /\ \A i \in DOMAIN Definitions :
       Definitions[i].tokens \in Seq(ToSet(Definitions[i].tokens))
  /\ \A i, j \in DOMAIN Definitions :
       Definitions[i].dex = Definitions[j].dex /\ Definitions[i].dex # NoDex => i = j
  /\ \A q \in Quotes : q.bad \in Nat

DexIds == {Definitions[i].dex : i \in DOMAIN Definitions} \ {NoDex}
Tokens == UNION {ToSet(Definitions[i].tokens) : i \in DOMAIN Definitions}
Prices == {q.price : q \in Quotes} \cup {NoPrice}

\* A batch is the position of its network and its number there.
BatchIds == UNION {{i} \X (1..Len(Definitions[i].tokens)) :
                     i \in DOMAIN Definitions}

VARIABLES
  size, limit,    \* MaxTokensPerBatchRequest and concurrencyLimit
  load,           \* where LoadAndCacheTokenPrices is
  toAsk,          \* the batches its loop has not reached
  sem, wg,        \* the semaphore and the WaitGroup
  bpc,            \* where a batch's goroutine is
  reply,          \* a quote per token of the batch, empty after an error
  script,         \* what is left to do with the reply
  seen,           \* the value of a counter its ++ has read
  counts,         \* processedSuccessfully and failedOrMissing
  cachedPrices,   \* cachedPrices; a missing key is NoPrice
  raced           \* history: the counters two goroutines added to at once

config == <<size, limit>>
goVars == <<bpc, reply, script, seen, raced>>
vars   == <<config, load, toAsk, sem, wg, goVars, counts, cachedPrices>>

-----------------------------------------------------------------------------
(* Batches and replies. *)

\* Bug: the rest that does not fill a batch is forgotten.
FullBatches(n, m) == n \div m
BatchCount(n, m)  == (n + m - 1) \div m

\* batchTokenInfos: consecutive slices of at most batchSize tokens.
BatchTokenInfos(tokens, batchSize) ==
  LET m == IF batchSize <= 0 THEN 30 ELSE batchSize
      n == Len(tokens)
  IN [k \in 1..BatchCount(n, m) |->
        SubSeq(tokens, (k - 1) * m + 1, IF k * m <= n THEN k * m ELSE n)]

\* The batches of the networks with a DEXScreener id, in the loop's order.
BatchesToAsk(n) ==
  UNION {{i} \X DOMAIN BatchTokenInfos(Definitions[i].tokens, n) :
           i \in {j \in DOMAIN Definitions : Definitions[j].dex # NoDex}}

Before(b, c) == b[1] < c[1] \/ (b[1] = c[1] /\ b[2] < c[2])

Batch(b) == BatchTokenInfos(Definitions[b[1]].tokens, size)[b[2]]
DexOf(b) == Definitions[b[1]].dex

\* GetTokenPairsByAddresses: an error of the request, of the status or of the
\* body, always one for more tokens than the limit, or what it says of each.
Replies(b) ==
  {<<>>} \cup IF Len(Batch(b)) > size THEN {}
              ELSE [1..Len(Batch(b)) -> Quotes]

\* The steps of a goroutine after its call.
Missed(n)   == [do |-> "missed", by |-> n]
Processed   == [do |-> "processed", by |-> 1]
Store(t, p) == [do |-> "store", token |-> t, price |-> p]
Mark        == [do |-> "mark"]

\* The pairs of a token: an unreadable price counts as missing, the first
\* readable one is cached, and a token without any is missing.
TokenScript(t, q) ==
  [k \in 1..q.bad |-> Missed(1)] \o
  (IF q.price = NoPrice THEN <<Missed(1)>>
   ELSE <<Store(t, q.price), Processed, Mark>>)

\* After an error the whole batch is missing.  Bugs: it counts as one token;
\* no return, so that every token is also found missing.
FailedOnce(tokens)   == <<Missed(1)>>
FailedTwice(tokens)  == <<Missed(Len(tokens))>> \o
                        [k \in DOMAIN tokens |-> Missed(1)]
FailedScript(tokens) == <<Missed(Len(tokens))>>

Script(tokens, r) ==
  IF r = <<>> THEN FailedScript(tokens)
  ELSE FlattenSeq([k \in DOMAIN tokens |-> TokenScript(tokens[k], r[k])])

-----------------------------------------------------------------------------
Init ==
  /\ size \in BatchSizes /\ limit \in Limits
  /\ load = "start"
  /\ toAsk = {} /\ sem = 0 /\ wg = 0
  /\ bpc    = [b \in BatchIds |-> "none"]
  /\ reply  = [b \in BatchIds |-> <<>>]
  /\ script = [b \in BatchIds |-> <<>>]
  /\ seen   = [b \in BatchIds |-> 0]
  /\ counts = [processed |-> 0, missed |-> 0]
  /\ cachedPrices = [d \in DexIds |-> [t \in Tokens |-> NoPrice]]
  /\ raced = {}

\* Without a network nothing is left to ask.  If the tokens cannot be loaded the
\* process ends: main.go does not start without prices.
StartLoad ==
  /\ load = "start"
  /\ \/ /\ Definitions # <<>>
        /\ load' = "failed" /\ UNCHANGED toAsk
     \/ load' = "fan" /\ toAsk' = BatchesToAsk(size)
  /\ UNCHANGED <<config, sem, wg, goVars, counts, cachedPrices>>

\* sem <- struct{}{} goes through.  Bug: one slot too many.
SlotAlmostFree == sem <= limit
SlotFree       == sem < limit

\* wg.Add(1), the semaphore and go, for the next batch.
Launch ==
  /\ load = "fan" /\ SlotFree
  /\ \E b \in toAsk :
       /\ \A c \in toAsk \ {b} : Before(b, c)
       /\ toAsk' = toAsk \ {b}
       /\ bpc' = [bpc EXCEPT ![b] = "ask"]
  /\ sem' = sem + 1
  /\ wg' = wg + 1
  /\ UNCHANGED <<config, load, reply, script, seen, raced, counts, cachedPrices>>

\* wg.Wait().  Bug: it is called before wg.Add.
NoWait      == TRUE
BatchesDone == wg = 0

FinishLoad ==
  /\ load = "fan" /\ toAsk = {} /\ BatchesDone
  /\ load' = "done"
  /\ UNCHANGED <<config, toAsk, sem, wg, goVars, counts, cachedPrices>>

-----------------------------------------------------------------------------
(* A batch's goroutine; none runs after the process died. *)

Ask(b) ==
  /\ bpc[b] = "ask"
  /\ \E r \in Replies(b) :
       /\ reply'  = [reply EXCEPT ![b] = r]
       /\ script' = [script EXCEPT ![b] = Script(Batch(b), r)]
  /\ bpc' = [bpc EXCEPT ![b] = "work"]
  /\ UNCHANGED <<config, load, toAsk, sem, wg, seen, raced, counts, cachedPrices>>

NextIs(b, dos) ==
  bpc[b] = "work" /\ script[b] # <<>> /\ Head(script[b]).do \in dos

\* The goroutine has read the counter and not yet written it.
Adding(b, c) == bpc[b] = "add" /\ Head(script[b]).do = c

\* The two halves of ++ and += on a counter.
ReadCount(b) ==
  LET c == Head(script[b]).do IN
  /\ NextIs(b, {"processed", "missed"})
  /\ seen' = [seen EXCEPT ![b] = counts[c]]
  /\ bpc'  = [bpc EXCEPT ![b] = "add"]
  /\ raced' = IF \E a \in BatchIds : Adding(a, c) THEN raced \cup {c} ELSE raced
  /\ UNCHANGED <<config, load, toAsk, sem, wg, reply, script, counts,
                 cachedPrices>>

WriteCount(b) ==
  LET step == Head(script[b]) IN
  /\ bpc[b] = "add"
  /\ counts' = [counts EXCEPT ![step.do] = seen[b] + step.by]
  /\ seen'   = [seen EXCEPT ![b] = 0]
  /\ script' = [script EXCEPT ![b] = Tail(@)]
  /\ bpc'    = [bpc EXCEPT ![b] = "work"]
  /\ UNCHANGED <<config, load, toAsk, sem, wg, reply, cachedPrices, raced>>

\* The write of cachedPrices between s.mu.Lock and s.mu.Unlock.
CachePrice(b) ==
  LET step == Head(script[b]) IN
  /\ NextIs(b, {"store"})
  /\ cachedPrices' = [cachedPrices EXCEPT ![DexOf(b)][step.token] = step.price]
  /\ script' = [script EXCEPT ![b] = Tail(@)]
  /\ UNCHANGED <<config, load, toAsk, sem, wg, bpc, reply, seen, raced, counts>>

\* platformsWithCachedPrices[dexscreenerID] = struct{}{}: a goroutine is inside
\* the map from the first step to the second.
EnterMap(b) ==
  /\ NextIs(b, {"mark"})
  /\ bpc' = [bpc EXCEPT ![b] = "map"]
  /\ UNCHANGED <<config, load, toAsk, sem, wg, reply, script, seen, raced, counts,
                 cachedPrices>>

LeaveMap(b) ==
  /\ bpc[b] = "map"
  /\ script' = [script EXCEPT ![b] = Tail(@)]
  /\ bpc' = [bpc EXCEPT ![b] = "work"]
  /\ UNCHANGED <<config, load, toAsk, sem, wg, reply, seen, raced, counts,
                 cachedPrices>>

\* The runtime may notice the second goroutine, and exits.
ConcurrentMapWrites(b) ==
  /\ bpc[b] = "map" /\ \E c \in BatchIds \ {b} : bpc[c] = "map"
  /\ load' = "crashed"
  /\ UNCHANGED <<config, toAsk, sem, wg, goVars, counts, cachedPrices>>

\* The deferred <-sem, and wg.Done() after it.  Bug: an error keeps the slot.
KeepSlotOnError(b) == IF reply[b] = <<>> THEN sem ELSE sem - 1
FreeSlot(b)        == sem - 1

ReleaseSlot(b) ==
  /\ bpc[b] = "work" /\ script[b] = <<>>
  /\ sem' = FreeSlot(b)
  /\ bpc' = [bpc EXCEPT ![b] = "finish"]
  /\ UNCHANGED <<config, load, toAsk, wg, reply, script, seen, raced, counts,
                 cachedPrices>>

Finish(b) ==
  /\ bpc[b] = "finish"
  /\ wg' = wg - 1
  /\ bpc' = [bpc EXCEPT ![b] = "done"]
  /\ UNCHANGED <<config, load, toAsk, sem, reply, script, seen, raced, counts,
                 cachedPrices>>

BatchStep(b) ==
  /\ load # "crashed"
  /\ \/ Ask(b) \/ ReadCount(b) \/ WriteCount(b) \/ CachePrice(b)
     \/ EnterMap(b) \/ LeaveMap(b) \/ ConcurrentMapWrites(b)
     \/ ReleaseSlot(b) \/ Finish(b)

LoaderStep == StartLoad \/ Launch \/ FinishLoad

\* The service serves, or the process has ended.
Ended == load \in {"done", "failed", "crashed"} /\ UNCHANGED vars

Next == LoaderStep \/ (\E b \in BatchIds : BatchStep(b)) \/ Ended

Spec == Init /\ [][Next]_vars

\* Goroutines that can run do, and DoTimeout ends every request.
FairSpec == /\ Spec
            /\ WF_vars(LoaderStep)
            /\ \A b \in BatchIds : WF_vars(BatchStep(b))

-----------------------------------------------------------------------------
(* Properties. *)

InFlight == {b \in BatchIds : bpc[b] \notin {"none", "finish", "done"}}
Running  == {b \in BatchIds : bpc[b] \notin {"none", "done"}}

\* The variables hold what the code's types allow: the type invariant.
LoadTypeOK ==
  /\ size \in BatchSizes /\ limit \in Limits
  /\ load \in {"start", "fan", "done", "failed", "crashed"}
  /\ toAsk \subseteq BatchIds
  /\ sem \in 0..limit
  /\ wg \in Nat
  /\ bpc \in [BatchIds -> {"none", "ask", "work", "add", "map", "finish",
                           "done"}]
  /\ \A b \in BatchIds : Len(reply[b]) <= Len(Definitions[b[1]].tokens)
  /\ seen \in [BatchIds -> Nat]
  /\ counts \in [processed : Nat, missed : Nat]
  /\ cachedPrices \in [DexIds -> [Tokens -> Prices]]
  /\ raced \subseteq {"processed", "missed"}

\* sem and wg count the goroutines, so that the requests to DEXScreener stay
\* within the limit and nothing runs once the load is done: the prices the
\* portfolio service reads never change under it (:131, :206-207).
LoadAccounting ==
  /\ sem = Cardinality(InFlight) /\ wg = Cardinality(Running)
  /\ load = "done" => Running = {}

\* When the load is done every token of a network with a DEXScreener id has been
\* asked for, once, and has the price its reply brought: a batch that fails, or
\* is refused by the client, costs the other batches nothing, and no two
\* networks mix their prices (:128-205).
CacheIsComplete ==
  load = "done" =>
    \A i \in DOMAIN Definitions :
      Definitions[i].dex # NoDex =>
        \A t \in ToSet(Definitions[i].tokens) :
          \E b \in BatchIds :
            /\ b[1] = i /\ bpc[b] = "done"
            /\ \E k \in DOMAIN Batch(b) :
                 /\ Batch(b)[k] = t
                 /\ cachedPrices[DexOf(b)][t] =
                      IF reply[b] = <<>> THEN NoPrice ELSE reply[b][k].price

\* The batches are the tokens in their order, none is empty, and none is refused
\* by the client for its length while the configured size is positive: the size
\* of :148 and the limit of dexscreener_client.go:48 are the same setting.
BatchesFit ==
  \A i \in DOMAIN Definitions :
    LET tokens  == Definitions[i].tokens
        batches == BatchTokenInfos(tokens, size)
    IN /\ FlattenSeq(batches) = tokens
       /\ \A k \in DOMAIN batches :
            Len(batches[k]) > 0 /\ (size > 0 => Len(batches[k]) <= size)

\* What the report should say of a batch once it was answered: the tokens it has a
\* price for, and the missing tokens and unreadable prices.
Priced(b) == {k \in DOMAIN reply[b] : reply[b][k].price # NoPrice}
Misses(q) == q.bad + IF q.price = NoPrice THEN 1 ELSE 0
Unpriced(b) ==
  IF bpc[b] \in {"none", "ask"} THEN 0
  ELSE IF reply[b] = <<>> THEN Len(Batch(b))
  ELSE SumFunction([k \in DOMAIN reply[b] |-> Misses(reply[b][k])])

TruePriced   == SumFunction([b \in BatchIds |-> Cardinality(Priced(b))])
TrueUnpriced == SumFunction([b \in BatchIds |-> Unpriced(b)])

\* Lost updates only ever make the report's counters too small, never too large
\* (:165, :181, :193, :205).
ReportNeverOver ==
  counts.processed <= TruePriced /\ counts.missed <= TrueUnpriced

\* The report is wrong only by additions that two goroutines made at once: a counter
\* that never met that is exact, whatever the order of the goroutines, the errors
\* and the repeated pairs.  With a limit of one goroutine no counter meets it, and the
\* map cannot kill the process (:165, :181-197, :205).
ExactUnlessRaced ==
  /\ load = "done" =>
       /\ "processed" \notin raced => counts.processed = TruePriced
       /\ "missed" \notin raced => counts.missed = TrueUnpriced
  /\ limit = 1 => raced = {} /\ load # "crashed"

\* The load ends, whatever DEXScreener answers: main.go does not serve before.
LoadEnds == (load = "fan") ~> (load \in {"done", "crashed"})
=============================================================================
