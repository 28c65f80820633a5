---------------------------- MODULE NetworkFetch ----------------------------
(***************************************************************************)
(* One network of a request, from its token file to what                   *)
(* fetchBalancesForNetwork returns for each wallet: the tokens the loader  *)
(* takes from the file, the batch the portfolio service prepares, the call *)
(* of EVMClient.GetBalances and what becomes of every reply.               *)
(*                                                                         *)
(* The wallets' goroutines share the network's client, and with it the     *)
(* package variable erc20MethodID.  GetBalances appends the wallet to it   *)
(* for every token: if the slice had room, all calls would write the same  *)
(* array and read it only when the batch is sent.                          *)
(***************************************************************************)
EXTENDS Naturals, Lists

CONSTANTS
  Wallets,      \* the wallets whose balances are fetched on the network
  NoWallet,     \* what erc20MethodID's array holds before the first append
  Files,        \* contents of the token file: a sequence of [token, chain]
  Chain         \* netDef.ChainID

Native == "native"    \* the item of a batch that is not a token

FileTokens == UNION {{e.token : e \in ToSet(f)} : f \in Files}
Items      == {Native} \cup FileTokens

\* A file is a list, and its tokens are no native items: a request says which it is.
ASSUME FetchAssumption ==
  /\ \A f \in Files : f \in Seq(ToSet(f))
  /\ Native \notin FileTokens

\* What a node says of an item.  "null" is a result without a value, "empty" is
\* 0x, "garbage" are bytes the ABI cannot unpack.
NativeReplies == {"error", "null", "zero", "some"}
TokenReplies  == {"error", "empty", "garbage", "zero", "some"}
RepliesTo(i)  == IF i = Native THEN NativeReplies ELSE TokenReplies

VARIABLES
  file,         \* the token file as the request's one reading of it finds it
  pc,           \* where a wallet's fetch is
  batch,        \* balanceRequests of a wallet: a sequence of items
  callData,     \* "own" or "shared": the array the wallet's call data is in
  scratch,      \* the wallet in the array behind erc20MethodID
  replies,      \* what the node says of each element of the batch, and of whose
  err,          \* the error of the whole batch
  balances,     \* what the fetch returns
  errors

vars == <<file, pc, batch, callData, scratch, replies, err, balances, errors>>

-----------------------------------------------------------------------------
(* The batch. *)

\* A file that cannot be read or parsed is skipped like an empty one, an entry of
\* another chain is skipped alone.
TokensOfFile(f) ==
  LET valid == Keep(f, {e \in ToSet(f) : e.chain = Chain})
  IN [k \in DOMAIN valid |-> valid[k].token]

\* The native item always leads.
BalanceRequests(ts) == <<Native>> \o ts

\* crypto.Keccak256 allocates 32 bytes, of which the ABI's method ID is the first
\* four.  Bug: an ID cut from a larger buffer.
SlackCapacity    == 64
MethodIdCapacity == 32
WordSize         == 32

\* append(erc20MethodID, paddedWalletAddress...) copies what does not fit.
AppendCopies == 4 + WordSize > MethodIdCapacity

-----------------------------------------------------------------------------
(* The results. *)

Bad(i)        == [item |-> i, error |-> TRUE, balance |-> "nil"]
Found(i, b)   == [item |-> i, error |-> FALSE, balance |-> b]

\* GetBalances for one element of the batch.  Bug: a result without a value is
\* taken for a balance.
DecodeAnyValue(i, r) ==
  IF r \in {"error", "garbage"} THEN Bad(i)
  ELSE Found(i, CASE r = "empty" -> "zero" [] r = "null" -> "nil" [] OTHER -> r)
Decode(i, r) ==
  IF r \in {"error", "null", "garbage"} THEN Bad(i)
  ELSE Found(i, IF r = "empty" THEN "zero" ELSE r)

Results(w) == [k \in DOMAIN batch[w] |->
                 Decode(batch[w][k], replies[w][k].is)]

\* The loop over batchResults.  Bug: it leaves at the first error.
UntilError(rs) ==
  LET bad == {k \in DOMAIN rs : rs[k].error}
  IN IF bad = {} THEN rs ELSE SubSeq(rs, 1, Min(bad))
Visited(rs) == rs

BalancesOf(rs) ==
  Keep(Visited(rs), {x \in ToSet(rs) : ~x.error /\ x.balance # "zero"})
ErrorsOf(rs)   == Keep(Visited(rs), {x \in ToSet(rs) : x.error})

\* After an error of the batch the results, which hold neither balances nor
\* errors, are dropped for one error of the network.
DropResults(w) == <<Bad("batch")>>

-----------------------------------------------------------------------------
Init ==
  /\ file \in Files
  /\ pc = [w \in Wallets |-> "prepare"]
  /\ batch = [w \in Wallets |-> <<>>]
  /\ callData = [w \in Wallets |-> "own"]
  /\ scratch = NoWallet
  /\ replies = [w \in Wallets |-> <<>>]
  /\ err = [w \in Wallets |-> FALSE]
  /\ balances = [w \in Wallets |-> <<>>]
  /\ errors = [w \in Wallets |-> <<>>]

\* The requests of the service and the elements GetBalances makes of them.
Prepare(w) ==
  /\ pc[w] = "prepare"
  /\ batch' = [batch EXCEPT ![w] = BalanceRequests(TokensOfFile(file))]
  /\ IF AppendCopies \/ TokensOfFile(file) = <<>>
       THEN UNCHANGED <<callData, scratch>>
       ELSE callData' = [callData EXCEPT ![w] = "shared"] /\ scratch' = w
  /\ pc' = [pc EXCEPT ![w] = "call"]
  /\ UNCHANGED <<file, replies, err, balances, errors>>

\* The wallet an item of w's batch asks for when it is sent.
AskedFor(w, i) == IF i # Native /\ callData[w] = "shared" THEN scratch ELSE w

\* BatchCallContext answers every element, with a value or with an error, or
\* fails as a whole: no connection, a malformed answer, the RPC timeout.
Answered(w) ==
  /\ pc[w] = "call"
  /\ \E r \in [DOMAIN batch[w] -> NativeReplies \cup TokenReplies] :
       /\ \A k \in DOMAIN r : r[k] \in RepliesTo(batch[w][k])
       /\ replies' = [replies EXCEPT ![w] =
            [k \in DOMAIN r |-> [is |-> r[k], of |-> AskedFor(w, batch[w][k])]]]
  /\ pc' = [pc EXCEPT ![w] = "collect"]
  /\ UNCHANGED <<file, batch, callData, scratch, err, balances, errors>>

CallFails(w) ==
  /\ pc[w] = "call"
  /\ err' = [err EXCEPT ![w] = TRUE]
  /\ pc' = [pc EXCEPT ![w] = "collect"]
  /\ UNCHANGED <<file, batch, callData, scratch, replies, balances, errors>>

\* GetBalances decodes the elements, fetchBalancesForNetwork sorts them.
Collect(w) ==
  /\ pc[w] = "collect"
  /\ LET rs == IF err[w] THEN DropResults(w) ELSE Results(w)
     IN /\ balances' = [balances EXCEPT ![w] = BalancesOf(rs)]
        /\ errors'   = [errors EXCEPT ![w] = ErrorsOf(rs)]
  /\ pc' = [pc EXCEPT ![w] = "done"]
  /\ UNCHANGED <<file, batch, callData, scratch, replies, err>>

Finished == (\A w \in Wallets : pc[w] = "done") /\ UNCHANGED vars

Next ==
  \/ \E w \in Wallets : Prepare(w) \/ Answered(w) \/ CallFails(w) \/ Collect(w)
  \/ Finished

Spec == Init /\ [][Next]_vars

-----------------------------------------------------------------------------
(* Properties. *)

Result == [item : Items \cup {"batch"}, error : {TRUE}, balance : {"nil"}]
            \cup [item : Items, error : {FALSE}, balance : {"some"}]

\* Types: in particular what is returned as a balance has an amount, which the
\* merge dereferences, and what is returned as an error has none.
FetchTypeOK ==
  /\ file \in Files
  /\ pc \in [Wallets -> {"prepare", "call", "collect", "done"}]
  /\ callData \in [Wallets -> {"own", "shared"}]
  /\ scratch \in Wallets \cup {NoWallet}
  /\ err \in [Wallets -> BOOLEAN]
  /\ \A w \in Wallets :
       /\ ToSet(batch[w]) \subseteq Items
       /\ ToSet(balances[w]) \cup ToSet(errors[w]) \subseteq Result
       /\ \A x \in ToSet(balances[w]) : ~x.error
       /\ \A x \in ToSet(errors[w]) : x.error

\* How often an item is in a list of results, and asked for with one of the replies.
Times(rs, i)        == Cardinality({k \in DOMAIN rs : rs[k].item = i})
Answers(w, i, kind) ==
  Cardinality({k \in DOMAIN replies[w] : batch[w][k] = i /\ replies[w][k].is \in kind})

\* How often the network's own tokens are listed; the native balance always once.
Listed(i) ==
  IF i = Native THEN 1
  ELSE Cardinality({k \in DOMAIN file : file[k].token = i /\ file[k].chain = Chain})

Failures == {"error", "null", "garbage"}

\* An item that is listed is asked for as often as it is listed and ends in the
\* answer as what the node said of it: a balance if it is positive, an error if the
\* node or the decoding failed, neither if there is nothing.  An unusable entry or
\* an error of one item loses no other item, and no other item appears.  A batch
\* that fails as a whole is one error and no balance, never an empty wallet
\* (evm_client.go:129-188, portfolio_service.go:354-397).
EveryItemTold ==
  \A w \in Wallets : pc[w] = "done" =>
    IF err[w] THEN balances[w] = <<>> /\ errors[w] = <<Bad("batch")>>
    ELSE \A i \in Items :
      /\ Answers(w, i, NativeReplies \cup TokenReplies) = Listed(i)
      /\ Times(balances[w], i) = Answers(w, i, {"some"})
      /\ Times(errors[w], i)   = Answers(w, i, Failures)

\* What is returned for a wallet was asked for that wallet, whatever the other
\* wallets' goroutines append to erc20MethodID between Prepare and the call.
OwnBalances ==
  \A w \in Wallets : \A k \in DOMAIN replies[w] : replies[w][k].of = w
=============================================================================
