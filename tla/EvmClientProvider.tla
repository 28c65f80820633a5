--------------------------- MODULE EvmClientProvider ---------------------------
(***************************************************************************)
(* GetClient of internal/infrastructure/network/client/                    *)
(* evm_client_provider.go with the NewEVMClient it calls: one mutex is     *)
(* held from the look into the cache to the end of the dial, which tries   *)
(* the primary URL of the network and then its fallbacks.                  *)
(*                                                                         *)
(* The callers are network goroutines of any requests; a client is named   *)
(* by the call that made it.  Whether a dial fails is open here: for the   *)
(* https URLs of providers.go DialContext opens no connection and does not *)
(* fail, but GetClient is written for URLs that do.                        *)
(***************************************************************************)
EXTENDS Naturals

CONSTANTS Callers, Networks, NoClient, DialError,
          Urls      \* the number of RPC URLs of a network

ASSUME ProviderAssumption ==
  /\ NoClient # DialError
  /\ NoClient \notin Callers \cup Networks /\ DialError \notin Callers
  /\ Urls \in [Networks -> Nat \ {0}]

VARIABLES
  at,         \* where a call is
  net,        \* the network it asks for
  mu,         \* evmClientProvider.mu is held
  url,        \* the URL a call dials
  clients,    \* evmClientProvider.clients
  result      \* what a call is about to return or has returned

providerVars == <<at, net, mu, url, clients, result>>

Inside == {"look", "dial", "unlock"}

ProviderInit ==
  /\ at = [c \in Callers |-> "idle"]
  /\ net \in [Callers -> Networks]
  /\ mu = FALSE
  /\ url = [c \in Callers |-> 0]
  /\ clients = [n \in Networks |-> NoClient]
  /\ result = [c \in Callers |-> NoClient]

Call(c) ==
  /\ at[c] = "idle"
  /\ at' = [at EXCEPT ![c] = "lock"]
  /\ UNCHANGED <<net, mu, url, clients, result>>

\* p.mu.Lock() goes through.  Bug: the cache is read without it.
NoLock   == TRUE
Unlocked == ~mu

Lock(c) ==
  /\ at[c] = "lock" /\ Unlocked
  /\ mu' = TRUE
  /\ at' = [at EXCEPT ![c] = "look"]
  /\ UNCHANGED <<net, url, clients, result>>

ReturnCached(c) ==
  /\ at[c] = "look" /\ clients[net[c]] # NoClient
  /\ result' = [result EXCEPT ![c] = clients[net[c]]]
  /\ at' = [at EXCEPT ![c] = "unlock"]
  /\ UNCHANGED <<net, mu, url, clients>>

\* NewEVMClient starts with the primary URL.
StartDial(c) ==
  /\ at[c] = "look" /\ clients[net[c]] = NoClient
  /\ url' = [url EXCEPT ![c] = 1]
  /\ at' = [at EXCEPT ![c] = "dial"]
  /\ UNCHANGED <<net, mu, clients, result>>

\* DialContext returned a client; GetClient caches it.
DialSucceeds(c) ==
  /\ at[c] = "dial"
  /\ clients' = [clients EXCEPT ![net[c]] = c]
  /\ result' = [result EXCEPT ![c] = c]
  /\ at' = [at EXCEPT ![c] = "unlock"]
  /\ UNCHANGED <<net, mu, url>>

\* DialContext returned an error: the next URL.
DialNext(c) ==
  /\ at[c] = "dial" /\ url[c] < Urls[net[c]]
  /\ url' = [url EXCEPT ![c] = @ + 1]
  /\ UNCHANGED <<at, net, mu, clients, result>>

\* The deferred p.mu.Unlock().  Bug: the return of the error skips it.
UnlockUnlessError(c) == result[c] = DialError
Unlock(c)            == FALSE

\* What a failed dial leaves in the cache.  Bug: the error's client, nil.
CacheFailure(c) == [clients EXCEPT ![net[c]] = DialError]
KeepCache(c)    == clients

\* It failed for the last URL: an error, which is not cached.
DialFails(c) ==
  /\ at[c] = "dial" /\ url[c] = Urls[net[c]]
  /\ result' = [result EXCEPT ![c] = DialError]
  /\ clients' = KeepCache(c)
  /\ at' = [at EXCEPT ![c] = "unlock"]
  /\ UNCHANGED <<net, mu, url>>

Return(c) ==
  /\ at[c] = "unlock"
  /\ mu' = Unlock(c)
  /\ at' = [at EXCEPT ![c] = "done"]
  /\ UNCHANGED <<net, url, clients, result>>

Step(c) == \/ Lock(c) \/ ReturnCached(c) \/ StartDial(c) \/ DialSucceeds(c)
           \/ DialNext(c) \/ DialFails(c) \/ Return(c)

\* Nobody calls any more.
Idle == (\A c \in Callers : at[c] = "done") /\ UNCHANGED providerVars

ProviderNext == (\E c \in Callers : Call(c) \/ Step(c)) \/ Idle

ProviderSpec == ProviderInit /\ [][ProviderNext]_providerVars

\* A goroutine that can run does, and a dial ends, by connectionTimeout at the
\* latest.  That is enough for Lock too: each of the other calls has the mutex only once.
ProviderFairSpec == ProviderSpec /\ \A c \in Callers : WF_providerVars(Step(c))

-----------------------------------------------------------------------------
(* Properties. *)

\* At most one call is between Lock and Unlock, and mu says whether one is.
OneInside ==
  /\ mu <=> \E c \in Callers : at[c] \in Inside
  /\ \A c, d \in Callers : at[c] \in Inside /\ at[d] \in Inside => c = d

\* The type invariant, with the mutex.
ProviderTypeOK ==
  /\ at \in [Callers -> {"idle", "lock", "done"} \cup Inside]
  /\ net \in [Callers -> Networks]
  /\ mu \in BOOLEAN
  /\ url \in [Callers -> Nat]
  /\ \A c \in Callers : url[c] <= Urls[net[c]]
  /\ clients \in [Networks -> Callers \cup {NoClient}]
  /\ result \in [Callers -> Callers \cup {NoClient, DialError}]
  /\ OneInside

\* Nobody dials a network that has a client, so that every call that got a
\* client of a network got the one in the cache, whoever made it (:47-62).
SameClient ==
  \A c \in Callers :
    /\ at[c] = "dial" => clients[net[c]] = NoClient
    /\ result[c] \notin {NoClient, DialError} => result[c] = clients[net[c]]

\* A call takes effect when its result is there.
Promise == INSTANCE ClientPromise WITH
  got <- [c \in Callers |-> IF result[c] = NoClient
                            THEN [net |-> NoClient, client |-> NoClient]
                            ELSE [net |-> net[c], client |-> result[c]]]

\* GetClient is atomic to its callers, though it may dial several URLs in between:
\* this is what PortfolioService assumes of it.
Atomic == Promise!Spec

\* Every call returns, though it may wait for the dials of other networks, all
\* of whose URLs may fail (:43-45, evm_client.go:60-78).
EveryCallReturns == \A c \in Callers : at[c] = "lock" ~> at[c] = "done"
=============================================================================
