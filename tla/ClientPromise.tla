---------------------------- MODULE ClientPromise ----------------------------
(***************************************************************************)
(* What port.BlockchainClientProvider promises: a call of GetClient takes  *)
(* effect at once.  It returns the client of its network, which stays the  *)
(* same once it exists, or an error that leaves no trace.                  *)
(***************************************************************************)
CONSTANTS
  Callers,     \* calls of GetClient, by the network goroutines of all requests
  Networks,    \* netDef.Name, the key of the cache
  NoClient,    \* a network without a client, a call without an answer
  DialError    \* the error of NewEVMClient

VARIABLES
  clients,     \* evmClientProvider.clients; a client is named by its maker
  got          \* what a call returned, and for which network

vars == <<clients, got>>

Nothing == [net |-> NoClient, client |-> NoClient]

Init == /\ clients = [n \in Networks |-> NoClient]
        /\ got = [c \in Callers |-> Nothing]

\* The cached client, or a new one that is cached with it.
GetClient(c, n) ==
  /\ got[c] = Nothing
  /\ clients' = [clients EXCEPT ![n] = IF @ = NoClient THEN c ELSE @]
  /\ got' = [got EXCEPT ![c] = [net |-> n, client |-> clients'[n]]]

GetClientFails(c, n) ==
  /\ got[c] = Nothing /\ clients[n] = NoClient
  /\ got' = [got EXCEPT ![c] = [net |-> n, client |-> DialError]]
  /\ UNCHANGED clients

Next == \E c \in Callers, n \in Networks : GetClient(c, n) \/ GetClientFails(c, n)

Spec == Init /\ [][Next]_vars
=============================================================================
