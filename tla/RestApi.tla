------------------------------- MODULE RestApi -------------------------------
(***************************************************************************)
(* The handlers of internal/infrastructure/restapi and the part of the     *)
(* portfolio service that decides what they answer: which networks a       *)
(* request is about, what is read from the files, which status and which   *)
(* message an error becomes, and which wallets are listed as failed.       *)
(*                                                                         *)
(* The wallet file and the token directory are read by every request, the  *)
(* one after the other, and may be edited at any time; the active networks *)
(* are fixed when the program starts.                                      *)
(***************************************************************************)
EXTENDS FiniteSets, Naturals

CONSTANTS
  Clients,      \* each makes one request
  Requests,     \* [route, address, networks]: see Request
  Wallets,      \* the wallets the file may list
  Addresses,    \* addresses in the spelling of a client
  WalletOf,     \* the wallet an address spells, up to case, or NoWallet
  NoWallet,
  Names,        \* names of networks in the spelling of a client, trimmed
  Blank,        \* the empty name
  Lower,        \* strings.ToLower of each name
  ActiveNets,   \* identifiers of the active networks, in lower case
  CfgNetworks   \* the names in cfg.Networks

\* networks is the query split at its commas, {} if it is absent or empty, and
\* the one name of the path for the route of a network.
Request == [route    : {"all", "wallet", "network", "failed"},
            address  : Addresses,
            networks : SUBSET Names]

ASSUME ApiAssumption ==
  /\ Requests \subseteq Request
  /\ \A q \in Requests : q.route = "network" => Cardinality(q.networks) = 1
  /\ WalletOf \in [Addresses -> Wallets \cup {NoWallet}] /\ NoWallet \notin Wallets
  /\ Wallets \cap {"wallets", "tokens"} = {}
  /\ Blank \in Names /\ CfgNetworks \subseteq Names
  /\ ActiveNets \subseteq {Lower[n] : n \in Names} \ {Lower[Blank]}

VARIABLES
  walletFile,   \* what data/wallets.txt lists, if it can be read
  readable,     \* which of "wallets" and "tokens" can be read
  failed,       \* failedWallets of the service
  pc, req,      \* where a client's request is, and what it asks
  wallets,      \* what the request found in the wallet file
  nets,         \* activeNetworkDefinitions of the request
  errs,         \* the errors of its fetch: wallets, or the file that failed
  answer

vars == <<walletFile, readable, failed, pc, req, wallets, nets, errs, answer>>

Files    == {"wallets", "tokens"}
NoReq    == [route |-> "none"]
Answer(status, message, list) == [status |-> status, message |-> message, list |-> list]
NoAnswer == Answer(0, "", {})

-----------------------------------------------------------------------------
(* The filter of networks. *)

\* /portfolios forgets blank names and falls back to the configuration only if
\* the query is absent; the other routes pass their names on as they are.
Tracked(q) ==
  IF q.route # "all" THEN q.networks
  ELSE (IF q.networks = {} THEN CfgNetworks ELSE q.networks) \ {Blank}

\* Without a name all active networks, else those named, whatever their case.
\* Bug: names are compared as they are.
ExactNets(q) ==
  IF Tracked(q) = {} THEN ActiveNets ELSE ActiveNets \cap Tracked(q)
ActiveNetworkDefinitions(q) ==
  IF Tracked(q) = {} THEN ActiveNets
  ELSE ActiveNets \cap {Lower[n] : n \in Tracked(q)}

-----------------------------------------------------------------------------
(* Status and message. *)

\* Nothing to fetch.  Bug: the early return is missing.
Continue(ns)   == FALSE
NoNetworks(ns) == ns = {}

\* Errors of FetchSingleWalletPortfolioByAddress; one has "not found" in its text.
StatusOf(error) == IF error = "wallet not found" THEN 404 ELSE 500

\* Bug: that there is no portfolio is asked first.
EmptyFirst(es, ps) == IF ps = {} THEN "empty" ELSE IF es # {} THEN "partial" ELSE "ok"
StatusMessage(es, ps) ==
  IF es # {} THEN (IF ps = {} THEN "failed" ELSE "partial")
  ELSE IF ps = {} THEN "empty" ELSE "ok"

-----------------------------------------------------------------------------
Init ==
  /\ walletFile \in SUBSET Wallets
  /\ readable \in SUBSET Files
  /\ failed = {}
  /\ pc = [c \in Clients |-> "idle"]
  /\ req = [c \in Clients |-> NoReq]
  /\ wallets = [c \in Clients |-> {}]
  /\ nets = [c \in Clients |-> {}]
  /\ errs = [c \in Clients |-> {}]
  /\ answer = [c \in Clients |-> NoAnswer]

EditFiles ==
  /\ walletFile' \in SUBSET Wallets
  /\ readable' \in SUBSET Files
  /\ UNCHANGED <<failed, pc, req, wallets, nets, errs, answer>>

Go(c, where) == pc' = [pc EXCEPT ![c] = where]
Say(c, a)    == answer' = [answer EXCEPT ![c] = a] /\ Go(c, "answered")

Receive(c) ==
  /\ pc[c] = "idle"
  /\ \E q \in Requests : req' = [req EXCEPT ![c] = q]
  /\ Go(c, IF req'[c].route = "failed" THEN "list" ELSE "wallets")
  /\ UNCHANGED <<walletFile, readable, failed, wallets, nets, errs, answer>>

\* /portfolios answers 200 whatever happened.
AnswerAll(c, es, ps) ==
  Say(c, Answer(200, StatusMessage(es, ps), {}))

\* GetWallets of the request for all, then its filter.
ReadAllWallets(c) ==
  /\ pc[c] = "wallets" /\ req[c].route = "all"
  /\ IF "wallets" \notin readable
       THEN /\ errs' = [errs EXCEPT ![c] = {"wallets"}]
            /\ AnswerAll(c, {"wallets"}, {})
            /\ UNCHANGED <<wallets, nets>>
       ELSE /\ wallets' = [wallets EXCEPT ![c] = walletFile]
            /\ nets' = [nets EXCEPT ![c] = ActiveNetworkDefinitions(req[c])]
            /\ IF NoNetworks(nets'[c]) THEN AnswerAll(c, {}, {})
               ELSE Go(c, "tokens") /\ UNCHANGED answer
            /\ UNCHANGED errs
  /\ UNCHANGED <<walletFile, readable, failed, req>>

\* GetWalletByAddress compares without case; every error of it becomes
\* "not found".  Then the filter of the one wallet's request.
ReadOneWallet(c) ==
  /\ pc[c] = "wallets" /\ req[c].route \in {"wallet", "network"}
  /\ LET found == IF "wallets" \in readable
                    THEN walletFile \cap {WalletOf[req[c].address]} ELSE {}
         active == ActiveNetworkDefinitions(req[c])
     IN /\ wallets' = [wallets EXCEPT ![c] = found]
        /\ nets' = [nets EXCEPT ![c] = IF found = {} THEN {} ELSE active]
        /\ IF found = {} THEN Say(c, Answer(StatusOf("wallet not found"), "error", {}))
           ELSE IF NoNetworks(active) THEN Say(c, Answer(StatusOf("no networks"), "error", {}))
           ELSE Go(c, "tokens") /\ UNCHANGED answer
        /\ errs' = [errs EXCEPT ![c] =
             IF "wallets" \in readable THEN {} ELSE {"wallets"}]
  /\ UNCHANGED <<walletFile, readable, failed, req>>

\* GetTokensByNetwork.
ReadTokens(c) ==
  /\ pc[c] = "tokens"
  /\ IF "tokens" \in readable
       THEN Go(c, "fetch") /\ UNCHANGED <<errs, answer>>
       ELSE /\ errs' = [errs EXCEPT ![c] = {"tokens"}]
            /\ IF req[c].route = "all" THEN AnswerAll(c, {"tokens"}, {})
               ELSE Say(c, Answer(StatusOf("tokens"), "error", {}))
  /\ UNCHANGED <<walletFile, readable, failed, req, wallets, nets>>

\* The fan-out: any of the wallets may have errors, and is marked before the
\* call returns.  Bug: only the request for all wallets marks them.
OnlyAllMark(c, bad) == IF req[c].route = "all" THEN failed \cup bad ELSE failed
Marked(c, bad)      == failed \cup bad

Fetch(c) ==
  /\ pc[c] = "fetch"
  /\ \E bad \in SUBSET wallets[c] :
       /\ errs' = [errs EXCEPT ![c] = bad]
       /\ failed' = Marked(c, bad)
  /\ Go(c, "respond")
  /\ UNCHANGED <<walletFile, readable, req, wallets, nets, answer>>

Respond(c) ==
  /\ pc[c] = "respond"
  /\ AnswerAll(c, errs[c], wallets[c])
  /\ UNCHANGED <<walletFile, readable, failed, req, wallets, nets, errs>>

GetFailedWallets(c) ==
  /\ pc[c] = "list"
  /\ Say(c, Answer(200, "list", failed))
  /\ UNCHANGED <<walletFile, readable, failed, req, wallets, nets, errs>>

Next ==
  \/ EditFiles
  \/ \E c \in Clients : \/ Receive(c) \/ ReadAllWallets(c) \/ ReadOneWallet(c)
                        \/ ReadTokens(c) \/ Fetch(c) \/ Respond(c)
                        \/ GetFailedWallets(c)

Spec == Init /\ [][Next]_vars

-----------------------------------------------------------------------------
(* Properties. *)

Answered(c)    == pc[c] = "answered"
IsRoute(c, rs) == req[c] # NoReq /\ req[c].route \in rs

Places   == {"idle", "wallets", "tokens", "fetch", "respond", "list", "answered"}
Messages == {"", "ok", "partial", "failed", "empty", "error", "list"}
Answers  == [status : {0, 200, 404, 500}, message : Messages, list : SUBSET Wallets]

\* Types, that an answer is there exactly when the request is answered, and that no
\* fan-out starts without a network.
ApiTypeOK ==
  /\ walletFile \subseteq Wallets /\ readable \subseteq Files /\ failed \subseteq Wallets
  /\ pc \in [Clients -> Places]
  /\ req \in [Clients -> Requests \cup {NoReq}]
  /\ wallets \in [Clients -> SUBSET Wallets] /\ nets \in [Clients -> SUBSET ActiveNets]
  /\ errs \in [Clients -> SUBSET (Wallets \cup Files)]
  /\ answer \in [Clients -> Answers]
  /\ \A c \in Clients :
       /\ req[c] = NoReq <=> pc[c] = "idle"
       /\ answer[c].status = 0 <=> ~Answered(c)
       /\ pc[c] \in {"tokens", "fetch", "respond"} => nets[c] # {}

\* A message never tells less than happened: "retrieved successfully" only if no
\* wallet of the answer has an error and there is one, "no portfolio data found"
\* only if no file failed, whatever happens to the files meanwhile.
MessageTells ==
  \A c \in Clients : Answered(c) =>
    /\ answer[c].message = "ok" => errs[c] = {} /\ wallets[c] # {}
    /\ answer[c].message = "empty" => errs[c] = {}
    /\ answer[c].message = "partial" => errs[c] \cap Wallets # {}
    /\ answer[c].message = "failed" => wallets[c] = {} \/ errs[c] \subseteq Files

\* A request that names networks is fetched from exactly the active ones it names,
\* in any case, on every route.  A filter that matches nothing never widens to all
\* networks and never reaches the fetch.
FilterKept ==
  \A c \in Clients : pc[c] \in {"fetch", "respond"} =>
    LET named == {Lower[n] : n \in req[c].networks \ {Blank}}
    IN named # {} => nets[c] = ActiveNets \cap named

\* A wallet whose error an answer has told is in every later list of failed
\* wallets, whichever route told it and whatever the file lists by then.
ToldThenListed ==
  [][\A c, d \in Clients :
       Answered(d) /\ IsRoute(c, {"failed"}) /\ ~Answered(c) /\ Answered(c)' =>
         errs[d] \cap Wallets \subseteq answer'[c].list]_vars

-----------------------------------------------------------------------------
(* What docs/swagger.yaml says and the handlers do not do. *)

\* docs/swagger.yaml:295, 404 of a network: "Wallet or Network not found, or no
\* data for this combination".
UnknownNetworkIs404 ==
  \A c \in Clients :
    Answered(c) /\ IsRoute(c, {"network"}) /\ wallets[c] # {} /\ nets[c] = {} =>
      answer[c].status = 404
=============================================================================
