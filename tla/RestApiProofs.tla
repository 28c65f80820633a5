---------------------------- MODULE RestApiProofs ----------------------------
(***************************************************************************)
(* What the handlers tell of failures stays consistent with the list of    *)
(* failed wallets: proofs for any clients, requests, wallets and filters.  *)
(***************************************************************************)
EXTENDS RestApi, TLAPS

\* The steps of one client's request.
ClientStep(c) == \/ Receive(c) \/ ReadAllWallets(c) \/ ReadOneWallet(c)
                 \/ ReadTokens(c) \/ Fetch(c) \/ Respond(c) \/ GetFailedWallets(c)

\* A filter selects active networks only.
LEMMA SomeActive == \A q : ActiveNetworkDefinitions(q) \subseteq ActiveNets
BY DEF ActiveNetworkDefinitions

\* A request is told from none.
LEMMA RealRequest == \A q \in Requests : q # NoReq
BY ApiAssumption DEF Request, NoReq

LEMMA AnswerType ==
  ASSUME NEW s \in {0, 200, 404, 500}, NEW m \in Messages, NEW l \in SUBSET Wallets
  PROVE  Answer(s, m, l) \in Answers /\ Answer(s, m, l).status = s
BY DEF Answer, Answers

LEMMA MessageType == \A es, ps : StatusMessage(es, ps) \in Messages
BY DEF StatusMessage, Messages

\* What an answer does to the types.
LEMMA SayType ==
  ASSUME ApiTypeOK, NEW c \in Clients, NEW a \in Answers, a.status # 0, Say(c, a)
  PROVE  /\ pc' \in [Clients -> Places] /\ answer' \in [Clients -> Answers]
         /\ pc' = [pc EXCEPT ![c] = "answered"]
         /\ \A d \in Clients : answer'[d].status = 0 <=> ~Answered(d)'
BY DEF ApiTypeOK, Say, Go, Places, Answered

\* What a step that does not answer does to them.
LEMMA GoType ==
  ASSUME ApiTypeOK, NEW c \in Clients, NEW p \in Places, p # "answered",
         pc[c] # "answered", Go(c, p), UNCHANGED answer
  PROVE  /\ pc' \in [Clients -> Places] /\ answer' \in [Clients -> Answers]
         /\ pc' = [pc EXCEPT ![c] = p]
         /\ \A d \in Clients : answer'[d].status = 0 <=> ~Answered(d)'
BY DEF ApiTypeOK, Go, Places, Answered

LEMMA InitType == Init => ApiTypeOK
<1> SUFFICES ASSUME Init PROVE ApiTypeOK
  OBVIOUS
<1>0. "" \in Messages /\ {} \in SUBSET Wallets
  BY DEF Messages
<1>1. NoAnswer \in Answers /\ NoAnswer.status = 0
  BY <1>0 DEF NoAnswer, Answer, Answers
<1> QED BY <1>1 DEF Init, ApiTypeOK, Answered, Places

\* Every step keeps the types.
LEMMA StepType == ApiTypeOK /\ [Next]_vars => ApiTypeOK'
<1> SUFFICES ASSUME ApiTypeOK, [Next]_vars PROVE ApiTypeOK'
  OBVIOUS
<1>1. CASE EditFiles
  BY <1>1 DEF ApiTypeOK, EditFiles, Answered
<1>2. ASSUME NEW c \in Clients, Receive(c) PROVE ApiTypeOK'
  <2>1. PICK q \in Requests : req' = [req EXCEPT ![c] = q]
    BY <1>2 DEF Receive
  <2>2. PICK p \in {"list", "wallets"} : Go(c, p)
    BY <1>2 DEF Receive
  <2>3. pc[c] = "idle" /\ UNCHANGED answer
    BY <1>2 DEF Receive
  <2>4. /\ pc' \in [Clients -> Places] /\ answer' \in [Clients -> Answers]
        /\ pc' = [pc EXCEPT ![c] = p]
        /\ \A d \in Clients : answer'[d].status = 0 <=> ~Answered(d)'
    BY <2>2, <2>3, GoType DEF Places
  <2> QED BY <1>2, <2>1, <2>2, <2>4, RealRequest DEF ApiTypeOK, Receive
<1>3. ASSUME NEW c \in Clients, ReadAllWallets(c) PROVE ApiTypeOK'
  <2>1. CASE "wallets" \notin readable
    <3>1. Say(c, Answer(200, StatusMessage({"wallets"}, {}), {}))
      BY <1>3, <2>1 DEF ReadAllWallets, AnswerAll
    <3>2. /\ pc' \in [Clients -> Places] /\ answer' \in [Clients -> Answers]
          /\ pc' = [pc EXCEPT ![c] = "answered"]
          /\ \A d \in Clients : answer'[d].status = 0 <=> ~Answered(d)'
      BY <3>1, SayType, AnswerType, MessageType
    <3> QED BY <1>3, <2>1, <3>2 DEF ApiTypeOK, ReadAllWallets, Files
  <2>2. CASE "wallets" \in readable
    <3>1. /\ wallets' = [wallets EXCEPT ![c] = walletFile]
          /\ nets' = [nets EXCEPT ![c] = ActiveNetworkDefinitions(req[c])]
          /\ pc[c] = "wallets" /\ UNCHANGED <<walletFile, readable, failed, req, errs>>
      BY <1>3, <2>2 DEF ReadAllWallets
    <3>2. nets'[c] = ActiveNetworkDefinitions(req[c])
      BY <3>1 DEF ApiTypeOK
    <3>3. CASE nets'[c] = {}
      <4>1. Say(c, Answer(200, StatusMessage({}, {}), {}))
        BY <1>3, <2>2, <3>3 DEF ReadAllWallets, AnswerAll, NoNetworks
      <4>2. /\ pc' \in [Clients -> Places] /\ answer' \in [Clients -> Answers]
            /\ pc' = [pc EXCEPT ![c] = "answered"]
            /\ \A d \in Clients : answer'[d].status = 0 <=> ~Answered(d)'
        BY <4>1, SayType, AnswerType, MessageType
      <4> QED BY <3>1, <4>2, SomeActive DEF ApiTypeOK
    <3>4. CASE nets'[c] # {}
      <4>1. Go(c, "tokens") /\ UNCHANGED answer
        BY <1>3, <2>2, <3>4 DEF ReadAllWallets, NoNetworks
      <4>2. /\ pc' \in [Clients -> Places] /\ answer' \in [Clients -> Answers]
            /\ pc' = [pc EXCEPT ![c] = "tokens"]
            /\ \A d \in Clients : answer'[d].status = 0 <=> ~Answered(d)'
        BY <3>1, <4>1, GoType DEF Places
      <4> QED BY <3>1, <3>4, <4>2, SomeActive DEF ApiTypeOK
    <3> QED BY <3>3, <3>4
  <2> QED BY <2>1, <2>2
<1>4. ASSUME NEW c \in Clients, ReadOneWallet(c) PROVE ApiTypeOK'
  <2> DEFINE found == IF "wallets" \in readable
                        THEN walletFile \cap {WalletOf[req[c].address]} ELSE {}
             active == ActiveNetworkDefinitions(req[c])
  <2>1. /\ wallets' = [wallets EXCEPT ![c] = found]
        /\ nets' = [nets EXCEPT ![c] = IF found = {} THEN {} ELSE active]
        /\ errs' = [errs EXCEPT ![c] = IF "wallets" \in readable THEN {} ELSE {"wallets"}]
        /\ pc[c] = "wallets" /\ UNCHANGED <<walletFile, readable, failed, req>>
    BY <1>4 DEF ReadOneWallet
  <2>2. /\ found \subseteq Wallets /\ active \subseteq ActiveNets
    BY SomeActive DEF ApiTypeOK
  <2>3. /\ wallets' \in [Clients -> SUBSET Wallets]
        /\ nets' \in [Clients -> SUBSET ActiveNets]
        /\ errs' \in [Clients -> SUBSET (Wallets \cup Files)]
        /\ found # {} => nets'[c] = active
    <3> HIDE DEF found, active
    <3> QED BY <2>1, <2>2 DEF ApiTypeOK, Files
  <2>4. CASE found = {} \/ active = {}
    <3>1. PICK s \in {404, 500} : Say(c, Answer(s, "error", {}))
      BY <1>4, <2>4 DEF ReadOneWallet, StatusOf, NoNetworks
    <3>a. "error" \in Messages /\ {} \in SUBSET Wallets
      BY DEF Messages
    <3>b. Answer(s, "error", {}) \in Answers /\ Answer(s, "error", {}).status = s
      BY <3>a, AnswerType
    <3>2. /\ pc' \in [Clients -> Places] /\ answer' \in [Clients -> Answers]
          /\ pc' = [pc EXCEPT ![c] = "answered"]
          /\ \A d \in Clients : answer'[d].status = 0 <=> ~Answered(d)'
      BY <3>1, <3>b, SayType
    <3> HIDE DEF found, active
    <3> QED BY <2>1, <2>3, <3>2 DEF ApiTypeOK
  <2>5. CASE found # {} /\ active # {}
    <3>1. Go(c, "tokens") /\ UNCHANGED answer
      BY <1>4, <2>5 DEF ReadOneWallet, NoNetworks
    <3>2. /\ pc' \in [Clients -> Places] /\ answer' \in [Clients -> Answers]
          /\ pc' = [pc EXCEPT ![c] = "tokens"]
          /\ \A d \in Clients : answer'[d].status = 0 <=> ~Answered(d)'
      BY <2>1, <3>1, GoType DEF Places
    <3> HIDE DEF found, active
    <3> QED BY <2>1, <2>3, <2>5, <3>2 DEF ApiTypeOK
  <2> QED BY <2>4, <2>5
<1>5. ASSUME NEW c \in Clients, ReadTokens(c) PROVE ApiTypeOK'
  <2>1. pc[c] = "tokens" /\ UNCHANGED <<walletFile, readable, failed, req, wallets, nets>>
    BY <1>5 DEF ReadTokens
  <2>2. CASE "tokens" \in readable
    <3>1. Go(c, "fetch") /\ UNCHANGED <<errs, answer>>
      BY <1>5, <2>2 DEF ReadTokens
    <3>2. /\ pc' \in [Clients -> Places] /\ answer' \in [Clients -> Answers]
          /\ pc' = [pc EXCEPT ![c] = "fetch"]
          /\ \A d \in Clients : answer'[d].status = 0 <=> ~Answered(d)'
      BY <2>1, <3>1, GoType DEF Places
    <3> QED BY <2>1, <3>1, <3>2 DEF ApiTypeOK
  <2>3. CASE "tokens" \notin readable
    <3>1. errs' = [errs EXCEPT ![c] = {"tokens"}]
      BY <1>5, <2>3 DEF ReadTokens
    <3>2. PICK s \in {200, 500}, m \in Messages : Say(c, Answer(s, m, {}))
      <4>1. CASE req[c].route = "all"
        BY <1>5, <2>3, <4>1, MessageType DEF ReadTokens, AnswerAll
      <4>2. CASE req[c].route # "all"
        <5>1. "error" \in Messages
          BY DEF Messages
        <5>2. Say(c, Answer(500, "error", {}))
          BY <1>5, <2>3, <4>2 DEF ReadTokens, StatusOf
        <5> QED BY <5>1, <5>2
      <4> QED BY <4>1, <4>2
    <3>3. /\ pc' \in [Clients -> Places] /\ answer' \in [Clients -> Answers]
          /\ pc' = [pc EXCEPT ![c] = "answered"]
          /\ \A d \in Clients : answer'[d].status = 0 <=> ~Answered(d)'
      BY <3>2, SayType, AnswerType
    <3> QED BY <2>1, <3>1, <3>3 DEF ApiTypeOK, Files
  <2> QED BY <2>2, <2>3
<1>6. ASSUME NEW c \in Clients, Fetch(c) PROVE ApiTypeOK'
  <2>1. PICK bad \in SUBSET wallets[c] : /\ errs' = [errs EXCEPT ![c] = bad]
                                        /\ failed' = failed \cup bad
    BY <1>6 DEF Fetch, Marked
  <2>2. bad \subseteq Wallets
    BY <2>1 DEF ApiTypeOK
  <2>3. /\ pc[c] = "fetch" /\ Go(c, "respond")
        /\ UNCHANGED <<walletFile, readable, req, wallets, nets, answer>>
    BY <1>6 DEF Fetch
  <2>4. /\ pc' \in [Clients -> Places] /\ answer' \in [Clients -> Answers]
        /\ pc' = [pc EXCEPT ![c] = "respond"]
        /\ \A d \in Clients : answer'[d].status = 0 <=> ~Answered(d)'
    BY <2>3, GoType DEF Places
  <2> QED BY <2>1, <2>2, <2>3, <2>4 DEF ApiTypeOK
<1>7. ASSUME NEW c \in Clients, Respond(c) PROVE ApiTypeOK'
  <2>1. Say(c, Answer(200, StatusMessage(errs[c], wallets[c]), {}))
    BY <1>7 DEF Respond, AnswerAll
  <2>2. /\ pc' \in [Clients -> Places] /\ answer' \in [Clients -> Answers]
        /\ pc' = [pc EXCEPT ![c] = "answered"]
        /\ \A d \in Clients : answer'[d].status = 0 <=> ~Answered(d)'
    BY <2>1, SayType, AnswerType, MessageType
  <2> QED BY <1>7, <2>2 DEF ApiTypeOK, Respond
<1>8. ASSUME NEW c \in Clients, GetFailedWallets(c) PROVE ApiTypeOK'
  <2>1. Say(c, Answer(200, "list", failed)) /\ failed \subseteq Wallets
    BY <1>8 DEF GetFailedWallets, ApiTypeOK
  <2>a. "list" \in Messages
    BY DEF Messages
  <2>b. Answer(200, "list", failed) \in Answers /\ Answer(200, "list", failed).status = 200
    BY <2>1, <2>a, AnswerType
  <2>2. /\ pc' \in [Clients -> Places] /\ answer' \in [Clients -> Answers]
        /\ pc' = [pc EXCEPT ![c] = "answered"]
        /\ \A d \in Clients : answer'[d].status = 0 <=> ~Answered(d)'
    BY <2>1, <2>b, SayType
  <2> QED BY <1>8, <2>2 DEF ApiTypeOK, GetFailedWallets
<1>9. CASE UNCHANGED vars
  BY <1>9 DEF vars, ApiTypeOK, Answered
<1> QED BY <1>1, <1>2, <1>3, <1>4, <1>5, <1>6, <1>7, <1>8, <1>9 DEF Next

\* The types of the handlers: in particular an answer is given once, at the end, and
\* a fan-out has a network.
THEOREM ApiTypeCorrect == Spec => []ApiTypeOK
BY InitType, StepType, PTL DEF Spec

-----------------------------------------------------------------------------

\* What a request knows of failures, the service knows too, and the request for the
\* list does nothing but read it.
ErrorsMarked == \A c \in Clients : errs[c] \cap Wallets \subseteq failed
ListOnly     == \A c \in Clients : IsRoute(c, {"failed"}) => pc[c] \in {"list", "answered"}

IInv == ApiTypeOK /\ ErrorsMarked /\ ListOnly

LEMMA InitMarked == Init => ErrorsMarked /\ ListOnly
BY DEF Init, ErrorsMarked, ListOnly, IsRoute

LEMMA StepMarked == IInv /\ [Next]_vars => ErrorsMarked' /\ ListOnly'
<1> SUFFICES ASSUME IInv, [Next]_vars PROVE ErrorsMarked' /\ ListOnly'
  OBVIOUS
<1> USE ApiAssumption DEF IInv, ErrorsMarked, ListOnly, IsRoute, ApiTypeOK
<1>1. CASE EditFiles
  BY <1>1 DEF EditFiles
<1>2. ASSUME NEW c \in Clients, Receive(c) PROVE ErrorsMarked' /\ ListOnly'
  BY <1>2 DEF Receive, Go
<1>3. ASSUME NEW c \in Clients, ReadAllWallets(c) PROVE ErrorsMarked' /\ ListOnly'
  BY <1>3 DEF ReadAllWallets, AnswerAll, Say, Go
<1>4. ASSUME NEW c \in Clients, ReadOneWallet(c) PROVE ErrorsMarked' /\ ListOnly'
  BY <1>4 DEF ReadOneWallet, Say, Go
<1>5. ASSUME NEW c \in Clients, ReadTokens(c) PROVE ErrorsMarked' /\ ListOnly'
  BY <1>5 DEF ReadTokens, AnswerAll, Say, Go
<1>6. ASSUME NEW c \in Clients, Fetch(c) PROVE ErrorsMarked' /\ ListOnly'
  BY <1>6 DEF Fetch, Marked, Go
<1>7. ASSUME NEW c \in Clients, Respond(c) PROVE ErrorsMarked' /\ ListOnly'
  BY <1>7 DEF Respond, AnswerAll, Say, Go
<1>8. ASSUME NEW c \in Clients, GetFailedWallets(c) PROVE ErrorsMarked' /\ ListOnly'
  BY <1>8 DEF GetFailedWallets, Say, Go
<1>9. CASE UNCHANGED vars
  BY <1>9 DEF vars
<1> QED BY <1>1, <1>2, <1>3, <1>4, <1>5, <1>6, <1>7, <1>8, <1>9 DEF Next

THEOREM MarkedInvariant == Spec => []IInv
BY InitType, StepType, InitMarked, StepMarked, PTL DEF Spec, IInv

\* Only GetFailedWallets answers a request for the list, with failedWallets as it is.
LEMMA ListIsCurrent ==
  ASSUME IInv, Next, NEW c \in Clients, IsRoute(c, {"failed"}),
         ~Answered(c), Answered(c)'
  PROVE  answer'[c].list = failed
<1> USE DEF IInv, ApiTypeOK, ListOnly, IsRoute, Answered
<1>1. pc[c] = "list" /\ pc'[c] = "answered"
  OBVIOUS
<1>2. CASE EditFiles
  BY <1>1, <1>2 DEF EditFiles
<1>3. ASSUME NEW d \in Clients, ClientStep(d), d # c PROVE FALSE
  BY <1>1, <1>3 DEF ClientStep, Receive, ReadAllWallets, ReadOneWallet, ReadTokens,
                    Fetch, Respond, GetFailedWallets, AnswerAll, Say, Go
<1>4. CASE ClientStep(c)
  BY <1>1, <1>4 DEF ClientStep, Receive, ReadAllWallets, ReadOneWallet, ReadTokens,
                    Fetch, Respond, GetFailedWallets, Say, Go, Answer
<1> QED BY <1>2, <1>3, <1>4 DEF Next, ClientStep

\* A wallet whose error an answer has told is in every later list of failed wallets.
THEOREM ToldIsListed == Spec => ToldThenListed
<1> DEFINE Listed(c, d) ==
      Answered(d) /\ IsRoute(c, {"failed"}) /\ ~Answered(c) /\ Answered(c)' =>
        errs[d] \cap Wallets \subseteq answer'[c].list
<1>1. ASSUME IInv, [Next]_vars PROVE [\A c, d \in Clients : Listed(c, d)]_vars
  <2>1. ASSUME Next, NEW c \in Clients, NEW d \in Clients PROVE Listed(c, d)
    BY <1>1, <2>1, ListIsCurrent DEF IInv, ErrorsMarked
  <2> QED BY <1>1, <2>1
<1> QED BY <1>1, MarkedInvariant, PTL DEF Spec, ToldThenListed

-----------------------------------------------------------------------------

\* A name other than the blank one selects the same networks whether blanks are
\* dropped before or not, as no active network has the blank name.
Named(q) == {Lower[n] : n \in q.networks \ {Blank}}

LEMMA FilterSelects ==
  ASSUME NEW q \in Requests, Named(q) # {}
  PROVE  ActiveNetworkDefinitions(q) = ActiveNets \cap Named(q)
<1>1. q.networks # {} /\ q.networks \ {Blank} # {} /\ Lower[Blank] \notin ActiveNets
  BY ApiAssumption DEF Named
<1>2. \/ Tracked(q) = q.networks
      \/ Tracked(q) = q.networks \ {Blank}
  BY <1>1 DEF Tracked
<1>3. ActiveNets \cap {Lower[n] : n \in q.networks} = ActiveNets \cap Named(q)
  BY <1>1 DEF Named
<1> QED BY <1>1, <1>2, <1>3 DEF ActiveNetworkDefinitions, Named

\* From the filter on a request keeps to the networks it names.
Filtered ==
  \A c \in Clients :
    pc[c] \in {"tokens", "fetch", "respond"} /\ Named(req[c]) # {} =>
      nets[c] = ActiveNets \cap Named(req[c])

\* There is no error before the fetch unless the request is answered with it, and
\* after it only wallets have errors.
Told(c) ==
  /\ pc[c] \in {"idle", "wallets", "tokens", "fetch", "list"} => errs[c] = {}
  /\ pc[c] = "respond" => errs[c] \subseteq wallets[c]
  /\ Answered(c) =>
       /\ answer[c].message = "ok" => errs[c] = {} /\ wallets[c] # {}
       /\ answer[c].message = "empty" => errs[c] = {}
       /\ answer[c].message = "partial" => errs[c] \cap Wallets # {}
       /\ answer[c].message = "failed" => wallets[c] = {} \/ errs[c] \subseteq Files

EveryoneTold == \A c \in Clients : Told(c)

LEMMA StepFiltered == ApiTypeOK /\ Filtered /\ [Next]_vars => Filtered'
<1> SUFFICES ASSUME ApiTypeOK, Filtered, [Next]_vars PROVE Filtered'
  OBVIOUS
<1> USE DEF ApiTypeOK, Filtered
<1>1. ASSUME NEW c \in Clients, ReadAllWallets(c) PROVE Filtered'
  <2>1. pc[c] = "wallets" /\ req[c] \in Requests /\ req' = req
    BY <1>1 DEF ReadAllWallets
  <2>2. CASE pc'[c] = "answered"
    BY <1>1, <2>1, <2>2 DEF ReadAllWallets, AnswerAll, Say, Go
  <2>3. CASE pc'[c] # "answered"
    <3>1. nets' = [nets EXCEPT ![c] = ActiveNetworkDefinitions(req[c])]
          /\ pc' = [pc EXCEPT ![c] = "tokens"]
      BY <1>1, <2>3 DEF ReadAllWallets, AnswerAll, Say, Go
    <3> QED BY <2>1, <3>1, FilterSelects
  <2> QED BY <2>2, <2>3
<1>2. ASSUME NEW c \in Clients, ReadOneWallet(c) PROVE Filtered'
  <2>1. pc[c] = "wallets" /\ req[c] \in Requests /\ req' = req
    BY <1>2 DEF ReadOneWallet
  <2>2. CASE pc'[c] = "answered"
    BY <1>2, <2>1, <2>2 DEF ReadOneWallet, Say, Go
  <2>3. CASE pc'[c] # "answered"
    <3>1. nets' = [nets EXCEPT ![c] = ActiveNetworkDefinitions(req[c])]
          /\ pc' = [pc EXCEPT ![c] = "tokens"]
      BY <1>2, <2>3 DEF ReadOneWallet, Say, Go
    <3> QED BY <2>1, <3>1, FilterSelects
  <2> QED BY <2>2, <2>3
<1>3. ASSUME NEW c \in Clients, Receive(c) PROVE Filtered'
  BY <1>3 DEF Receive, Go
<1>4. ASSUME NEW c \in Clients,
             ReadTokens(c) \/ Fetch(c) \/ Respond(c) \/ GetFailedWallets(c)
      PROVE  Filtered'
  BY <1>4 DEF ReadTokens, Fetch, Respond, GetFailedWallets, AnswerAll, Say, Go
<1>5. CASE EditFiles \/ UNCHANGED vars
  BY <1>5 DEF EditFiles, vars
<1> QED BY <1>1, <1>2, <1>3, <1>4, <1>5 DEF Next

\* A request that names networks is fetched from exactly the active ones it names,
\* in any case, on every route.
THEOREM FiltersAreKept == Spec => []FilterKept
<1>1. Init => Filtered
  BY DEF Init, Filtered
<1>2. Filtered => FilterKept
  BY DEF Filtered, FilterKept, Named
<1> QED BY <1>1, <1>2, ApiTypeCorrect, StepFiltered, PTL DEF Spec

\* What an answer of /portfolios says, told apart.
LEMMA MessageMeans ==
  ASSUME NEW es, NEW ps
  PROVE  /\ StatusMessage(es, ps) = "ok" => es = {} /\ ps # {}
         /\ StatusMessage(es, ps) = "empty" => es = {}
         /\ StatusMessage(es, ps) = "partial" => es # {}
         /\ StatusMessage(es, ps) = "failed" => ps = {}
BY DEF StatusMessage

LEMMA StepTold ==
  ApiTypeOK /\ EveryoneTold /\ [Next]_vars => EveryoneTold'
<1> SUFFICES ASSUME ApiTypeOK, EveryoneTold, [Next]_vars, NEW d \in Clients
             PROVE  Told(d)'
  BY DEF EveryoneTold
<1> USE DEF ApiTypeOK, EveryoneTold, Told, Answered
<1>1. CASE EditFiles \/ UNCHANGED vars
  BY <1>1 DEF EditFiles, vars
<1>2. ASSUME NEW c \in Clients, c # d, ClientStep(c) PROVE Told(d)'
  <2>1. /\ pc'[d] = pc[d] /\ errs'[d] = errs[d] /\ wallets'[d] = wallets[d]
        /\ answer'[d] = answer[d]
    <3>1. CASE ReadAllWallets(c)
      BY <1>2, <3>1 DEF ReadAllWallets, AnswerAll, Say, Go
    <3>2. CASE ReadOneWallet(c)
      BY <1>2, <3>2 DEF ReadOneWallet, Say, Go
    <3>3. CASE ReadTokens(c)
      BY <1>2, <3>3 DEF ReadTokens, AnswerAll, Say, Go
    <3>4. CASE Receive(c) \/ Fetch(c) \/ Respond(c) \/ GetFailedWallets(c)
      BY <1>2, <3>4 DEF Receive, Fetch, Respond, GetFailedWallets, AnswerAll, Say, Go
    <3> QED BY <1>2, <3>1, <3>2, <3>3, <3>4 DEF ClientStep
  <2> QED BY <2>1
<1>3. CASE Receive(d)
  BY <1>3 DEF Receive, Go
<1>4. CASE ReadAllWallets(d)
  <2>1. CASE "wallets" \notin readable
    <3>1. /\ errs'[d] = {"wallets"} /\ pc'[d] = "answered"
          /\ answer'[d].message = StatusMessage({"wallets"}, {})
      BY <1>4, <2>1 DEF ReadAllWallets, AnswerAll, Say, Go, Answer
    <3>2. answer'[d].message = "failed"
      BY <3>1 DEF StatusMessage
    <3> QED BY <3>1, <3>2 DEF Files
  <2>2. CASE "wallets" \in readable
    <3>1. errs'[d] = {} /\ pc'[d] \in {"tokens", "answered"}
      BY <1>4, <2>2 DEF ReadAllWallets, AnswerAll, Say, Go
    <3>2. pc'[d] = "answered" => answer'[d].message = StatusMessage({}, {})
      BY <1>4, <2>2 DEF ReadAllWallets, AnswerAll, Say, Go, Answer
    <3>3. StatusMessage({}, {}) = "empty"
      BY DEF StatusMessage
    <3> QED BY <3>1, <3>2, <3>3
  <2> QED BY <2>1, <2>2
<1>5. CASE ReadOneWallet(d)
  <2>1. \/ \E s \in {404, 500} : Say(d, Answer(s, "error", {}))
        \/ Go(d, "tokens") /\ pc[d] = "wallets" /\ "wallets" \in readable
    BY <1>5 DEF ReadOneWallet, StatusOf
  <2>2. CASE Go(d, "tokens") /\ pc[d] = "wallets" /\ "wallets" \in readable
    BY <1>5, <2>2 DEF ReadOneWallet, Go
  <2>3. ASSUME NEW s, Say(d, Answer(s, "error", {})) PROVE Told(d)'
    BY <2>3 DEF Say, Go, Answer
  <2> QED BY <2>1, <2>2, <2>3
<1>6. CASE ReadTokens(d)
  <2>1. CASE "tokens" \in readable
    BY <1>6, <2>1 DEF ReadTokens, Go
  <2>2. CASE "tokens" \notin readable
    <3>1. /\ errs'[d] = {"tokens"} /\ pc'[d] = "answered"
          /\ answer'[d].message \in {StatusMessage({"tokens"}, {}), "error"}
      BY <1>6, <2>2 DEF ReadTokens, AnswerAll, Say, Go, Answer
    <3>2. answer'[d].message \in {"failed", "error"}
      BY <3>1 DEF StatusMessage
    <3> QED BY <3>1, <3>2 DEF Files
  <2> QED BY <2>1, <2>2
<1>7. CASE Fetch(d)
  BY <1>7 DEF Fetch, Go
<1>8. CASE Respond(d)
  <2>1. /\ errs' = errs /\ wallets' = wallets /\ pc'[d] = "answered"
        /\ answer'[d].message = StatusMessage(errs[d], wallets[d])
        /\ errs[d] \subseteq wallets[d]
    BY <1>8 DEF Respond, AnswerAll, Say, Go, Answer
  <2> QED BY <2>1, MessageMeans
<1>9. CASE GetFailedWallets(d)
  BY <1>9 DEF GetFailedWallets, Say, Go, Answer
<1> QED BY <1>1, <1>2, <1>3, <1>4, <1>5, <1>6, <1>7, <1>8, <1>9 DEF Next, ClientStep

\* No message of /portfolios tells less than happened, whatever happens to the files
\* while the request runs.
THEOREM MessagesTell == Spec => []MessageTells
<1>1. Init => EveryoneTold
  BY DEF Init, EveryoneTold, Told, Answered
<1>2. EveryoneTold => MessageTells
  BY DEF EveryoneTold, Told, MessageTells
<1> QED BY <1>1, <1>2, ApiTypeCorrect, StepTold, PTL DEF Spec
=============================================================================
