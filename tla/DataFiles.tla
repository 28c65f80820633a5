----------------------------- MODULE DataFiles -----------------------------
(***************************************************************************)
(* The files of data/ and who reads them when.  The names of the token     *)
(* files activate networks once, at the start (NewNetworkDefinition-       *)
(* Provider); the price load then reads the files for the tokens it asks   *)
(* prices for; every request reads them again, file by file after one      *)
(* listing of the directory (GetTokensByNetwork), and the wallet file      *)
(* before.  The operator edits the files at any time.                      *)
(***************************************************************************)
EXTENDS Integers, Lists

CONSTANTS
  Known,         \* allKnownDefinitions
  Names,         \* names in data/tokens, in the order of os.ReadDir
  Contents,      \* what each of them may hold: entries [token, chain], or
  Absent,        \* the file is not there
  Broken,        \* it is, but cannot be read or parsed
  WalletFiles,   \* contents of data/wallets.txt: lines [is, wallet, form]
  Load,          \* the reader that is the price load of the start
  Requests,      \* the readers that are requests
  MaxEdits       \* bound: how often the files are edited

Files    == DOMAIN Names
WalletsTxt == 0
Ids      == {d.id : d \in Known}
Readers  == {Load} \cup Requests

\* A name is given as its stem, as written, its stem in lower case (the
\* identifier it may activate), and whether it ends in .json in any case.
\* Definitions differ in everything a map is keyed by.  A file is a list.
ASSUME FilesAssumption ==
  /\ Names \in Seq([stem : STRING, id : STRING, json : BOOLEAN])
  /\ \A d, e \in Known : d # e => /\ d.id # e.id /\ d.chain # e.chain
                                  /\ d.name # e.name /\ d.dex # e.dex
  /\ \A i \in Files : \A c \in Contents[i] \ {Absent, Broken} : c \in Seq(ToSet(c))
  /\ \A f \in WalletFiles : f \in Seq(ToSet(f))
  /\ Load \notin Requests /\ MaxEdits \in Nat

DefOf(id) == CHOOSE d \in Known : d.id = id

VARIABLES
  stage,        \* of the process: "start", "active", "load", "serve", "fatal"
  dir,          \* the token files
  walletFile,   \* the lines of data/wallets.txt
  active,       \* activeNetworkDefs, as identifiers
  pc,           \* where a reader is
  asks,         \* the address a request asks for, or all
  wallets,      \* the addresses it found, as the file writes them
  nets,         \* the networks whose tokens it asks for
  todo,         \* the files it has listed and not read
  tokens,       \* tokensByChainID, by identifier
  touched,      \* history: the files edited since it listed them
  edits         \* how many edits there were

fileVars   == <<dir, walletFile>>
readerVars == <<pc, asks, wallets, nets, todo, tokens>>
history    == <<touched, edits>>
vars       == <<stage, fileVars, active, readerVars, history>>

-----------------------------------------------------------------------------
(* What is made of the files. *)

Present   == {i \in Files : dir[i] # Absent}
InOrder(S) == Keep([i \in Files |-> i], S)

\* A .json file activates the network its lower-case name identifies, the first
\* of several names for it alone.  Bug: duplicates are not skipped.
ActivatesEach(i) == Names[i].json /\ Names[i].id \in Ids
Activates(i) ==
  /\ Names[i].json /\ Names[i].id \in Ids
  /\ \A j \in Present : j < i /\ Names[j].json => Names[j].id # Names[i].id

\* The loader looks the name up as it is written.
NamesIt(i, id) == Names[i].json /\ Names[i].stem = id

\* The entries of a file that stay: those of the network's chain.  Bug: every one.
AllEntries(content, id) == content
OwnEntries(content, id) ==
  Keep(content, {e \in ToSet(content) : e.chain = DefOf(id).chain})

\* A line that is blank, a comment or not 0x and 40 characters is skipped; one
\* that is too long for the scanner fails the whole file.
Addresses(lines) == Keep(lines, {l \in ToSet(lines) : l.is = "address"})
Scans(lines)     == \A k \in DOMAIN lines : lines[k].is # "endless"

\* GetWalletByAddress: the first line that spells the address in any case.
\* Bug: the address must be spelled alike.
SpeltAlike(lines, a) ==
  {k \in DOMAIN Addresses(lines) : Addresses(lines)[k] = a}
Spelt(lines, a) ==
  {k \in DOMAIN Addresses(lines) : Addresses(lines)[k].wallet = a.wallet}
Found(lines, a)    == IF Spelt(lines, a) = {} THEN 0 ELSE Min(Spelt(lines, a))
Returned(lines, a) == Addresses(lines)[Found(lines, a)]

-----------------------------------------------------------------------------
Everything == [is |-> "all"]
Spellings  == {a \in UNION {ToSet(f) : f \in WalletFiles} : a.is = "address"}
NoTokens   == [id \in Ids |-> <<>>]

Init ==
  /\ stage = "start" /\ active = <<>>
  /\ dir \in {d \in [Files -> UNION {Contents[i] : i \in Files}] :
               \A i \in Files : d[i] \in Contents[i]}
  /\ walletFile \in WalletFiles
  /\ pc      = [r \in Readers |-> "idle"]
  /\ asks    = [r \in Readers |-> Everything]
  /\ wallets = [r \in Readers |-> <<>>]
  /\ nets    = [r \in Readers |-> {}]
  /\ todo    = [r \in Readers |-> <<>>]
  /\ tokens  = [r \in Readers |-> NoTokens]
  /\ touched = [r \in Readers |-> {}] /\ edits = 0

\* NewNetworkDefinitionProvider; a directory it cannot read is no network.
Activate ==
  /\ stage = "start" /\ stage' = "active"
  /\ \/ active' = <<>>
     \/ active' = [k \in DOMAIN InOrder({i \in Present : Activates(i)}) |->
                     Names[InOrder({i \in Present : Activates(i)})[k]].id]
  /\ UNCHANGED <<fileVars, readerVars, history>>

\* os.ReadDir, and of it the files that name a network in ids.
List(r, ids) ==
  /\ nets' = [nets EXCEPT ![r] = ids]
  /\ todo' = [todo EXCEPT ![r] =
       InOrder({i \in Present : \E id \in ids : NamesIt(i, id)})]
  /\ touched' = [touched EXCEPT ![r] = @ \cap {WalletsTxt}]
  /\ pc' = [pc EXCEPT ![r] = "files"]
  /\ UNCHANGED <<fileVars, active, asks, wallets, tokens, edits>>

\* The price load asks for the tokens of all active networks.  Bug: of the first.
FirstActive == {active[1]}
AllActive   == ToSet(active)

\* LoadAndCacheTokenPrices: without networks there is nothing to load, without a
\* directory main.go ends.
StartLoad ==
  /\ stage = "active"
  /\ \/ /\ active = <<>> /\ stage' = "serve"
        /\ UNCHANGED <<fileVars, active, readerVars, history>>
     \/ /\ active # <<>> /\ stage' = "load"
        /\ List(Load, AllActive)
     \/ /\ active # <<>> /\ stage' = "fatal"
        /\ UNCHANGED <<fileVars, active, readerVars, history>>

Done(r) == pc[r] = "files" /\ todo[r] = <<>>

FinishLoad ==
  /\ stage = "load" /\ Done(Load)
  /\ stage' = "serve"
  /\ UNCHANGED <<fileVars, active, readerVars, history>>

\* One os.ReadFile.  Bug: a file that is gone or broken ends the loop.
LeaveLoop(rest) == <<>>
Continue(rest)  == rest

ReadFile(r) ==
  /\ pc[r] = "files" /\ todo[r] # <<>>
  /\ LET i == Head(todo[r])
         id == CHOOSE n \in nets[r] : NamesIt(i, n)
     IN IF dir[i] \in {Absent, Broken}
          THEN /\ todo' = [todo EXCEPT ![r] = Continue(Tail(@))]
               /\ UNCHANGED tokens
          ELSE /\ todo' = [todo EXCEPT ![r] = Tail(@)]
               /\ tokens' = [tokens EXCEPT ![r][id] = @ \o OwnEntries(dir[i], id)]
  /\ UNCHANGED <<stage, fileVars, active, pc, asks, wallets, nets, history>>

\* GetWallets for all wallets, or GetWalletByAddress for one.
ReadWallets(r) ==
  /\ stage = "serve" /\ pc[r] = "idle"
  /\ \E a \in Spellings \cup {Everything} :
       /\ asks' = [asks EXCEPT ![r] = a]
       /\ IF ~Scans(walletFile)
            THEN pc' = [pc EXCEPT ![r] = "failed"] /\ UNCHANGED wallets
          ELSE IF a = Everything
            THEN /\ pc' = [pc EXCEPT ![r] = "tokens"]
                 /\ wallets' = [wallets EXCEPT ![r] = Addresses(walletFile)]
          ELSE IF Found(walletFile, a) = 0
            THEN pc' = [pc EXCEPT ![r] = "unknown"] /\ UNCHANGED wallets
            ELSE /\ pc' = [pc EXCEPT ![r] = "tokens"]
                 /\ wallets' = [wallets EXCEPT ![r] = <<Returned(walletFile, a)>>]
  /\ UNCHANGED <<stage, fileVars, active, nets, todo, tokens, history>>

\* The request asks for the active networks its filter leaves.  It ends without a
\* network to ask for, or without a directory.
ListTokens(r) ==
  /\ stage = "serve" /\ pc[r] = "tokens"
  /\ \/ \E ids \in SUBSET ToSet(active) \ {{}} : List(r, ids)
     \/ /\ pc' = [pc EXCEPT ![r] = "failed"]
        /\ UNCHANGED <<fileVars, active, asks, wallets, nets, todo, tokens, history>>
  /\ UNCHANGED stage

\* An edit before the start is another initial state.
Touch(i) ==
  /\ stage # "start" /\ edits < MaxEdits /\ edits' = edits + 1
  /\ touched' = [r \in Readers |->
       IF pc[r] = "idle" THEN {} ELSE touched[r] \cup {i}]

EditTokens(i) ==
  /\ \E c \in Contents[i] \ {dir[i]} : dir' = [dir EXCEPT ![i] = c]
  /\ Touch(i)
  /\ UNCHANGED <<stage, walletFile, active, readerVars>>

EditWallets ==
  /\ walletFile' \in WalletFiles \ {walletFile}
  /\ Touch(WalletsTxt)
  /\ UNCHANGED <<stage, dir, active, readerVars>>

Next ==
  \/ Activate \/ StartLoad \/ FinishLoad
  \/ \E r \in Readers : ReadFile(r)
  \/ \E r \in Requests : ReadWallets(r) \/ ListTokens(r)
  \/ (\E i \in Files : EditTokens(i)) \/ EditWallets

Spec == Init /\ [][Next]_vars

-----------------------------------------------------------------------------
(* Properties. *)

\* However many files name a network, in whatever case, it is active once, and
\* shares no chain, price table or name in a portfolio with another one: nothing
\* is fetched or counted twice (providers.go:311).
ActiveApart ==
  \A j, k \in DOMAIN active : j # k =>
    LET d == DefOf(active[j])  e == DefOf(active[k])
    IN d.id # e.id /\ d.chain # e.chain /\ d.name # e.name /\ d.dex # e.dex

\* The type invariant: what is active is known and apart.
FilesTypeOK ==
  /\ stage \in {"start", "active", "load", "serve", "fatal"}
  /\ \A i \in Files : dir[i] \in Contents[i]
  /\ walletFile \in WalletFiles
  /\ ToSet(active) \subseteq Ids /\ ActiveApart
  /\ pc \in [Readers -> {"idle", "tokens", "files", "failed", "unknown"}]
  /\ asks \in [Readers -> Spellings \cup {Everything}]
  /\ \A r \in Readers : /\ ToSet(wallets[r]) \subseteq Spellings
                        /\ nets[r] \subseteq ToSet(active)
                        /\ ToSet(todo[r]) \subseteq Files
                        /\ DOMAIN tokens[r] = Ids
                        /\ touched[r] \subseteq Files \cup {WalletsTxt}
  /\ edits \in 0..MaxEdits

\* What a reader has of a network are tokens on the network's chain, of networks
\* it asked for, whatever the files say of each other's tokens (loader.go:89).
OwnTokens ==
  \A r \in Readers, id \in Ids : \A e \in ToSet(tokens[r][id]) :
    e.chain = DefOf(id).chain /\ id \in nets[r]

\* The files spelled like a network, and what they hold of it.
FilesOf(id) == {i \in Files : Names[i].json /\ Names[i].stem = id}
Holds(i, id) ==
  IF dir[i] \in {Absent, Broken} THEN <<>>
  ELSE Keep(dir[i], {e \in ToSet(dir[i]) : e.chain = DefOf(id).chain})

\* A reader that is done has of a network exactly what its files hold, each entry
\* once, if nobody touched them since the directory was listed: files that vanish,
\* break or name other networks cost it nothing (loader.go:50-111).
SteadyFilesWhole ==
  \A r \in Readers : Done(r) =>
    \A id \in nets[r] : FilesOf(id) \cap touched[r] = {} =>
      LET of == InOrder(FilesOf(id))
      IN tokens[r][id] = FlattenSeq([k \in DOMAIN of |-> Holds(of[k], id)])

\* Prices are loaded once, for the tokens the files held at the start: a token a
\* later request finds was asked for then, unless one of its network's files was
\* edited since (token_price_service.go:89-101, loader.go:37).
PricedUnlessEdited ==
  \A r \in Requests, id \in Ids :
    FilesOf(id) \cap touched[Load] = {} =>
      ToSet(tokens[r][id]) \subseteq ToSet(tokens[Load][id])

\* An address is unknown only if the file that was read has it in no spelling, and
\* a request works under the spelling of the file, so that failedWallets has one
\* key per line and not one per client (loader.go:74, portfolio_service.go:464).
ListedIsFound ==
  \A r \in Requests : WalletsTxt \notin touched[r] =>
    /\ pc[r] = "unknown" => \A l \in ToSet(walletFile) :
         l.is = "address" => l.wallet # asks[r].wallet
    /\ ToSet(wallets[r]) \subseteq ToSet(walletFile)
=============================================================================
