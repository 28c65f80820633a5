-------------------------- MODULE DataFilesProofs --------------------------
(***************************************************************************)
(* Proofs about DataFiles, for any files, networks, readers and edits.     *)
(***************************************************************************)
EXTENDS DataFiles, FoldLemmas

-----------------------------------------------------------------------------
(* The inductive invariant. *)

\* What the files may hold of tokens, and the files as a list.
Entries  == UNION {ToSet(c) : c \in (UNION {Contents[i] : i \in Files}) \ {Absent, Broken}}
AllFiles == [i \in Files |-> i]

DataTypes ==
  /\ stage \in {"start", "active", "load", "serve", "fatal"}
  /\ DOMAIN dir = Files /\ \A i \in Files : dir[i] \in Contents[i]
  /\ walletFile \in WalletFiles
  /\ active \in Seq(Ids) /\ ActiveApart
  /\ pc \in [Readers -> {"idle", "tokens", "files", "failed", "unknown"}]
  /\ asks \in [Readers -> Spellings \cup {Everything}]
  /\ wallets \in [Readers -> Seq(Spellings)]
  /\ nets \in [Readers -> SUBSET ToSet(active)]
  /\ todo \in [Readers -> Seq(Files)]
  /\ tokens \in [Readers -> [Ids -> Seq(Entries)]]
  /\ touched \in [Readers -> SUBSET (Files \cup {WalletsTxt})]
  /\ edits \in 0..MaxEdits

\* Nobody reads before there are networks, the price load first, and no request
\* before it is done.
Phases ==
  /\ stage = "start" => active = <<>>
  /\ stage \in {"start", "active", "fatal"} => \A r \in Readers : pc[r] = "idle"
  /\ stage = "load" => pc[Load] = "files" /\ \A r \in Requests : pc[r] = "idle"
  /\ stage = "serve" => active = <<>> \/ Done(Load)
  /\ pc[Load] = "idle" \/ (pc[Load] = "files" /\ nets[Load] = ToSet(active))

\* Who has not listed the directory has nothing of it, and who has not read the
\* wallets has none; a file that is still to read names a network that is asked for.
Untouched ==
  \A r \in Readers :
    /\ pc[r] # "files" => nets[r] = {} /\ todo[r] = <<>>
    /\ pc[r] = "idle" => wallets[r] = <<>>
    /\ \A i \in ToSet(todo[r]) : \E id \in nets[r] : NamesIt(i, id)

\* What a network's files hold, one after the other, is what a reader has of them
\* and what it has still to read, as long as nobody touches them.
Holding(id) == [i \in Files |-> IF i \in FilesOf(id) THEN Holds(i, id) ELSE <<>>]
Halves ==
  \A r \in Readers : pc[r] = "files" =>
    \A id \in nets[r] : FilesOf(id) \cap touched[r] = {} =>
      tokens[r][id] \o Gather(Holding(id), todo[r]) = Gather(Holding(id), AllFiles)

IInv == /\ DataTypes /\ Phases /\ Untouched /\ Halves
        /\ OwnTokens /\ PricedUnlessEdited /\ ListedIsFound

-----------------------------------------------------------------------------
(* What the operators make of the files. *)

LEMMA DefOfKnown ==
  ASSUME NEW id \in Ids
  PROVE  DefOf(id) \in Known /\ DefOf(id).id = id
<1>1. \E d \in Known : d.id = id
  BY DEF Ids
<1> QED BY <1>1 DEF DefOf

LEMMA FilesNumbered ==
  /\ Files = 1..Len(Names) /\ Len(Names) \in Nat
  /\ AllFiles \in Seq(Files) /\ ToSet(AllFiles) = Files
  /\ WalletsTxt \notin Files
<1>1. Names \in Seq([stem : STRING, id : STRING, json : BOOLEAN])
  BY FilesAssumption
<1>2. Files = 1..Len(Names) /\ Len(Names) \in Nat
  BY <1>1 DEF Files
<1>3. AllFiles = [i \in 1..Len(Names) |-> i]
  BY <1>2 DEF AllFiles
<1>4. AllFiles \in Seq(Files) /\ ToSet(AllFiles) = Files
  BY <1>2, <1>3 DEF ToSet
<1> QED BY <1>2, <1>4 DEF WalletsTxt

\* Files in order are those files, none twice.
LEMMA OrderedFiles ==
  ASSUME NEW S
  PROVE  /\ InOrder(S) \in Seq(Files) /\ ToSet(InOrder(S)) = Files \cap S
         /\ \A j, k \in DOMAIN InOrder(S) : j # k => InOrder(S)[j] # InOrder(S)[k]
<1>1. InOrder(S) = Keep(AllFiles, S)
  BY DEF InOrder, AllFiles
<1>2. AllFiles \in Seq(Files) /\ ToSet(AllFiles) = Files
  BY FilesNumbered
<1>3. \A i, j \in DOMAIN AllFiles : i # j => AllFiles[i] # AllFiles[j]
  BY DEF AllFiles
<1>4. Keep(AllFiles, S) \in Seq(Files) /\ ToSet(Keep(AllFiles, S)) = Files \cap S
  BY <1>2, KeepCounts
<1>5. \A j, k \in DOMAIN Keep(AllFiles, S) :
        j # k => Keep(AllFiles, S)[j] # Keep(AllFiles, S)[k]
  BY <1>2, <1>3, KeepApart
<1> QED BY <1>1, <1>4, <1>5

\* The entries of a file that stay are on the network's chain.
LEMMA EntriesStay ==
  ASSUME NEW i \in Files, NEW c \in Contents[i], c \notin {Absent, Broken}, NEW id \in Ids
  PROVE  /\ OwnEntries(c, id) \in Seq(Entries)
         /\ ToSet(OwnEntries(c, id)) = {e \in ToSet(c) : e.chain = DefOf(id).chain}
<1> DEFINE S == {e \in ToSet(c) : e.chain = DefOf(id).chain}
<1>1. c \in Seq(ToSet(c)) /\ ToSet(c) \subseteq Entries
  <2>1. c \in (UNION {Contents[j] : j \in Files}) \ {Absent, Broken}
    OBVIOUS
  <2>2. ToSet(c) \subseteq Entries
    BY <2>1 DEF Entries
  <2>3. c \in Seq(ToSet(c))
    BY FilesAssumption
  <2> QED BY <2>2, <2>3
<1>2. c \in Seq(Entries) /\ ToSet(c) \cap S = S
  BY <1>1
<1> HIDE DEF S
<1>3. Keep(c, S) \in Seq(Entries) /\ ToSet(Keep(c, S)) = ToSet(c) \cap S
  BY <1>2, KeepCounts
<1> QED BY <1>2, <1>3 DEF OwnEntries, S

LEMMA HoldingType ==
  ASSUME DataTypes, NEW id \in Ids
  PROVE  /\ Holding(id) \in [Files -> Seq(Entries)]
         /\ \A i \in Files : dir[i] \notin {Absent, Broken} =>
              Holds(i, id) = OwnEntries(dir[i], id)
<1>1. ASSUME NEW i \in Files PROVE Holds(i, id) \in Seq(Entries)
  <2>1. CASE dir[i] \in {Absent, Broken}
    BY <2>1 DEF Holds
  <2>2. CASE dir[i] \notin {Absent, Broken}
    <3>1. Holds(i, id) = OwnEntries(dir[i], id) /\ dir[i] \in Contents[i]
      BY <2>2 DEF Holds, OwnEntries, DataTypes
    <3> QED BY <2>2, <3>1, EntriesStay
  <2> QED BY <2>1, <2>2
<1>2. <<>> \in Seq(Entries)
  OBVIOUS
<1>3. \A i \in Files : dir[i] \notin {Absent, Broken} =>
              Holds(i, id) = OwnEntries(dir[i], id)
  BY DEF Holds, OwnEntries
<1> QED BY <1>1, <1>2, <1>3 DEF Holding

\* The addresses of a wallet file.
LEMMA AddressesListed ==
  ASSUME NEW f \in WalletFiles
  PROVE  /\ Addresses(f) \in Seq(Spellings)
         /\ ToSet(Addresses(f)) = {l \in ToSet(f) : l.is = "address"}
<1> DEFINE S == {l \in ToSet(f) : l.is = "address"}
<1>1. f \in Seq(ToSet(f)) /\ S \subseteq Spellings /\ ToSet(f) \cap S = S
  BY FilesAssumption DEF Spellings
<1> HIDE DEF S
<1>2. Keep(f, S) \in Seq(ToSet(f)) /\ ToSet(Keep(f, S)) = S
  BY <1>1, KeepCounts
<1>3. Keep(f, S) \in Seq(Spellings)
  <2> DEFINE q == Keep(f, S)
  <2>1. q \in Seq(ToSet(f)) /\ ToSet(q) \subseteq Spellings
    BY <1>1, <1>2
  <2> HIDE DEF q
  <2>2. \A k \in DOMAIN q : q[k] \in Spellings
    BY <2>1 DEF ToSet
  <2>3. q \in Seq(Spellings)
    BY <2>1, <2>2
  <2> QED BY <2>3 DEF q
<1> QED BY <1>2, <1>3 DEF Addresses, S

\* An address is found if a line spells it.
LEMMA FoundListed ==
  ASSUME NEW f \in WalletFiles, NEW a
  PROVE  /\ Found(f, a) # 0 => Returned(f, a) \in ToSet(Addresses(f))
         /\ Found(f, a) = 0 => \A l \in ToSet(Addresses(f)) : l.wallet # a.wallet
<1> DEFINE q == Addresses(f)
           I == {k \in DOMAIN q : q[k].wallet = a.wallet}
<1>1. q \in Seq(Spellings) /\ DOMAIN q = 1..Len(q) /\ Len(q) \in Nat
  BY AddressesListed
<1>2. Found(f, a) = IF I # {} THEN Min(I) ELSE 0
  BY DEF Found, Spelt
<1>3. I # {} => Min(I) \in I
  <2>1. I \in SUBSET Nat
    BY <1>1
  <2> HIDE DEF I
  <2> SUFFICES ASSUME I # {} PROVE Min(I) \in I
    OBVIOUS
  <2>2. \E n \in I : \A m \in I : n <= m
    BY <2>1, LeastNatural
  <2>3. Min(I) = CHOOSE n \in I : \A m \in I : n <= m
    BY DEF Min
  <2> QED BY <2>2, <2>3
<1>4. 0 \notin I
  BY <1>1
<1>5. I # {} => q[Min(I)] \in ToSet(q)
  BY <1>3 DEF ToSet
<1>6. I = {} => \A l \in ToSet(q) : l.wallet # a.wallet
  BY DEF ToSet
<1>7. Returned(f, a) = q[Found(f, a)]
  BY DEF Returned
<1> HIDE DEF I, q
<1> QED BY <1>2, <1>3, <1>4, <1>5, <1>6, <1>7 DEF q

-----------------------------------------------------------------------------
(* The steps. *)

LEMMA InitIInv == Init => IInv
<1> SUFFICES ASSUME Init PROVE IInv
  OBVIOUS
<1> USE DEF Init
<1>1. ToSet(<<>>) = {}
  BY DEF ToSet
<1>2. DataTypes
  <2>1. active \in Seq(Ids) /\ ActiveApart
    BY DEF ActiveApart
  <2>2. /\ wallets \in [Readers -> Seq(Spellings)] /\ todo \in [Readers -> Seq(Files)]
        /\ tokens \in [Readers -> [Ids -> Seq(Entries)]]
    BY DEF NoTokens
  <2>3. edits \in 0..MaxEdits
    BY FilesAssumption
  <2> QED BY <2>1, <2>2, <2>3 DEF DataTypes
<1>3. Phases
  BY DEF Phases, Readers
<1>4. Untouched
  BY <1>1 DEF Untouched
<1>5. Halves
  BY DEF Halves
<1>6. OwnTokens
  BY <1>1 DEF OwnTokens, NoTokens
<1>7. PricedUnlessEdited
  BY <1>1 DEF PricedUnlessEdited, NoTokens, Readers
<1>8. ListedIsFound
  BY <1>1 DEF ListedIsFound, Readers
<1> QED BY <1>2, <1>3, <1>4, <1>5, <1>6, <1>7, <1>8 DEF IInv

\* What the networks' files hold changes only by an edit of them.
LEMMA HoldingStays ==
  ASSUME NEW id \in Ids, \A i \in FilesOf(id) : dir'[i] = dir[i]
  PROVE  Holding(id)' = Holding(id)
<1>1. \A i \in FilesOf(id) : Holds(i, id)' = Holds(i, id)
  BY DEF Holds
<1>2. FilesOf(id)' = FilesOf(id)
  BY DEF FilesOf, Files
<1> QED BY <1>1, <1>2 DEF Holding

\* A reader that asks for no network has no tokens.
LEMMA NothingOf ==
  ASSUME IInv, NEW r \in Readers, pc[r] # "files"
  PROVE  \A id \in Ids : tokens[r][id] = <<>>
<1>1. nets[r] = {}
  BY DEF IInv, Untouched
<1>2. ASSUME NEW id \in Ids PROVE tokens[r][id] = <<>>
  <2>1. \A e \in ToSet(tokens[r][id]) : FALSE
    BY <1>1 DEF IInv, OwnTokens
  <2>2. tokens[r][id] \in Seq(Entries)
    BY DEF IInv, DataTypes
  <2> DEFINE q == tokens[r][id]
  <2> HIDE DEF q
  <2>3. q \in Seq(Entries) /\ \A e \in ToSet(q) : FALSE
    BY <2>1, <2>2 DEF q
  <2>4. q = <<>>
    <3>1. \A k \in DOMAIN q : q[k] \in ToSet(q)
      BY DEF ToSet
    <3>2. DOMAIN q = 1..Len(q) /\ Len(q) \in Nat /\ DOMAIN q = {}
      BY <2>3, <3>1
    <3>3. Len(q) = 0
      BY <3>2
    <3> QED BY <2>3, <3>3
  <2> QED BY <2>4 DEF q
<1> QED BY <1>2

\* The networks a start activates.
LEMMA StepActivate == IInv /\ Activate => IInv'
<1> SUFFICES ASSUME IInv, Activate PROVE IInv'
  OBVIOUS
<1>1. /\ DataTypes /\ Phases /\ Untouched /\ OwnTokens /\ PricedUnlessEdited /\ ListedIsFound
      /\ stage = "start" /\ stage' = "active" /\ UNCHANGED <<fileVars, readerVars, history>>
  BY DEF IInv, Activate
<1>2. active' \in Seq(Ids) /\ ActiveApart'
  <2>1. CASE active' = <<>>
    BY <2>1 DEF ActiveApart
  <2>2. CASE active' # <<>>
    <3> DEFINE S == {i \in Present : Activates(i)}
               q == InOrder(S)
    <3>1. active' = [k \in DOMAIN q |-> Names[q[k]].id]
      BY <2>2 DEF Activate
    <3>2. /\ q \in Seq(Files) /\ ToSet(q) = Files \cap S
          /\ \A j, k \in DOMAIN q : j # k => q[j] # q[k]
      BY OrderedFiles
    <3>3. \A k \in DOMAIN q : q[k] \in S /\ q[k] \in Nat
      <4> HIDE DEF S, q
      <4>1. \A k \in DOMAIN q : q[k] \in ToSet(q)
        BY DEF ToSet
      <4> QED BY <3>2, <4>1, FilesNumbered
    <3>4. \A i \in S : i \in Present /\ Names[i].json /\ Names[i].id \in Ids
      BY DEF Activates
    <3>5. ASSUME NEW i \in S, NEW j \in S, i < j PROVE Names[i].id # Names[j].id
      BY <3>4, <3>5 DEF Activates
    <3> HIDE DEF S, q
    <3>6. active' \in Seq(Ids)
      BY <3>1, <3>2, <3>3, <3>4
    <3>7. ASSUME NEW j \in DOMAIN active', NEW k \in DOMAIN active', j # k
          PROVE  active'[j] # active'[k] /\ active'[j] \in Ids /\ active'[k] \in Ids
      <4>1. j \in DOMAIN q /\ k \in DOMAIN q /\ active'[j] = Names[q[j]].id
            /\ active'[k] = Names[q[k]].id
        BY <3>1
      <4>2. q[j] < q[k] \/ q[k] < q[j]
        BY <3>2, <3>3, <3>7, <4>1
      <4>3. q[j] \in S /\ q[k] \in S
        BY <3>3, <4>1
      <4> QED BY <3>4, <3>5, <4>1, <4>2, <4>3
    <3>8. ActiveApart'
      <4> SUFFICES ASSUME NEW j \in DOMAIN active', NEW k \in DOMAIN active', j # k
                   PROVE  LET d == DefOf(active'[j])  e == DefOf(active'[k])
                          IN d.id # e.id /\ d.chain # e.chain /\ d.name # e.name /\ d.dex # e.dex
        BY DEF ActiveApart, DefOf
      <4>1. active'[j] # active'[k] /\ active'[j] \in Ids /\ active'[k] \in Ids
        BY <3>7
      <4> DEFINE a == active'[j]
                 b == active'[k]
      <4> HIDE DEF a, b
      <4>2. a # b /\ a \in Ids /\ b \in Ids
        BY <4>1 DEF a, b
      <4>3. DefOf(a) \in Known /\ DefOf(b) \in Known /\ DefOf(a).id = a /\ DefOf(b).id = b
        BY <4>2, DefOfKnown
      <4>4. LET d == DefOf(a)  e == DefOf(b)
            IN d.id # e.id /\ d.chain # e.chain /\ d.name # e.name /\ d.dex # e.dex
        BY <4>2, <4>3, FilesAssumption
      <4> QED BY <4>4 DEF a, b
    <3> QED BY <3>6, <3>8
  <2> QED BY <2>1, <2>2
<1>3. \A r \in Readers : pc[r] = "idle" /\ nets[r] = {} /\ todo[r] = <<>>
  BY <1>1 DEF Phases, Untouched
<1>4. UNCHANGED <<dir, walletFile, pc, asks, wallets, nets, todo, tokens, touched, edits>>
  BY <1>1 DEF fileVars, readerVars, history
<1>5. DataTypes'
  BY <1>1, <1>2, <1>3, <1>4 DEF DataTypes
<1>6. Phases'
  BY <1>1, <1>3, <1>4 DEF Phases, Readers
<1>7. Untouched'
  BY <1>1, <1>4 DEF Untouched
<1>8. Halves'
  BY <1>3, <1>4 DEF Halves
<1>9. OwnTokens'
  BY <1>1, <1>4 DEF OwnTokens
<1>10. PricedUnlessEdited'
  BY <1>1, <1>4 DEF PricedUnlessEdited
<1>11. ListedIsFound'
  BY <1>1, <1>4 DEF ListedIsFound
<1> QED BY <1>5, <1>6, <1>7, <1>8, <1>9, <1>10, <1>11 DEF IInv

\* The parts of the invariant that are about the readers.
Parts == Untouched /\ Halves /\ OwnTokens /\ PricedUnlessEdited /\ ListedIsFound

\* A listing of the directory by a reader that has nothing of it yet.
LEMMA StepList ==
  ASSUME IInv, NEW r \in Readers, NEW ids \in SUBSET ToSet(active), List(r, ids),
         pc[r] # "files", r = Load => \A s \in Requests : pc[s] = "idle"
  PROVE  /\ Parts'
         /\ nets' \in [Readers -> SUBSET ToSet(active)]
         /\ todo' \in [Readers -> Seq(Files)]
         /\ pc' \in [Readers -> {"idle", "tokens", "files", "failed", "unknown"}]
         /\ touched' \in [Readers -> SUBSET (Files \cup {WalletsTxt})]
<1> DEFINE P == {i \in Present : \E id \in ids : NamesIt(i, id)}
<1>1. /\ DataTypes /\ Phases /\ Untouched /\ Halves /\ OwnTokens /\ PricedUnlessEdited
      /\ ListedIsFound
  BY DEF IInv
<1>2. /\ DOMAIN nets = Readers /\ DOMAIN todo = Readers /\ DOMAIN touched = Readers
      /\ DOMAIN pc = Readers /\ ToSet(active) \subseteq Ids
  BY <1>1 DEF DataTypes, ToSet
<1>3. /\ nets'[r] = ids /\ todo'[r] = InOrder(P) /\ pc'[r] = "files"
      /\ touched'[r] = touched[r] \cap {WalletsTxt}
      /\ \A s \in Readers \ {r} : /\ nets'[s] = nets[s] /\ todo'[s] = todo[s]
                                  /\ pc'[s] = pc[s] /\ touched'[s] = touched[s]
      /\ UNCHANGED <<dir, walletFile, active, asks, wallets, tokens, edits>>
  BY <1>2 DEF List, fileVars
<1>4. InOrder(P) \in Seq(Files) /\ ToSet(InOrder(P)) = Files \cap P
  BY OrderedFiles
<1>5. \A id \in Ids : tokens[r][id] = <<>>
  BY NothingOf
<1>6. /\ nets' \in [Readers -> SUBSET ToSet(active)]
      /\ todo' \in [Readers -> Seq(Files)]
      /\ pc' \in [Readers -> {"idle", "tokens", "files", "failed", "unknown"}]
      /\ touched' \in [Readers -> SUBSET (Files \cup {WalletsTxt})]
  <2>1. /\ nets' = [nets EXCEPT ![r] = ids] /\ todo' = [todo EXCEPT ![r] = InOrder(P)]
        /\ pc' = [pc EXCEPT ![r] = "files"]
        /\ touched' = [touched EXCEPT ![r] = @ \cap {WalletsTxt}]
    BY DEF List
  <2>2. /\ nets \in [Readers -> SUBSET ToSet(active)] /\ todo \in [Readers -> Seq(Files)]
        /\ pc \in [Readers -> {"idle", "tokens", "files", "failed", "unknown"}]
        /\ touched \in [Readers -> SUBSET (Files \cup {WalletsTxt})]
    BY <1>1 DEF DataTypes
  <2> HIDE DEF P
  <2> QED BY <1>4, <2>1, <2>2
<1>7. Untouched'
  <2>1. \A i \in ToSet(todo'[r]) : \E id \in nets'[r] : NamesIt(i, id)
    BY <1>3, <1>4
  <2> HIDE DEF P
  <2>2. ASSUME NEW s \in Readers \ {r}
        PROVE  /\ pc'[s] # "files" => nets'[s] = {} /\ todo'[s] = <<>>
               /\ pc'[s] = "idle" => wallets'[s] = <<>>
               /\ \A i \in ToSet(todo'[s]) : \E id \in nets'[s] : NamesIt(i, id)
    BY <1>1, <1>3 DEF Untouched
  <2> QED BY <1>3, <2>1, <2>2 DEF Untouched, NamesIt
<1>8. Halves'
  <2> SUFFICES ASSUME NEW s \in Readers, pc'[s] = "files", NEW id \in nets'[s],
                      FilesOf(id) \cap touched'[s] = {}
               PROVE  tokens'[s][id] \o Gather(Holding(id)', todo'[s])
                        = Gather(Holding(id)', AllFiles)
    BY DEF Halves, AllFiles, Files, FilesOf, NamesIt, Gather
  <2>1. id \in Ids /\ Holding(id)' = Holding(id)
    <3>1. id \in Ids
      BY <1>2, <1>6
    <3> QED BY <1>3, <3>1, HoldingStays
  <2>2. CASE s # r
    BY <1>1, <1>3, <2>1, <2>2 DEF Halves
  <2>3. CASE s = r
    <3> DEFINE H == Holding(id)
    <3>1. H \in [Files -> Seq(Entries)]
      BY <1>1, <2>1, HoldingType
    <3>2. ASSUME NEW i \in Files \ P PROVE H[i] = <<>>
      BY <1>3, <2>3 DEF Holding, Holds, Present, NamesIt, FilesOf
    <3>3. AllFiles \in Seq(Files)
      BY FilesNumbered
    <3> HIDE DEF H, P
    <3>4. Gather(H, Keep(AllFiles, P)) = Gather(H, AllFiles)
      BY <3>1, <3>2, <3>3, GatherKeep
    <3>5. InOrder(P) = Keep(AllFiles, P)
      BY DEF InOrder, AllFiles
    <3>6. Gather(H, todo'[s]) = Gather(H, AllFiles)
      BY <1>3, <2>3, <3>4, <3>5
    <3>7. tokens'[s][id] = <<>>
      BY <1>3, <1>5, <2>1, <2>3
    <3>8. Gather(H, AllFiles) \in Seq(Entries)
      BY <3>1, <3>3, GatherConcat
    <3>9. <<>> \o Gather(H, AllFiles) = Gather(H, AllFiles)
      BY <3>8
    <3> QED BY <2>1, <3>6, <3>7, <3>9, Zenon DEF H
  <2> QED BY <2>2, <2>3
<1> HIDE DEF P
<1>9. ToSet(<<>>) = {}
  BY DEF ToSet
<1>10. OwnTokens'
  <2> SUFFICES ASSUME NEW s \in Readers, NEW id \in Ids, NEW e \in ToSet(tokens[s][id])
               PROVE  e.chain = DefOf(id).chain /\ id \in nets'[s]
    BY <1>3 DEF OwnTokens, Ids, DefOf
  <2>1. s # r
    BY <1>5, <1>9
  <2> QED BY <1>1, <1>3, <2>1 DEF OwnTokens
<1>11. PricedUnlessEdited'
  <2> SUFFICES ASSUME NEW s \in Requests, NEW id \in Ids,
                      FilesOf(id) \cap touched'[Load] = {}
               PROVE  ToSet(tokens[s][id]) \subseteq ToSet(tokens[Load][id])
    BY <1>3 DEF PricedUnlessEdited, Ids, FilesOf, Files, NamesIt
  <2>1. CASE r # Load
    <3>1. touched'[Load] = touched[Load]
      BY <1>3, <2>1 DEF Readers
    <3> QED BY <1>1, <3>1 DEF PricedUnlessEdited
  <2>2. CASE r = Load
    <3>1. pc[s] # "files" /\ s \in Readers
      BY <2>2 DEF Readers
    <3>2. tokens[s][id] = <<>>
      BY <3>1, NothingOf
    <3> QED BY <1>9, <3>2
  <2> QED BY <2>1, <2>2
<1>12. ListedIsFound'
  <2> SUFFICES ASSUME NEW s \in Requests, WalletsTxt \notin touched'[s]
               PROVE  /\ pc'[s] = "unknown" => \A l \in ToSet(walletFile) :
                           l.is = "address" => l.wallet # asks[s].wallet
                      /\ ToSet(wallets[s]) \subseteq ToSet(walletFile)
    BY <1>3 DEF ListedIsFound, WalletsTxt
  <2>1. s \in Readers /\ WalletsTxt \notin touched[s]
    BY <1>3 DEF Readers
  <2>2. pc'[s] = "unknown" => pc[s] = "unknown"
    BY <1>3, <2>1
  <2> QED BY <1>1, <2>1, <2>2 DEF ListedIsFound
<1> QED BY <1>6, <1>7, <1>8, <1>10, <1>11, <1>12 DEF Parts

\* Nothing is disturbed by a step that reads and edits nothing and starts no reader.
LEMMA SameParts ==
  ASSUME DataTypes, Untouched, Halves, OwnTokens, PricedUnlessEdited, ListedIsFound,
         UNCHANGED <<dir, walletFile, asks, wallets, nets, todo, tokens, touched>>,
         \A r \in Readers : pc'[r] = pc[r] \/ (pc[r] = "tokens" /\ pc'[r] = "failed")
  PROVE  Parts'
<1>1. Untouched'
  BY DEF Untouched, NamesIt
<1>2. Halves'
  <2> SUFFICES ASSUME NEW r \in Readers, pc'[r] = "files", NEW id \in nets'[r],
                      FilesOf(id) \cap touched'[r] = {}
               PROVE  tokens'[r][id] \o Gather(Holding(id)', todo'[r])
                        = Gather(Holding(id)', AllFiles)
    BY DEF Halves, AllFiles, Files, FilesOf, NamesIt, Gather
  <2>1. id \in Ids /\ id \in nets[r]
    BY DEF DataTypes, ToSet
  <2>2. Holding(id)' = Holding(id)
    BY <2>1, HoldingStays
  <2> QED BY <2>1, <2>2 DEF Halves
<1>3. OwnTokens'
  BY DEF OwnTokens
<1>4. PricedUnlessEdited'
  BY DEF PricedUnlessEdited
<1>5. ListedIsFound'
  BY DEF ListedIsFound, Readers
<1> QED BY <1>1, <1>2, <1>3, <1>4, <1>5 DEF Parts

LEMMA StepStartLoad == IInv /\ StartLoad => IInv'
<1> SUFFICES ASSUME IInv, StartLoad PROVE IInv'
  OBVIOUS
<1>1. /\ DataTypes /\ Phases /\ Untouched /\ Halves /\ OwnTokens /\ PricedUnlessEdited
      /\ ListedIsFound /\ stage = "active"
  BY DEF IInv, StartLoad
<1>2. Load \in Readers /\ \A r \in Readers : pc[r] = "idle"
  BY <1>1 DEF Phases, Readers
<1>3. CASE List(Load, AllActive) /\ stage' = "load"
  <2> DEFINE ids == AllActive
  <2>1. ids = ToSet(active)
    BY DEF AllActive
  <2>2. pc[Load] # "files" /\ \A s \in Requests : pc[s] = "idle"
    BY <1>2 DEF Readers
  <2> HIDE DEF ids
  <2>3. List(Load, ids)
    BY <1>3 DEF ids
  <2>4. /\ Parts'
        /\ nets' \in [Readers -> SUBSET ToSet(active)]
        /\ todo' \in [Readers -> Seq(Files)]
        /\ pc' \in [Readers -> {"idle", "tokens", "files", "failed", "unknown"}]
        /\ touched' \in [Readers -> SUBSET (Files \cup {WalletsTxt})]
    BY <1>2, <2>1, <2>2, <2>3, StepList
  <2>5. /\ pc'[Load] = "files" /\ nets'[Load] = ToSet(active)
        /\ \A s \in Requests : pc'[s] = "idle"
        /\ UNCHANGED <<dir, walletFile, active, asks, wallets, tokens, edits>>
    <3>1. DOMAIN pc = Readers /\ DOMAIN nets = Readers
      BY <1>1 DEF DataTypes
    <3> QED BY <1>2, <2>1, <2>3, <3>1, FilesAssumption DEF List, fileVars, Readers
  <2>6. DataTypes'
    BY <1>1, <1>3, <2>4, <2>5 DEF DataTypes, ActiveApart
  <2>7. Phases'
    BY <1>3, <2>5 DEF Phases
  <2> QED BY <2>4, <2>6, <2>7 DEF IInv, Parts
<1>4. CASE stage' \in {"serve", "fatal"} /\ UNCHANGED <<fileVars, active, readerVars, history>>
           /\ (stage' = "serve" => active = <<>>)
  <2>1. UNCHANGED <<dir, walletFile, active, pc, asks, wallets, nets, todo, tokens, touched, edits>>
    BY <1>4 DEF fileVars, readerVars, history
  <2>2. DataTypes' /\ Phases'
    BY <1>1, <1>2, <1>4, <2>1 DEF DataTypes, Phases, ActiveApart
  <2>3. Parts'
    BY <1>1, <2>1, SameParts
  <2> QED BY <2>2, <2>3 DEF IInv, Parts
<1> QED BY <1>3, <1>4 DEF StartLoad

LEMMA StepFinishLoad == IInv /\ FinishLoad => IInv'
<1> SUFFICES ASSUME IInv, FinishLoad PROVE IInv'
  OBVIOUS
<1>1. UNCHANGED <<dir, walletFile, active, pc, asks, wallets, nets, todo, tokens, touched, edits>>
  BY DEF FinishLoad, fileVars, readerVars, history
<1>2. DataTypes' /\ Phases'
  BY <1>1 DEF IInv, DataTypes, Phases, ActiveApart, FinishLoad, Done
<1>3. Parts'
  BY <1>1, SameParts DEF IInv
<1> QED BY <1>2, <1>3 DEF IInv, Parts

LEMMA StepListTokens ==
  ASSUME IInv, NEW r \in Requests, ListTokens(r)
  PROVE  IInv'
<1>1. /\ DataTypes /\ Phases /\ Untouched /\ Halves /\ OwnTokens /\ PricedUnlessEdited
      /\ ListedIsFound /\ stage = "serve" /\ pc[r] = "tokens" /\ UNCHANGED stage
  BY DEF IInv, ListTokens
<1>2. r \in Readers /\ Load \in Readers /\ r # Load
  BY FilesAssumption DEF Readers
<1>3. ASSUME NEW ids \in SUBSET ToSet(active) \ {{}}, List(r, ids) PROVE IInv'
  <2>1. /\ Parts'
        /\ nets' \in [Readers -> SUBSET ToSet(active)]
        /\ todo' \in [Readers -> Seq(Files)]
        /\ pc' \in [Readers -> {"idle", "tokens", "files", "failed", "unknown"}]
        /\ touched' \in [Readers -> SUBSET (Files \cup {WalletsTxt})]
    <3>1. ids \in SUBSET ToSet(active) /\ pc[r] # "files"
      BY <1>1
    <3> QED BY <1>2, <1>3, <3>1, StepList
  <2>2. /\ pc'[Load] = pc[Load] /\ nets'[Load] = nets[Load] /\ todo'[Load] = todo[Load]
        /\ UNCHANGED <<dir, walletFile, active, asks, wallets, tokens, edits>>
    <3>1. DOMAIN pc = Readers /\ DOMAIN nets = Readers /\ DOMAIN todo = Readers
      BY <1>1 DEF DataTypes
    <3> QED BY <1>2, <1>3, <3>1 DEF List, fileVars
  <2>3. DataTypes'
    BY <1>1, <2>1, <2>2 DEF DataTypes, ActiveApart
  <2>4. Phases'
    BY <1>1, <2>2 DEF Phases, Done
  <2> QED BY <2>1, <2>3, <2>4 DEF IInv, Parts
<1>4. CASE pc' = [pc EXCEPT ![r] = "failed"]
           /\ UNCHANGED <<fileVars, active, asks, wallets, nets, todo, tokens, history>>
  <2>1. UNCHANGED <<dir, walletFile, active, asks, wallets, nets, todo, tokens, touched, edits>>
    BY <1>4 DEF fileVars, history
  <2>2. /\ pc'[r] = "failed" /\ \A s \in Readers \ {r} : pc'[s] = pc[s]
        /\ pc' \in [Readers -> {"idle", "tokens", "files", "failed", "unknown"}]
    BY <1>1, <1>2, <1>4 DEF DataTypes
  <2>3. DataTypes'
    BY <1>1, <2>1, <2>2 DEF DataTypes, ActiveApart
  <2>4. Phases'
    BY <1>1, <1>2, <2>1, <2>2 DEF Phases, Done
  <2>5. Parts'
    BY <1>1, <2>1, <2>2, SameParts
  <2> QED BY <2>3, <2>4, <2>5 DEF IInv, Parts
<1> QED BY <1>3, <1>4 DEF ListTokens

\* A request finds what the wallet file lists, if anything.
LEMMA StepReadWallets ==
  ASSUME IInv, NEW r \in Requests, ReadWallets(r)
  PROVE  IInv'
<1>1. /\ DataTypes /\ Phases /\ Untouched /\ Halves /\ OwnTokens /\ PricedUnlessEdited
      /\ ListedIsFound /\ stage = "serve" /\ pc[r] = "idle" /\ walletFile \in WalletFiles
      /\ UNCHANGED <<stage, dir, walletFile, active, nets, todo, tokens, touched, edits>>
  BY DEF IInv, ReadWallets, fileVars, history, DataTypes
<1>2. r \in Readers /\ Load \in Readers /\ r # Load
  BY FilesAssumption DEF Readers
<1>3. PICK a \in Spellings \cup {Everything} :
        /\ asks' = [asks EXCEPT ![r] = a]
        /\ IF ~Scans(walletFile)
             THEN pc' = [pc EXCEPT ![r] = "failed"] /\ UNCHANGED wallets
           ELSE IF a = Everything
             THEN /\ pc' = [pc EXCEPT ![r] = "tokens"]
                  /\ wallets' = [wallets EXCEPT ![r] = Addresses(walletFile)]
           ELSE IF Found(walletFile, a) = 0
             THEN pc' = [pc EXCEPT ![r] = "unknown"] /\ UNCHANGED wallets
             ELSE /\ pc' = [pc EXCEPT ![r] = "tokens"]
                  /\ wallets' = [wallets EXCEPT ![r] = <<Returned(walletFile, a)>>]
  BY DEF ReadWallets
<1>4. /\ Addresses(walletFile) \in Seq(Spellings)
      /\ ToSet(Addresses(walletFile)) = {l \in ToSet(walletFile) : l.is = "address"}
  BY <1>1, AddressesListed
<1>5. /\ Found(walletFile, a) # 0 => Returned(walletFile, a) \in ToSet(Addresses(walletFile))
      /\ Found(walletFile, a) = 0 => \A l \in ToSet(Addresses(walletFile)) : l.wallet # a.wallet
  BY <1>1, FoundListed
<1>6. /\ asks' \in [Readers -> Spellings \cup {Everything}] /\ asks'[r] = a
      /\ \A s \in Readers \ {r} :
           asks'[s] = asks[s] /\ pc'[s] = pc[s] /\ wallets'[s] = wallets[s]
      /\ pc' \in [Readers -> {"idle", "tokens", "files", "failed", "unknown"}]
      /\ pc'[r] \in {"tokens", "failed", "unknown"}
  BY <1>1, <1>2, <1>3 DEF DataTypes
<1>7. /\ wallets' \in [Readers -> Seq(Spellings)]
      /\ ToSet(wallets'[r]) \subseteq ToSet(walletFile)
      /\ pc'[r] = "unknown" => \A l \in ToSet(Addresses(walletFile)) : l.wallet # a.wallet
  <2>0. /\ wallets \in [Readers -> Seq(Spellings)] /\ wallets[r] = <<>> /\ ToSet(<<>>) = {}
        /\ DOMAIN pc = Readers
    BY <1>1, <1>2 DEF DataTypes, Untouched, ToSet
  <2>1. CASE UNCHANGED wallets
    <3>1. pc'[r] = "unknown" => Found(walletFile, a) = 0
      BY <1>2, <1>3, <2>0
    <3> QED BY <1>2, <1>5, <2>0, <2>1, <3>1
  <2>2. CASE wallets' = [wallets EXCEPT ![r] = Addresses(walletFile)] /\ pc'[r] = "tokens"
    BY <1>2, <1>4, <2>0, <2>2
  <2>3. CASE /\ wallets' = [wallets EXCEPT ![r] = <<Returned(walletFile, a)>>]
             /\ pc'[r] = "tokens" /\ Found(walletFile, a) # 0
    <3> DEFINE x == Returned(walletFile, a)
    <3>1. x \in ToSet(Addresses(walletFile))
      BY <1>5, <2>3
    <3> HIDE DEF x
    <3>2. x \in ToSet(walletFile) /\ x \in Spellings
      BY <1>4, <3>1 DEF ToSet
    <3>3. ToSet(<<x>>) = {x} /\ <<x>> \in Seq(Spellings)
      BY <3>2 DEF ToSet
    <3>4. wallets'[r] = <<x>>
      BY <1>2, <2>0, <2>3 DEF x
    <3>5. wallets' \in [Readers -> Seq(Spellings)]
      BY <2>0, <2>3, <3>3 DEF x
    <3> QED BY <2>3, <3>2, <3>3, <3>4, <3>5
  <2> QED BY <1>2, <1>3, <2>0, <2>1, <2>2, <2>3
<1>8. DataTypes'
  BY <1>1, <1>6, <1>7 DEF DataTypes, ActiveApart
<1>9. Phases'
  BY <1>1, <1>2, <1>6 DEF Phases, Done
<1>10. Untouched'
  <2>1. pc[r] # "files" /\ pc'[r] # "files" /\ pc'[r] # "idle"
    BY <1>1, <1>6
  <2>2. ASSUME NEW s \in Readers
        PROVE  /\ pc'[s] # "files" => nets'[s] = {} /\ todo'[s] = <<>>
               /\ pc'[s] = "idle" => wallets'[s] = <<>>
               /\ \A i \in ToSet(todo'[s]) : \E id \in nets'[s] : NamesIt(i, id)
    BY <1>1, <1>6, <2>1 DEF Untouched
  <2> QED BY <2>2 DEF Untouched, NamesIt
<1>11. Halves'
  <2> SUFFICES ASSUME NEW s \in Readers, pc'[s] = "files", NEW id \in nets'[s],
                      FilesOf(id) \cap touched'[s] = {}
               PROVE  tokens'[s][id] \o Gather(Holding(id)', todo'[s])
                        = Gather(Holding(id)', AllFiles)
    BY DEF Halves, AllFiles, Files, FilesOf, NamesIt, Gather
  <2>1. id \in Ids /\ id \in nets[s] /\ pc[s] = "files"
    BY <1>1, <1>6 DEF DataTypes, ToSet
  <2>2. Holding(id)' = Holding(id)
    BY <1>1, <2>1, HoldingStays
  <2> QED BY <1>1, <2>1, <2>2 DEF Halves
<1>12. OwnTokens'
  BY <1>1 DEF OwnTokens
<1>13. PricedUnlessEdited'
  BY <1>1 DEF PricedUnlessEdited
<1>14. ListedIsFound'
  <2> SUFFICES ASSUME NEW s \in Requests, WalletsTxt \notin touched[s]
               PROVE  /\ pc'[s] = "unknown" => \A l \in ToSet(walletFile) :
                           l.is = "address" => l.wallet # asks'[s].wallet
                      /\ ToSet(wallets'[s]) \subseteq ToSet(walletFile)
    BY <1>1 DEF ListedIsFound, WalletsTxt
  <2>1. CASE s = r
    BY <1>4, <1>6, <1>7, <2>1
  <2>2. CASE s # r
    BY <1>1, <1>6, <2>2 DEF ListedIsFound, Readers
  <2> QED BY <2>1, <2>2
<1> QED BY <1>8, <1>9, <1>10, <1>11, <1>12, <1>13, <1>14 DEF IInv

\* One file more is read: what it holds goes over from what is left to what is there.
LEMMA StepReadFile ==
  ASSUME IInv, NEW r \in Readers, ReadFile(r)
  PROVE  IInv'
<1> DEFINE i == Head(todo[r])
           n == CHOOSE n \in nets[r] : NamesIt(i, n)
           rest == Tail(todo[r])
           readable == dir[i] \notin {Absent, Broken}
           own == OwnEntries(dir[i], n)
<1>1. /\ DataTypes /\ Phases /\ Untouched /\ Halves /\ OwnTokens /\ PricedUnlessEdited
      /\ ListedIsFound /\ pc[r] = "files" /\ todo[r] # <<>>
      /\ UNCHANGED <<stage, dir, walletFile, active, pc, asks, wallets, nets, touched, edits>>
  BY DEF IInv, ReadFile, fileVars, history
<1>2. todo' = [todo EXCEPT ![r] = rest]
  BY DEF ReadFile, Continue
<1>3. tokens' = IF readable THEN [tokens EXCEPT ![r][n] = @ \o own] ELSE tokens
  BY DEF ReadFile
<1>4. /\ todo \in [Readers -> Seq(Files)] /\ tokens \in [Readers -> [Ids -> Seq(Entries)]]
      /\ nets[r] \subseteq Ids
  BY <1>1 DEF DataTypes, ToSet
<1>5. /\ i \in Files /\ rest \in Seq(Files) /\ todo[r] = <<i>> \o rest
      /\ i \in ToSet(todo[r]) /\ ToSet(rest) \subseteq ToSet(todo[r])
  <2> DEFINE q == todo[r]
  <2>1. q \in Seq(Files) /\ q # <<>>
    BY <1>1, <1>4
  <2> HIDE DEF q
  <2>2. Head(q) \in Files /\ Tail(q) \in Seq(Files) /\ q = <<Head(q)>> \o Tail(q)
    BY <2>1
  <2>3. <<Head(q)>> \in Seq(Files)
    BY <2>2
  <2> DEFINE a == <<Head(q)>>
             b == Tail(q)
  <2>4. ToSet(a \o b) = ToSet(a) \cup ToSet(b)
    <3> HIDE DEF a, b
    <3> QED BY <2>2, <2>3, ToSetOfConcat DEF a, b
  <2>5. ToSet(a) = {Head(q)}
    BY DEF ToSet
  <2>6. ToSet(q) = ToSet(a) \cup ToSet(b)
    BY <2>2, <2>4, Zenon
  <2> QED BY <2>2, <2>5, <2>6 DEF q
<1>6. n \in nets[r] /\ NamesIt(i, n) /\ n \in Ids
  BY <1>1, <1>4, <1>5 DEF Untouched
<1>7. readable => own \in Seq(Entries) /\ ToSet(own) = {e \in ToSet(dir[i]) : e.chain = DefOf(n).chain}
                  /\ own = Holds(i, n)
  <2> HIDE DEF i, n
  <2>1. dir[i] \in Contents[i]
    BY <1>1, <1>5 DEF DataTypes
  <2>2. readable => dir[i] \notin {Absent, Broken}
    OBVIOUS
  <2>3. readable => own = Holds(i, n)
    BY <1>1, <1>5, <1>6, HoldingType
  <2> HIDE DEF readable
  <2> QED BY <1>5, <1>6, <2>1, <2>2, <2>3, EntriesStay
<1> HIDE DEF i, n, rest, readable, own
<1>8. /\ todo' \in [Readers -> Seq(Files)] /\ todo'[r] = rest
      /\ \A s \in Readers \ {r} : todo'[s] = todo[s]
  BY <1>2, <1>4, <1>5
<1>9. /\ readable => tokens'[r][n] = tokens[r][n] \o own
      /\ ~readable => tokens'[r][n] = tokens[r][n]
      /\ \A id \in Ids \ {n} : tokens'[r][id] = tokens[r][id]
      /\ \A s \in Readers \ {r} : tokens'[s] = tokens[s]
      /\ tokens' \in [Readers -> [Ids -> Seq(Entries)]]
  <2>1. CASE readable
    <3>1. tokens[r][n] \in Seq(Entries) /\ own \in Seq(Entries)
      BY <1>4, <1>6, <1>7, <2>1
    <3>2. tokens[r][n] \o own \in Seq(Entries)
      BY <3>1
    <3>3. tokens' = [tokens EXCEPT ![r][n] = tokens[r][n] \o own]
      BY <1>3, <2>1
    <3> DEFINE new == tokens[r][n] \o own
    <3> HIDE DEF new
    <3>4. new \in Seq(Entries) /\ tokens' = [tokens EXCEPT ![r][n] = new]
      BY <3>2, <3>3 DEF new
    <3>5. /\ tokens'[r][n] = new
          /\ \A id \in Ids \ {n} : tokens'[r][id] = tokens[r][id]
          /\ \A s \in Readers \ {r} : tokens'[s] = tokens[s]
          /\ tokens' \in [Readers -> [Ids -> Seq(Entries)]]
      BY <1>4, <1>6, <3>4
    <3> QED BY <2>1, <3>5 DEF new
  <2>2. CASE ~readable
    BY <1>3, <1>4, <2>2
  <2> QED BY <2>1, <2>2
<1>10. ToSet(tokens'[r][n]) \subseteq ToSet(tokens[r][n]) \cup ToSet(Holds(i, n))
       /\ \A e \in ToSet(tokens'[r][n]) : e \in ToSet(tokens[r][n]) \/ e.chain = DefOf(n).chain
  <2>1. CASE readable
    <3> DEFINE a == tokens[r][n]
    <3>1. a \in Seq(Entries) /\ own \in Seq(Entries)
      BY <1>4, <1>6, <1>7, <2>1
    <3> HIDE DEF a
    <3>2. ToSet(a \o own) = ToSet(a) \cup ToSet(own)
      BY <3>1, ToSetOfConcat
    <3>3. tokens'[r][n] = a \o own
      BY <1>9, <2>1 DEF a
    <3>4. ToSet(tokens'[r][n]) = ToSet(a) \cup ToSet(own)
      BY <3>2, <3>3, Zenon
    <3> QED BY <1>7, <2>1, <3>4 DEF a
  <2>2. CASE ~readable
    BY <1>9, <2>2
  <2> QED BY <2>1, <2>2
<1>11. DataTypes'
  BY <1>1, <1>8, <1>9 DEF DataTypes, ActiveApart
<1>12. Phases'
  <2>1. Done(Load) => Done(Load)'
    BY <1>1, <1>8 DEF Done, Readers
  <2> QED BY <1>1, <2>1 DEF Phases, Done
<1>13. Untouched'
  <2>1. ASSUME NEW s \in Readers
        PROVE  /\ pc'[s] # "files" => nets'[s] = {} /\ todo'[s] = <<>>
               /\ pc'[s] = "idle" => wallets'[s] = <<>>
               /\ \A j \in ToSet(todo'[s]) : \E id \in nets'[s] : NamesIt(j, id)
    BY <1>1, <1>5, <1>8 DEF Untouched
  <2> QED BY <2>1 DEF Untouched, NamesIt
<1>14. Halves'
  <2> SUFFICES ASSUME NEW s \in Readers, pc'[s] = "files", NEW id \in nets'[s],
                      FilesOf(id) \cap touched'[s] = {}
               PROVE  tokens'[s][id] \o Gather(Holding(id)', todo'[s])
                        = Gather(Holding(id)', AllFiles)
    BY DEF Halves, AllFiles, Files, FilesOf, NamesIt, Gather
  <2>1. id \in Ids /\ id \in nets[s] /\ pc[s] = "files"
    BY <1>1 DEF DataTypes, ToSet
  <2>2. Holding(id)' = Holding(id)
    BY <1>1, <2>1, HoldingStays
  <2>3. tokens[s][id] \o Gather(Holding(id), todo[s]) = Gather(Holding(id), AllFiles)
    BY <1>1, <2>1 DEF Halves
  <2>4. CASE s # r
    BY <1>8, <1>9, <2>2, <2>3, <2>4
  <2>5. CASE s = r
    <3> DEFINE H == Holding(id)
               a == tokens[r][id]
               b == H[i]
               c == Gather(H, rest)
               one == <<i>>
    <3>1. H \in [Files -> Seq(Entries)] /\ one \in Seq(Files)
      BY <1>1, <1>5, <2>1, HoldingType
    <3>2. Gather(H, one) = b
      <4> HIDE DEF H
      <4> QED BY <1>5, <3>1, GatherOne
    <3>3. b \in Seq(Entries) /\ a \in Seq(Entries)
      BY <1>4, <1>5, <2>1, <3>1
    <3>4. Gather(H, todo[r]) = b \o c /\ c \in Seq(Entries)
      <4> HIDE DEF H, one, b
      <4>1. Splits(H, one, rest)
        BY <1>5, <3>1, GatherConcat
      <4>2. Gather(H, rest) \in Seq(Entries)
        BY <1>5, <3>1, GatherConcat
      <4>3. todo[r] = one \o rest
        BY <1>5 DEF one
      <4>4. Gather(H, one \o rest) = Gather(H, one) \o Gather(H, rest)
        BY <4>1 DEF Splits
      <4>5. Gather(H, todo[r]) = Gather(H, one \o rest)
        BY <4>3, Zenon
      <4> QED BY <3>2, <4>2, <4>4, <4>5
    <3>5. tokens'[r][id] = a \o b
      <4>1. CASE id = n
        <5>1. b = Holds(i, n)
          BY <1>5, <1>6, <4>1 DEF Holding, FilesOf, NamesIt
        <5>2. CASE readable
          BY <1>7, <1>9, <4>1, <5>1, <5>2
        <5>3. CASE ~readable
          <6>1. b = <<>>
            BY <5>1, <5>3 DEF Holds, readable
          <6>2. a \o <<>> = a
            BY <3>3
          <6> QED BY <1>9, <4>1, <5>3, <6>1, <6>2
        <5> QED BY <5>2, <5>3
      <4>2. CASE id # n
        <5>1. b = <<>>
          BY <1>5, <1>6, <4>2 DEF Holding, FilesOf, NamesIt
        <5>2. a \o <<>> = a
          BY <3>3
        <5> QED BY <1>9, <2>1, <4>2, <5>1, <5>2
      <4> QED BY <4>1, <4>2
    <3> HIDE DEF a, b, c, H, one
    <3>6. (a \o b) \o c = a \o (b \o c)
      BY <3>3, <3>4
    <3>7. a \o (b \o c) = Gather(H, AllFiles)
      BY <2>3, <2>5, <3>4, Zenon DEF a, H
    <3>8. tokens'[s][id] \o Gather(H, todo'[s]) = (a \o b) \o c
      BY <1>8, <2>5, <3>5, Zenon DEF c
    <3>9. tokens'[s][id] \o Gather(H, todo'[s]) = Gather(H, AllFiles)
      BY <3>6, <3>7, <3>8
    <3> QED BY <2>2, <3>9 DEF H
  <2> QED BY <2>4, <2>5
<1>15. OwnTokens'
  <2> SUFFICES ASSUME NEW s \in Readers, NEW id \in Ids, NEW e \in ToSet(tokens'[s][id])
               PROVE  e.chain = DefOf(id).chain /\ id \in nets[s]
    <3>1. OwnTokens' <=> \A s \in Readers, id \in Ids : \A e \in ToSet(tokens'[s][id]) :
                           e.chain = DefOf(id).chain /\ id \in nets'[s]
      BY DEF OwnTokens
    <3> QED BY <1>1, <3>1
  <2>1. CASE e \in ToSet(tokens[s][id])
    BY <1>1, <2>1 DEF OwnTokens
  <2>2. CASE e \notin ToSet(tokens[s][id])
    <3>1. s = r /\ id = n
      BY <1>9, <2>2
    <3> QED BY <1>6, <1>10, <2>2, <3>1
  <2> QED BY <2>1, <2>2
<1>16. PricedUnlessEdited'
  <2> SUFFICES ASSUME NEW s \in Requests, NEW id \in Ids, FilesOf(id) \cap touched[Load] = {}
               PROVE  ToSet(tokens'[s][id]) \subseteq ToSet(tokens'[Load][id])
    BY <1>1 DEF PricedUnlessEdited, Ids, FilesOf, Files, NamesIt
  <2>0. s \in Readers /\ Load \in Readers /\ s # Load
    BY FilesAssumption DEF Readers
  <2>1. ToSet(tokens[s][id]) \subseteq ToSet(tokens[Load][id])
    BY <1>1 DEF PricedUnlessEdited
  <2>2. CASE r = Load
    <3>1. stage # "serve"
      <4>1. ~Done(Load)
        BY <1>1, <2>2 DEF Done
      <4>2. active # <<>>
        <5>1. nets[Load] = ToSet(active) /\ n \in nets[Load]
          BY <1>1, <1>6, <2>2 DEF Phases
        <5>2. ToSet(<<>>) = {}
          BY DEF ToSet
        <5> QED BY <5>1, <5>2
      <4> QED BY <1>1, <4>1, <4>2 DEF Phases
    <3>2. pc[s] # "files"
      BY <1>1, <2>0, <3>1 DEF Phases, DataTypes
    <3>3. tokens[s][id] = <<>>
      BY <2>0, <3>2, NothingOf
    <3>4. tokens'[s][id] = <<>> /\ ToSet(<<>>) = {}
      BY <1>9, <2>0, <2>2, <3>3 DEF ToSet
    <3> QED BY <3>4
  <2>3. CASE r # Load /\ ~(s = r /\ id = n)
    BY <1>9, <2>0, <2>1, <2>3
  <2>4. CASE r # Load /\ s = r /\ id = n
    <3>1. Done(Load) /\ nets[Load] = ToSet(active) /\ id \in nets[Load]
      <4>1. id \in ToSet(active)
        BY <1>1, <1>6, <2>4 DEF DataTypes
      <4>2. active # <<>>
        BY <4>1 DEF ToSet
      <4>3. stage = "serve"
        BY <1>1, <2>0, <2>4 DEF Phases, DataTypes
      <4>4. Done(Load)
        BY <1>1, <4>2, <4>3 DEF Phases
      <4>5. nets[Load] = ToSet(active)
        BY <1>1, <4>4 DEF Phases, Done
      <4> QED BY <4>1, <4>4, <4>5
    <3> DEFINE H == Holding(id)
               l == tokens[Load][id]
    <3>2. l \o Gather(H, <<>>) = Gather(H, AllFiles)
      BY <1>1, <2>0, <3>1 DEF Halves, Done
    <3>3. H \in [Files -> Seq(Entries)] /\ AllFiles \in Seq(Files) /\ ToSet(AllFiles) = Files
      BY <1>1, HoldingType, FilesNumbered
    <3>4. l \in Seq(Entries)
      BY <1>4, <2>0
    <3>5. H[i] = Holds(i, n)
      BY <1>5, <1>6, <2>4 DEF Holding, FilesOf, NamesIt
    <3> HIDE DEF H, l
    <3>6. Gather(H, <<>>) = <<>>
      BY <1>5, <3>3, GatherOne
    <3>7. l \o <<>> = l
      BY <3>4
    <3>8. l = Gather(H, AllFiles)
      BY <3>2, <3>6, <3>7, Zenon
    <3>9. ToSet(Gather(H, AllFiles)) = UNION {ToSet(H[j]) : j \in ToSet(AllFiles)}
      BY <3>3, GatherElements
    <3>10. ToSet(H[i]) \subseteq ToSet(l)
      BY <1>5, <3>3, <3>8, <3>9
    <3>11. tokens'[Load][id] = l
      BY <1>9, <2>0, <2>4 DEF l
    <3>12. ToSet(tokens[s][id]) \subseteq ToSet(l)
      BY <2>1 DEF l
    <3> QED BY <1>10, <2>4, <3>5, <3>10, <3>11, <3>12
  <2> QED BY <2>2, <2>3, <2>4
<1>17. ListedIsFound'
  BY <1>1 DEF ListedIsFound
<1> QED BY <1>11, <1>12, <1>13, <1>14, <1>15, <1>16, <1>17 DEF IInv

\* What Touch notes of an edit of a file.
LEMMA Touched ==
  ASSUME DataTypes, NEW i \in Files \cup {WalletsTxt}, Touch(i)
  PROVE  /\ stage # "start" /\ edits' \in 0..MaxEdits
         /\ touched' \in [Readers -> SUBSET (Files \cup {WalletsTxt})]
         /\ \A r \in Readers : pc[r] # "idle" => touched'[r] = touched[r] \cup {i}
<1>1. touched' = [r \in Readers |-> IF pc[r] = "idle" THEN {} ELSE touched[r] \cup {i}]
  BY DEF Touch
<1>2. touched \in [Readers -> SUBSET (Files \cup {WalletsTxt})]
  BY DEF DataTypes
<1>3. edits' \in 0..MaxEdits
  BY FilesAssumption DEF DataTypes, Touch
<1> QED BY <1>1, <1>2, <1>3 DEF Touch

\* An edit disturbs what depends on the file only, of the readers that have listed it.
LEMMA StepEdit ==
  ASSUME IInv, NEW i \in Files \cup {WalletsTxt}, Touch(i),
         UNCHANGED <<stage, active, readerVars>>,
         i = WalletsTxt => UNCHANGED dir,
         i # WalletsTxt => UNCHANGED walletFile,
         \A j \in Files \ {i} : dir'[j] = dir[j],
         DOMAIN dir' = Files, \A j \in Files : dir'[j] \in Contents[j],
         walletFile' \in WalletFiles
  PROVE  IInv'
<1>1. /\ DataTypes /\ Phases /\ Untouched /\ Halves /\ OwnTokens /\ PricedUnlessEdited
      /\ ListedIsFound
      /\ UNCHANGED <<stage, active, pc, asks, wallets, nets, todo, tokens>>
  BY DEF IInv, readerVars
<1>2. /\ edits' \in 0..MaxEdits
      /\ touched' \in [Readers -> SUBSET (Files \cup {WalletsTxt})]
      /\ \A r \in Readers : pc[r] # "idle" => touched'[r] = touched[r] \cup {i}
  BY <1>1, Touched
<1>3. DataTypes'
  BY <1>1, <1>2 DEF DataTypes, ActiveApart
<1>4. Phases'
  BY <1>1 DEF Phases, Done
<1>5. Untouched'
  BY <1>1 DEF Untouched, NamesIt
<1>6. Halves'
  <2> SUFFICES ASSUME NEW r \in Readers, pc'[r] = "files", NEW id \in nets'[r],
                      FilesOf(id) \cap touched'[r] = {}
               PROVE  tokens'[r][id] \o Gather(Holding(id)', todo'[r])
                        = Gather(Holding(id)', AllFiles)
    BY DEF Halves, AllFiles, Files, FilesOf, NamesIt, Gather
  <2>1. id \in Ids /\ id \in nets[r] /\ pc[r] = "files"
    BY <1>1 DEF DataTypes, ToSet
  <2>2. FilesOf(id) \cap touched[r] = {} /\ i \notin FilesOf(id)
    BY <1>2, <2>1
  <2>3. \A j \in FilesOf(id) : dir'[j] = dir[j]
    BY <2>2 DEF FilesOf
  <2>4. Holding(id)' = Holding(id)
    BY <2>1, <2>3, HoldingStays
  <2> QED BY <1>1, <2>1, <2>2, <2>4 DEF Halves
<1>7. OwnTokens'
  BY <1>1 DEF OwnTokens
<1>8. PricedUnlessEdited'
  <2> SUFFICES ASSUME NEW s \in Requests, NEW id \in Ids, FilesOf(id) \cap touched'[Load] = {}
               PROVE  ToSet(tokens[s][id]) \subseteq ToSet(tokens[Load][id])
    BY <1>1 DEF PricedUnlessEdited, Ids, FilesOf, Files, NamesIt
  <2>0. s \in Readers /\ Load \in Readers
    BY DEF Readers
  <2>1. CASE pc[Load] # "idle"
    <3>1. FilesOf(id) \cap touched[Load] = {}
      BY <1>2, <2>0, <2>1
    <3> QED BY <1>1, <3>1 DEF PricedUnlessEdited
  <2>2. CASE pc[Load] = "idle"
    <3>1. CASE stage = "serve"
      <4>1. active = <<>>
        BY <1>1, <2>2, <3>1 DEF Phases, Done
      <4>2. nets[s] = {}
        BY <1>1, <2>0, <4>1 DEF DataTypes, ToSet
      <4>3. \A e \in ToSet(tokens[s][id]) : FALSE
        BY <1>1, <2>0, <4>2 DEF OwnTokens
      <4> QED BY <4>3
    <3>2. CASE stage # "serve"
      <4>1. pc[s] = "idle"
        BY <1>1, <2>0, <2>2, <3>2 DEF Phases, DataTypes
      <4>2. tokens[s][id] = <<>> /\ ToSet(<<>>) = {}
        BY <2>0, <4>1, NothingOf DEF ToSet
      <4> QED BY <4>2
    <3> QED BY <3>1, <3>2
  <2> QED BY <2>1, <2>2
<1>9. ListedIsFound'
  <2> SUFFICES ASSUME NEW s \in Requests, WalletsTxt \notin touched'[s]
               PROVE  /\ pc[s] = "unknown" => \A l \in ToSet(walletFile') :
                           l.is = "address" => l.wallet # asks[s].wallet
                      /\ ToSet(wallets[s]) \subseteq ToSet(walletFile')
    BY <1>1 DEF ListedIsFound, WalletsTxt
  <2>0. s \in Readers
    BY DEF Readers
  <2>1. CASE pc[s] = "idle"
    <3>1. wallets[s] = <<>> /\ ToSet(<<>>) = {}
      BY <1>1, <2>0, <2>1 DEF Untouched, ToSet
    <3> QED BY <2>1, <3>1
  <2>2. CASE pc[s] # "idle"
    <3>1. i # WalletsTxt /\ WalletsTxt \notin touched[s]
      BY <1>2, <2>0, <2>2
    <3> QED BY <1>1, <3>1 DEF ListedIsFound
  <2> QED BY <2>1, <2>2
<1> QED BY <1>3, <1>4, <1>5, <1>6, <1>7, <1>8, <1>9 DEF IInv

\* The inductive invariant, whatever the files hold and whenever they are edited.
THEOREM FilesInvariant == Spec => []IInv
<1>1. IInv /\ [Next]_vars => IInv'
  <2> SUFFICES ASSUME IInv, [Next]_vars PROVE IInv'
    OBVIOUS
  <2>1. CASE Activate \/ StartLoad \/ FinishLoad
    BY <2>1, StepActivate, StepStartLoad, StepFinishLoad
  <2>2. ASSUME NEW r \in Readers, ReadFile(r) PROVE IInv'
    BY <2>2, StepReadFile
  <2>3. ASSUME NEW r \in Requests, ReadWallets(r) \/ ListTokens(r) PROVE IInv'
    BY <2>3, StepReadWallets, StepListTokens
  <2>4. ASSUME NEW i \in Files, EditTokens(i) PROVE IInv'
    <3>1. DOMAIN dir = Files /\ (\A j \in Files : dir[j] \in Contents[j])
          /\ walletFile \in WalletFiles
      BY DEF IInv, DataTypes
    <3>2. PICK c \in Contents[i] : dir' = [dir EXCEPT ![i] = c]
      BY <2>4 DEF EditTokens
    <3>3. /\ DOMAIN dir' = Files /\ \A j \in Files : dir'[j] \in Contents[j]
          /\ \A j \in Files \ {i} : dir'[j] = dir[j]
      BY <3>1, <3>2
    <3>4. /\ Touch(i) /\ UNCHANGED <<stage, active, readerVars>> /\ UNCHANGED walletFile
          /\ walletFile' \in WalletFiles
      BY <2>4, <3>1 DEF EditTokens
    <3>5. i \in Files \cup {WalletsTxt} /\ i # WalletsTxt
      BY FilesNumbered
    <3> QED BY <3>3, <3>4, <3>5, StepEdit
  <2>5. CASE EditWallets
    <3> DEFINE i == WalletsTxt
    <3>1. DOMAIN dir = Files /\ \A j \in Files : dir[j] \in Contents[j]
      BY DEF IInv, DataTypes
    <3>2. /\ Touch(i) /\ UNCHANGED <<stage, active, readerVars>> /\ UNCHANGED dir
          /\ walletFile' \in WalletFiles /\ DOMAIN dir' = Files
          /\ \A j \in Files : dir'[j] \in Contents[j]
          /\ \A j \in Files \ {i} : dir'[j] = dir[j]
          /\ i \in Files \cup {WalletsTxt}
      BY <2>5, <3>1 DEF EditWallets
    <3> QED BY <3>2, StepEdit
  <2>6. CASE UNCHANGED vars
    <3>1. UNCHANGED <<stage, dir, walletFile, active, pc, asks, wallets, nets, todo,
                      tokens, touched, edits>>
      BY <2>6 DEF vars, fileVars, readerVars, history
    <3>2. DataTypes' /\ Phases'
      BY <3>1 DEF IInv, DataTypes, Phases, ActiveApart, Done
    <3>3. Parts'
      BY <3>1, SameParts DEF IInv
    <3> QED BY <3>2, <3>3 DEF IInv, Parts
  <2> QED BY <2>1, <2>2, <2>3, <2>4, <2>5, <2>6 DEF Next
<1> QED BY <1>1, InitIInv, PTL DEF Spec

-----------------------------------------------------------------------------
(* The properties. *)

\* The types, for any names in data/tokens: in particular no two active networks
\* share an identifier, a chain, a name or a price table.
THEOREM FilesTypes == Spec => []FilesTypeOK
<1>1. ASSUME DataTypes PROVE FilesTypeOK
  <2>1. ToSet(active) \subseteq Ids
    BY <1>1 DEF DataTypes, ToSet
  <2>2. ASSUME NEW r \in Readers
        PROVE  /\ ToSet(wallets[r]) \subseteq Spellings /\ nets[r] \subseteq ToSet(active)
               /\ ToSet(todo[r]) \subseteq Files /\ DOMAIN tokens[r] = Ids
               /\ touched[r] \subseteq Files \cup {WalletsTxt}
    BY <1>1 DEF DataTypes, ToSet
  <2> QED BY <1>1, <2>1, <2>2 DEF DataTypes, FilesTypeOK
<1>2. IInv => FilesTypeOK
  BY <1>1 DEF IInv
<1> QED BY <1>2, FilesInvariant, PTL

\* Whatever the files say of each other's tokens, a reader has of a network tokens of
\* its chain only, and of no network it did not ask for.
THEOREM TokensAreOwn == Spec => []OwnTokens
<1>1. IInv => OwnTokens
  BY DEF IInv
<1> QED BY <1>1, FilesInvariant, PTL

\* However many files name a network: if none of them is edited after the listing, a
\* reader ends with all they hold of it, in their order and each entry once.
THEOREM FilesReadWhole == Spec => []SteadyFilesWhole
<1>1. ASSUME IInv PROVE SteadyFilesWhole
  <2> SUFFICES ASSUME NEW r \in Readers, Done(r), NEW id \in nets[r],
                      FilesOf(id) \cap touched[r] = {}
               PROVE  tokens[r][id] = FlattenSeq([k \in DOMAIN InOrder(FilesOf(id)) |->
                                                    Holds(InOrder(FilesOf(id))[k], id)])
    BY DEF SteadyFilesWhole
  <2> DEFINE H == Holding(id)
             S == FilesOf(id)
             a == tokens[r][id]
             q == InOrder(S)
  <2>1. DataTypes /\ id \in Ids
    BY <1>1 DEF IInv, DataTypes, ToSet
  <2>2. H \in [Files -> Seq(Entries)] /\ AllFiles \in Seq(Files)
    BY <2>1, HoldingType, FilesNumbered
  <2>3. a \in Seq(Entries)
    BY <2>1 DEF DataTypes
  <2>4. a \o Gather(H, <<>>) = Gather(H, AllFiles)
    BY <1>1 DEF IInv, Halves, Done
  <2>5. \A i \in Files \ S : H[i] = <<>>
    BY DEF Holding
  <2>6. \A i \in S : H[i] = Holds(i, id)
    BY DEF Holding, FilesOf
  <2>7. q = Keep(AllFiles, S) /\ \A k \in DOMAIN q : q[k] \in S
    <3>1. ToSet(q) = Files \cap S
      BY OrderedFiles
    <3>2. q = Keep(AllFiles, S)
      BY DEF InOrder, AllFiles
    <3> HIDE DEF q, S
    <3> QED BY <3>1, <3>2 DEF ToSet
  <2>8. [k \in DOMAIN q |-> H[q[k]]] = [k \in DOMAIN q |-> Holds(q[k], id)]
    <3> HIDE DEF H, q, S
    <3> QED BY <2>6, <2>7
  <2> HIDE DEF H, S, a, q
  <2>9. Gather(H, Keep(AllFiles, S)) = Gather(H, AllFiles)
    BY <2>2, <2>5, GatherKeep
  <2>10. Gather(H, <<>>) = <<>>
    BY GatherNone
  <2>11. a \o <<>> = a
    BY <2>3
  <2>13. a = Gather(H, q)
    BY <2>4, <2>7, <2>9, <2>10, <2>11, Zenon
  <2> QED BY <2>8, <2>13 DEF Gather, a, q, S
<1>2. IInv => SteadyFilesWhole
  BY <1>1
<1> QED BY <1>2, FilesInvariant, PTL

\* However many requests read however often: they find no token that the price load
\* of the start has not asked for, unless a file of its network was edited since.
THEOREM NewTokensAreEdits == Spec => []PricedUnlessEdited
<1>1. IInv => PricedUnlessEdited
  BY DEF IInv
<1> QED BY <1>1, FilesInvariant, PTL

\* A listed address is found in any spelling, and under the spelling of the file.
THEOREM AddressesFound == Spec => []ListedIsFound
<1>1. IInv => ListedIsFound
  BY DEF IInv
<1> QED BY <1>1, FilesInvariant, PTL
=============================================================================
