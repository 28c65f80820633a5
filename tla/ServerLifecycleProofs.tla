------------------------ MODULE ServerLifecycleProofs ------------------------
(***************************************************************************)
(* Proofs about ServerLifecycle, for any clients and any settings.         *)
(***************************************************************************)
EXTENDS ServerLifecycle, TLAPS

\* What ties the goroutines together: before main is past the load there is no
\* server and no connection, after it the prices are there; nothing is cut off
\* while the process lives.
Order ==
  /\ stage \in {"config", "load"} => srv = "none"
  /\ stage \notin {"config", "load"} => prices = "done"
  /\ srv = "none" => \A c \in Clients : conn[c] = "none"
  /\ exit = "none" => \A c \in Clients : conn[c] # "cut"

IInv == /\ LifecycleTypeOK /\ Order
        /\ ConfigUsable /\ ShutdownIsMains /\ CutOnlyLate

\* Load leaves settings the services can use, whatever integers the file has.
LEMMA LoadedIsUsable ==
  ASSUME NEW r \in Settings(Values), NEW c, c = LoadedSettings(r)
  PROVE  /\ c \in Settings(Int)
         /\ c.routines >= 1 /\ c.rpcTimeout >= 1
         /\ ConcurrencyLimit(c) = MaxConcurrentRoutines(c)
         /\ c.batchSize # 0 /\ c.dexTimeout # 0
<1>1. /\ r.routines \in Int /\ r.rpcTimeout \in Int
      /\ r.dexTimeout \in Int /\ r.batchSize \in Int
  BY ValuesAssumption DEF Settings
<1>2. /\ c.routines \in Int /\ c.routines >= 1
      /\ c.rpcTimeout \in Int /\ c.rpcTimeout >= 1
      /\ c.dexTimeout \in Int /\ c.dexTimeout # 0
      /\ c.batchSize \in Int /\ c.batchSize # 0
  BY <1>1 DEF LoadedSettings, UnlessPositive
<1>3. c \in Settings(Int)
  BY <1>2 DEF LoadedSettings, Settings
<1>4. ConcurrencyLimit(c) = MaxConcurrentRoutines(c)
  BY <1>2 DEF ConcurrencyLimit, MaxConcurrentRoutines
<1> QED
  BY <1>2, <1>3, <1>4

\* A connection that Cut leaves is one of those there were, or cut.
LEMMA CutLeaves ==
  ASSUME LifecycleTypeOK, Cut
  PROVE  /\ conn' \in [Clients -> Open \cup {"none", "answered", "refused", "cut"}]
         /\ \A c \in Clients : conn'[c] = "cut" => conn[c] \in Open \cup {"cut"}
         /\ \A c \in Clients : conn[c] = "none" => conn'[c] = "none"
BY DEF LifecycleTypeOK, Cut, Open

LEMMA InitIInv == Init => IInv
BY ValuesAssumption
DEF Init, IInv, LifecycleTypeOK, Order, ConfigUsable, ShutdownIsMains,
    CutOnlyLate, Settings, Open

\* main.
LEMMA MainStep == IInv /\ Alive /\ Main => IInv'
<1> SUFFICES ASSUME IInv, Alive, Main PROVE IInv'
  OBVIOUS
<1> USE DEF IInv, LifecycleTypeOK, Order, ShutdownIsMains, CutOnlyLate, Alive
<1>1. CASE LoadConfig
  <2>1. CASE stage' = "load"
    <3>1. cfg' = LoadedSettings(raw) /\ raw \in Settings(Values)
      BY <1>1, <2>1 DEF LoadConfig
    <3> QED
      BY <1>1, <2>1, <3>1, LoadedIsUsable DEF LoadConfig, ConfigUsable
  <2>2. CASE Ends("fatal") /\ UNCHANGED <<stage, cfg>>
    BY <1>1, <2>2, CutLeaves DEF LoadConfig, Ends, ConfigUsable, Open
  <2> QED
    BY <1>1, <2>1, <2>2 DEF LoadConfig
<1>2. CASE LoadPrices
  <2>1. CASE stage' = "start"
    BY <1>2, <2>1 DEF LoadPrices, MayServe, ConfigUsable
  <2>2. CASE Ends("fatal") /\ UNCHANGED stage
    BY <1>2, <2>2, CutLeaves DEF LoadPrices, Ends, ConfigUsable, Open
  <2> QED
    BY <1>2, <2>1, <2>2 DEF LoadPrices
<1>3. CASE StartServer
  BY <1>3 DEF StartServer, ConfigUsable
<1>4. CASE RegisterSignals
  BY <1>4 DEF RegisterSignals, ConfigUsable
<1>5. CASE BeginShutdown
  BY <1>5 DEF BeginShutdown, FiveSeconds, ConfigUsable, Open
<1>6. CASE ShutdownDone
  BY <1>6, CutLeaves DEF ShutdownDone, Quiet, Ends, ConfigUsable, Open
<1>7. CASE ShutdownLate
  BY <1>7, CutLeaves DEF ShutdownLate, Ends, ConfigUsable, Open
<1> QED
  BY <1>1, <1>2, <1>3, <1>4, <1>5, <1>6, <1>7 DEF Main

\* The server's goroutine, its connections, signals and the timer.
LEMMA OtherStep ==
  ASSUME IInv, Alive,
         \/ GraceOver \/ Signal \/ Listen \/ ServeReturns \/ ServerFatal
         \/ \E c \in Clients : Connection(c)
  PROVE  IInv'
<1> USE DEF IInv, LifecycleTypeOK, Order, ShutdownIsMains, CutOnlyLate, Alive,
            ConfigUsable
<1>1. CASE GraceOver
  BY <1>1 DEF GraceOver
<1>2. CASE Signal
  BY <1>2, CutLeaves DEF Signal, Ends, Open
<1>3. CASE Listen
  BY <1>3 DEF Listen
<1>4. CASE ServeReturns
  BY <1>4 DEF ServeReturns
<1>5. CASE ServerFatal
  BY <1>5, CutLeaves DEF ServerFatal, OtherError, Ends, Open
<1>6. ASSUME NEW c \in Clients, Connection(c) PROVE IInv'
  BY <1>6 DEF Connection, Connect, Accept, Handle, Answer, CloseStale, Moves, Open
<1> QED
  BY <1>1, <1>2, <1>3, <1>4, <1>5, <1>6

\* The inductive invariant, for any number of clients and any settings.
THEOREM LifecycleInvariant == Spec => []IInv
<1>1. IInv /\ [Next]_vars => IInv'
  <2> SUFFICES ASSUME IInv, [Next]_vars PROVE IInv'
    OBVIOUS
  <2>1. CASE UNCHANGED vars
    BY <2>1 DEF vars, IInv, LifecycleTypeOK, Order, ConfigUsable,
                ShutdownIsMains, CutOnlyLate
  <2>2. CASE Alive /\ Main
    BY <2>2, MainStep
  <2>3. CASE Alive /\ ~Main /\ Next
    BY <2>3, OtherStep DEF Next
  <2> QED
    BY <2>1, <2>2, <2>3 DEF Next
<1> QED
  BY InitIInv, <1>1, PTL DEF Spec

\* The types, and that Shutdown always has its deadline (main.go:174).
THEOREM LifecycleTypeCorrect == Spec => []LifecycleTypeOK
<1>1. IInv => LifecycleTypeOK
  BY DEF IInv
<1> QED
  BY LifecycleInvariant, <1>1, PTL

\* Whatever listens has its prices, under settings the services can use, for any
\* clients and any integers in config.yml.
THEOREM ReadyBeforeServing == Spec => []ServesReady
<1>1. IInv => ServesReady
  BY DEF IInv, LifecycleTypeOK, Order, ServesReady
<1> QED
  BY LifecycleInvariant, <1>1, PTL

\* The end of the server's goroutine does not end a shutdown, and no number of
\* clients and no order of their steps loses an accepted request in an exit that is
\* in time.
THEOREM OnlyLateExitsCut == Spec => []CutOnlyLate
<1>1. IInv => CutOnlyLate
  BY DEF IInv
<1> QED
  BY LifecycleInvariant, <1>1, PTL

-----------------------------------------------------------------------------
(* The way out: what SignalEnds has without fairness. *)

\* A signal has come after Notify, or main already shuts down.
Leaving == Alive /\ (signalled \/ stage = "drain")

\* The steps of main and of the timer that are left, at most.
StepsLeft ==
  CASE ~Alive -> 0
    [] Alive /\ stage = "drain" -> IF grace = "over" THEN 1 ELSE 2
    [] Alive /\ stage = "wait" -> 3
    [] OTHER -> 4

\* While the process leaves, main can take the signal or the timer of Shutdown runs or
\* has run out.
WayOut ==
  Leaving => \/ stage = "wait" /\ signalled
             \/ stage = "drain" /\ grace \in {"running", "over"}

\* Only main and the timer matter: nothing that clients, a second signal or the
\* server's goroutine do brings a process that leaves further from its end.
ComesNearer ==
  Leaving => /\ StepsLeft' < StepsLeft \/ (StepsLeft' = StepsLeft /\ Leaving')
             /\ Main \/ GraceOver => StepsLeft' < StepsLeft

\* A signal ends the process in at most three steps of main and its timer, whatever the
\* handlers do (main.go:164-181).
THEOREM SignalLeadsOut == Spec => []WayOut /\ [][ComesNearer]_vars
<1> DEFINE Noticed == signalled => stage \in {"wait", "drain"}
<1>1. Init => Noticed
  BY DEF Init
<1>2. Noticed /\ [Next]_vars => Noticed'
  <2> USE DEF LoadConfig, LoadPrices, StartServer, RegisterSignals, BeginShutdown,
              ShutdownDone, ShutdownLate, Signal, GraceOver, Listen, ServeReturns,
              ServerFatal, Connection, Connect, Accept, Handle, Answer, CloseStale,
              Moves, vars
  <2> SUFFICES ASSUME Noticed, [Next]_vars PROVE Noticed'
    OBVIOUS
  <2>1. CASE Main
    BY <2>1 DEF Main
  <2>2. CASE ~Main
    BY <2>2 DEF Next
  <2> QED BY <2>1, <2>2
<1>3. LifecycleTypeOK /\ Noticed => WayOut
  BY DEF LifecycleTypeOK, WayOut, Leaving
<1>4. LifecycleTypeOK /\ LifecycleTypeOK' /\ Noticed /\ [Next]_vars
        => [ComesNearer]_vars
  <2> SUFFICES ASSUME LifecycleTypeOK, LifecycleTypeOK', Noticed, Next, Leaving
               PROVE  /\ \/ StepsLeft' < StepsLeft
                         \/ StepsLeft' = StepsLeft /\ Leaving'
                      /\ Main \/ GraceOver => StepsLeft' < StepsLeft
    BY DEF ComesNearer
  <2>0. stage \in {"wait", "drain"} /\ Alive
    BY DEF Leaving
  <2>l. /\ ~Alive => StepsLeft = 0
        /\ Alive /\ stage = "drain" /\ grace = "over" => StepsLeft = 1
        /\ Alive /\ stage = "drain" /\ grace # "over" => StepsLeft = 2
        /\ Alive /\ stage = "wait" => StepsLeft = 3
    BY DEF StepsLeft
  <2>m. /\ ~Alive' => StepsLeft' = 0
        /\ Alive' /\ stage' = "drain" /\ grace' = "over" => StepsLeft' = 1
        /\ Alive' /\ stage' = "drain" /\ grace' # "over" => StepsLeft' = 2
        /\ Alive' /\ stage' = "wait" => StepsLeft' = 3
    BY DEF StepsLeft
  <2> USE DEF Alive, Leaving, Ends
  <2>1. CASE Main
    <3>1. BeginShutdown \/ ShutdownDone \/ ShutdownLate
      BY <2>0, <2>1 DEF Main, LoadConfig, LoadPrices, StartServer, RegisterSignals
    <3> QED BY <2>0, <2>l, <2>m, <3>1
            DEF BeginShutdown, FiveSeconds, ShutdownDone, ShutdownLate
  <2>2. CASE GraceOver
    BY <2>0, <2>2, <2>l, <2>m DEF GraceOver, LifecycleTypeOK
  <2>3. CASE ~Main /\ ~GraceOver
    <3>1. CASE Signal
      BY <2>0, <2>3, <2>l, <2>m, <3>1 DEF Signal
    <3>2. CASE ServerFatal
      BY <2>0, <2>3, <2>l, <2>m, <3>2 DEF ServerFatal
    <3>3. CASE ~Signal /\ ~ServerFatal
      <4>1. UNCHANGED <<stage, signalled, grace, exit>>
        BY <2>0, <2>3, <3>3
        DEF Next, Listen, ServeReturns, Connection, Connect, Accept, Handle, Answer,
            CloseStale, Moves
      <4> QED BY <2>0, <2>3, <2>l, <2>m, <4>1
    <3> QED BY <3>1, <3>2, <3>3
  <2> QED BY <2>1, <2>2, <2>3
<1> QED BY <1>1, <1>2, <1>3, <1>4, LifecycleTypeCorrect, PTL DEF Spec
=============================================================================
