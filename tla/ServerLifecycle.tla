-------------------------- MODULE ServerLifecycle --------------------------
(***************************************************************************)
(* The process from main to its exit: configuration, prices, the server in *)
(* a goroutine of its own, the wait for a signal, and Shutdown with five   *)
(* seconds of grace.  net/http is modelled from how main.go uses it: it    *)
(* accepts connections, runs a handler for each, and Shutdown closes the   *)
(* listener and waits for the connections that are not idle.               *)
(***************************************************************************)
EXTENDS Configuration

CONSTANTS
  Clients,      \* each opens one connection and sends one request on it
  Values        \* values of the numeric settings in config.yml

ASSUME ValuesAssumption == Values \subseteq Int

VARIABLES
  stage,        \* where main is
  raw, cfg,     \* the settings in the file, and as Load leaves them
  prices,       \* what LoadAndCacheTokenPrices came to
  srv,          \* the goroutine of ListenAndServe
  inShutdown,   \* srv.inShutdown
  conn,         \* a client's connection and the request on it
  signalled,    \* signalChan holds a signal
  grace,        \* shutdownCtx: "off", "running", "over"
  exit          \* how the process ended ("fatal": os.Exit(1) or a crash)

vars == <<stage, raw, cfg, prices, srv, inShutdown, conn, signalled, grace, exit>>

\* What becomes of the connections when the process is gone.
Open == {"backlog", "new", "active"}
Cut  == conn' = [c \in Clients |-> IF conn[c] \in Open THEN "cut" ELSE conn[c]]

Init ==
  /\ stage = "config"
  /\ raw \in Settings(Values) /\ cfg = raw
  /\ prices = "none"
  /\ srv = "none" /\ inShutdown = FALSE
  /\ conn = [c \in Clients |-> "none"]
  /\ signalled = FALSE /\ grace = "off" /\ exit = "none"

Ends(how) == exit' = how /\ Cut

-----------------------------------------------------------------------------
(* main. *)

\* configloader.Load; a file that cannot be read or parsed ends the process.
LoadConfig ==
  /\ stage = "config"
  /\ \/ /\ cfg' = LoadedSettings(raw) /\ stage' = "load"
        /\ UNCHANGED <<conn, exit>>
     \/ Ends("fatal") /\ UNCHANGED <<stage, cfg>>
  /\ UNCHANGED <<raw, prices, srv, inShutdown, signalled, grace>>

\* The outcomes of TokenPriceLoad.  Bug: the error is logged and main goes on.
GoOn(outcome)  == outcome # "crashed"
MayServe(outcome) == outcome = "done"

LoadPrices ==
  /\ stage = "load"
  /\ \E outcome \in {"done", "failed", "crashed"} :
       /\ prices' = outcome
       /\ IF MayServe(outcome)
            THEN stage' = "start" /\ UNCHANGED <<conn, exit>>
            ELSE Ends("fatal") /\ UNCHANGED stage
  /\ UNCHANGED <<raw, cfg, srv, inShutdown, signalled, grace>>

\* go func() { ... srv.ListenAndServe() ... }
StartServer ==
  /\ stage = "start" /\ stage' = "notify"
  /\ srv' = "called"
  /\ UNCHANGED <<raw, cfg, prices, inShutdown, conn, signalled, grace, exit>>

\* signal.Notify: from here on a signal no longer kills.
RegisterSignals ==
  /\ stage = "notify" /\ stage' = "wait"
  /\ UNCHANGED <<raw, cfg, prices, srv, inShutdown, conn, signalled, grace, exit>>

\* context.WithTimeout of five seconds.  Bug: context.Background().
NoTimeout  == "off"
FiveSeconds == "running"

\* <-signalChan and the call of Shutdown: the listener is closed, with it what the
\* kernel has not handed over yet.
BeginShutdown ==
  /\ stage = "wait" /\ signalled
  /\ stage' = "drain" /\ signalled' = FALSE
  /\ inShutdown' = TRUE /\ grace' = FiveSeconds
  /\ conn' = [c \in Clients |-> IF conn[c] = "backlog" THEN "refused" ELSE conn[c]]
  /\ UNCHANGED <<raw, cfg, prices, srv, exit>>

\* Shutdown polls until no connection is busy.  Bug: srv.Close instead of Shutdown.
NoWait == TRUE
Quiet  == \A c \in Clients : conn[c] \notin Open

\* Shutdown returned, without or with the error of its context, and main ends.
ShutdownDone ==
  /\ stage = "drain" /\ Quiet
  /\ Ends("clean")
  /\ UNCHANGED <<stage, raw, cfg, prices, srv, inShutdown, signalled, grace>>

ShutdownLate ==
  /\ stage = "drain" /\ grace = "over"
  /\ Ends("late")
  /\ UNCHANGED <<stage, raw, cfg, prices, srv, inShutdown, signalled, grace>>

-----------------------------------------------------------------------------
(* The server's goroutine and the connections. *)

\* ListenAndServe returns: because the port is taken or Accept fails for good, or
\* with ErrServerClosed because Shutdown was called.
ServeReturns ==
  /\ srv \in {"called", "serving"}
  /\ srv' = IF inShutdown THEN "closed" ELSE "failed"
  /\ UNCHANGED <<stage, raw, cfg, prices, inShutdown, conn, signalled, grace, exit>>

\* Then the goroutine ends the process, unless it was ErrServerClosed.
OtherError == srv = "failed"

ServerFatal ==
  /\ OtherError
  /\ Ends("fatal")
  /\ UNCHANGED <<stage, raw, cfg, prices, srv, inShutdown, signalled, grace>>

Listen ==
  /\ srv = "called" /\ ~inShutdown
  /\ srv' = "serving"
  /\ UNCHANGED <<stage, raw, cfg, prices, inShutdown, conn, signalled, grace, exit>>

Moves(c, from, to) ==
  /\ conn[c] = from /\ conn' = [conn EXCEPT ![c] = to]
  /\ UNCHANGED <<stage, raw, cfg, prices, srv, inShutdown, signalled, grace, exit>>

Connect(c) == srv = "serving" /\ ~inShutdown /\ Moves(c, "none", "backlog")
Accept(c)  == srv = "serving" /\ ~inShutdown /\ Moves(c, "backlog", "new")
Handle(c)  == Moves(c, "new", "active")
Answer(c)  == Moves(c, "active", "answered")

\* Every poll of Shutdown closes the connections that have been without a request
\* for five seconds.
CloseStale(c) == stage = "drain" /\ Moves(c, "new", "refused")

Connection(c) == Connect(c) \/ Accept(c) \/ Handle(c) \/ Answer(c) \/ CloseStale(c)

-----------------------------------------------------------------------------
(* Around the process. *)

\* SIGINT or SIGTERM: before signal.Notify it kills, then it fills the channel of
\* one, and is lost when that is full.
Signal ==
  /\ IF stage \in {"wait", "drain"}
       THEN signalled' = TRUE /\ UNCHANGED <<conn, exit>>
       ELSE Ends("killed") /\ UNCHANGED signalled
  /\ UNCHANGED <<stage, raw, cfg, prices, srv, inShutdown, grace>>

GraceOver ==
  /\ grace = "running" /\ grace' = "over"
  /\ UNCHANGED <<stage, raw, cfg, prices, srv, inShutdown, conn, signalled, exit>>

Main == LoadConfig \/ LoadPrices \/ StartServer \/ RegisterSignals
        \/ BeginShutdown \/ ShutdownDone \/ ShutdownLate

Alive == exit = "none"

Next ==
  \/ Alive /\ \/ Main \/ GraceOver \/ Signal
              \/ Listen \/ ServeReturns \/ ServerFatal
              \/ \E c \in Clients : Connection(c)
  \/ ~Alive /\ UNCHANGED vars

Spec == Init /\ [][Next]_vars

\* main runs when it can and the timer fires.  Nothing is fair to a handler: the
\* server has no timeouts, and a batch to a network may take longer than the grace.
FairSpec == Spec /\ WF_vars(Alive /\ Main) /\ WF_vars(Alive /\ GraceOver)

-----------------------------------------------------------------------------
(* Properties. *)

\* The variables hold what the code's types allow, and Shutdown always runs under
\* a deadline: the type invariant.
LifecycleTypeOK ==
  /\ stage \in {"config", "load", "start", "notify", "wait", "drain"}
  /\ raw \in Settings(Values) /\ cfg \in Settings(Int)
  /\ prices \in {"none", "done", "failed", "crashed"}
  /\ srv \in {"none", "called", "serving", "failed", "closed"}
  /\ inShutdown \in BOOLEAN /\ signalled \in BOOLEAN
  /\ conn \in [Clients -> Open \cup {"none", "answered", "refused", "cut"}]
  /\ grace \in {"off", "running", "over"}
  /\ stage = "drain" <=> inShutdown
  /\ stage = "drain" <=> grace # "off"
  /\ exit \in {"none", "fatal", "killed", "clean", "late"}

\* Whatever config.yml says, the price load and the requests share one limit of at
\* least one goroutine (the fallbacks of five and one inside the services are
\* never used), a batch has a positive time and its size is never zero: this is
\* what PortfolioService and TokenPriceLoad assume (loader.go:88-128).
ConfigUsable ==
  stage # "config" =>
    /\ cfg.routines >= 1
    /\ ConcurrencyLimit(cfg) = MaxConcurrentRoutines(cfg)
    /\ cfg.rpcTimeout >= 1
    /\ cfg.batchSize # 0 /\ cfg.dexTimeout # 0

\* Nothing listens and no connection is accepted before the prices are loaded, and
\* all of it runs under usable settings; a process whose load failed never listens
\* (main.go:126, :160).
ServesReady ==
  /\ ConfigUsable
  /\ (srv # "none" \/ \E c \in Clients : conn[c] # "none") => prices = "done"

\* Once Shutdown was called the process ends as main decides, unless the listener
\* had failed before: that ListenAndServe then returns in the other goroutine does
\* not kill the answers Shutdown waits for.
ShutdownIsMains ==
  inShutdown => exit \in {"none", "clean", "late"} \/ srv = "failed"

\* A request that was accepted is cut off only by a failed listener, by a signal
\* before Notify, or when five seconds have passed after the signal; an exit in time
\* loses none, also when a second signal comes or the server's goroutine ends first
\* (main.go:160-181).
CutOnlyLate ==
  /\ ShutdownIsMains
  /\ \A c \in Clients : conn[c] = "cut" =>
       \/ exit = "late" /\ grace = "over"
       \/ exit = "fatal" /\ srv = "failed"
       \/ exit = "killed" /\ ~inShutdown

\* The first signal after Notify ends the process, however long the handlers take.
SignalEnds == signalled ~> exit # "none"
=============================================================================
