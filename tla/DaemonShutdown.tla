---------------------------- MODULE DaemonShutdown ----------------------------
(***************************************************************************)
(* How stamusd goes down (cmd/daemon/run/root.go): the shutdown manager,   *)
(* the signal loop ListenForSignals on the main goroutine, the goroutines  *)
(* it spawns to run Shutdown, and the goroutine that serves HTTP.          *)
(*                                                                         *)
(* The model starts when ListenForSignals has installed its channel: the   *)
(* handlers are registered, and until then a signal simply kills the       *)
(* process.  It ends with os.Exit on the code the loop returns.            *)
(***************************************************************************)
EXTENDS ShutdownManager, Sequences

CONSTANTS Server,      \* the goroutine of srv.ListenAndServe
          HttpServer,  \* the handler that calls srv.Shutdown
          Optional,    \* handlers registered only if their service was found
          MaxSignals   \* bound on the signals sent to the process

\* Every signal may spawn one goroutine, numbered as the signals are.
Spawned == 1 .. MaxSignals

ASSUME DaemonAssumption ==
    /\ MaxSignals \in Nat
    /\ Callers = Spawned \cup {Server}
    /\ Optional \subseteq Handlers
    /\ HttpServer \in Handlers \ Optional
    /\ Codes = {ExitError, ExitSIGINT, ExitSIGTERM}

SIGINT  == "SIGINT"
SIGTERM == "SIGTERM"

\* The codes of the switch in ListenForSignals.
CodeOf(sig) == IF sig = SIGTERM THEN ExitSIGTERM ELSE ExitSIGINT

Alive == -1     \* the process has not exited

VARIABLES
    sigChan,         \* the channel of signal.Notify, capacity 2
    lpc,             \* progress of the loop on the signal it took
    lsig,            \* that signal
    lastSignal,      \* Manager.lastSignalTime is set
    forceQuitCount,  \* Manager.forceQuitCount
    serverFailed,    \* ListenAndServe returned an error
    result,          \* what ListenForSignals returned, the exit status
    sent,            \* bound: signals sent so far
    forced,          \* history: the loop returned on the force-quit path
    taken,           \* history: how many of each signal the loop took
    burst            \* history: SIGINTs in a row, each within 2 s of the last

listenVars == <<sigChan, lpc, lsig, lastSignal, forceQuitCount,
                serverFailed, result, sent, forced, taken, burst>>
daemonVars == <<managerVars, listenVars>>

DaemonTypeOK ==
    /\ TypeOK
    /\ sigChan \in UNION {[1..n -> {SIGINT, SIGTERM}] : n \in 0..2}
    /\ lpc \in {"select", "decide", "store", "spawn"}
    /\ lsig \in {SIGINT, SIGTERM}
    /\ lastSignal \in BOOLEAN
    /\ forceQuitCount \in 0..MaxSignals
    /\ serverFailed \in BOOLEAN
    /\ result \in Codes \cup {Alive, ExitSuccess, ExitTimeout}
    /\ sent \in 0..MaxSignals
    /\ forced \in BOOLEAN
    /\ taken \in [{SIGINT, SIGTERM} -> 0..MaxSignals]
    /\ burst \in 0..MaxSignals

DaemonInit ==
    /\ handlers \in {Handlers, Handlers \ Optional}
    /\ reg = [h \in Handlers |-> IF h \in handlers THEN "accepted" ELSE "idle"]
    /\ state = "running" /\ mu = Nobody /\ cancelled = FALSE
    /\ exitCode = ExitSuccess /\ closes = 0 /\ expired = FALSE
    /\ pc = [p \in Callers |-> "idle"]
    /\ todo = [p \in Callers |-> {}]
    /\ runs = [h \in Handlers |-> 0]
    /\ sigChan = <<>> /\ lpc = "select" /\ lsig = SIGINT
    /\ lastSignal = FALSE /\ forceQuitCount = 0
    /\ serverFailed = FALSE /\ result = Alive /\ sent = 0
    /\ forced = FALSE /\ taken = [s \in {SIGINT, SIGTERM} |-> 0] /\ burst = 0

-----------------------------------------------------------------------------
\* Mutant: the channel is not bounded.
SignalArrivesUnbounded(sig) ==
    /\ sent < MaxSignals
    /\ sent' = sent + 1
    /\ sigChan' = Append(sigChan, sig)
    /\ UNCHANGED <<managerVars, lpc, lsig, lastSignal, forceQuitCount,
                   serverFailed, result, forced, taken, burst>>

\* A signal reaches the process; signal.Notify drops it when the channel is
\* full.
SignalArrives(sig) ==
    /\ sent < MaxSignals
    /\ sent' = sent + 1
    /\ sigChan' = IF Len(sigChan) < 2 THEN Append(sigChan, sig) ELSE sigChan
    /\ UNCHANGED <<managerVars, lpc, lsig, lastSignal, forceQuitCount,
                   serverFailed, result, forced, taken, burst>>

\* ListenAndServe fails, before the server's handler shut it down on purpose.
ServerFails ==
    /\ ~serverFailed
    /\ runs[HttpServer] = 0
    /\ serverFailed' = TRUE
    /\ UNCHANGED <<managerVars, sigChan, lpc, lsig, lastSignal, forceQuitCount,
                   result, sent, forced, taken, burst>>

ServerTriggers ==
    /\ serverFailed
    /\ CallTrigger(Server, ExitError)
    /\ UNCHANGED listenVars

-----------------------------------------------------------------------------
(***************************************************************************)
(* ListenForSignals.  soon: less than 2 s have passed since the signal     *)
(* before this one, which lastSignalTime records whatever its kind.        *)
(***************************************************************************)
QuitCount(sig, soon) ==
    IF sig # SIGINT THEN forceQuitCount
    ELSE IF soon THEN forceQuitCount + 1 ELSE 0

\* Mutant: one signal too many is asked for.
ForcesQuitLate(sig, soon) ==
    sig = SIGINT /\ soon /\ QuitCount(sig, soon) > 2 /\ IsShuttingDown

ForcesQuit(sig, soon) ==
    sig = SIGINT /\ soon /\ QuitCount(sig, soon) >= 2 /\ IsShuttingDown

TakeSignal(soon) ==
    /\ lpc = "select"
    /\ sigChan # <<>>
    /\ soon => lastSignal
    /\ LET sig == Head(sigChan) IN
          /\ lsig' = sig
          /\ forceQuitCount' = QuitCount(sig, soon)
          /\ IF ForcesQuit(sig, soon)
             THEN result' = ExitSIGINT /\ forced' = TRUE /\ lpc' = lpc
             ELSE UNCHANGED <<result, forced>> /\ lpc' = "decide"
          /\ taken' = [taken EXCEPT ![sig] = @ + 1]
          /\ burst' = IF sig = SIGTERM THEN 0
                      ELSE IF soon THEN burst + 1 ELSE 1
    /\ sigChan' = Tail(sigChan)
    /\ lastSignal' = TRUE
    /\ UNCHANGED <<managerVars, serverFailed, sent>>

\* if !m.IsShuttingDown() ...
Decide ==
    /\ lpc = "decide"
    /\ lpc' = IF IsShuttingDown THEN "select" ELSE "store"
    /\ UNCHANGED <<managerVars, sigChan, lsig, lastSignal, forceQuitCount,
                   serverFailed, result, sent, forced, taken, burst>>

\* Mutant: the code is not stored.
StoreCodeForgotten ==
    /\ lpc = "store"
    /\ lpc' = "spawn"
    /\ UNCHANGED <<managerVars, sigChan, lsig, lastSignal, forceQuitCount,
                   serverFailed, result, sent, forced, taken, burst>>

\* ... { m.exitCode.Store(...); go m.Shutdown() }
StoreCode ==
    /\ lpc = "store"
    /\ exitCode' = CodeOf(lsig)
    /\ lpc' = "spawn"
    /\ UNCHANGED <<state, handlers, mu, cancelled, closes, reg, pc, todo,
                   expired, runs, sigChan, lsig, lastSignal, forceQuitCount,
                   serverFailed, result, sent, forced, taken, burst>>

\* Mutant: the goroutine is not started.
SpawnShutdownForgotten ==
    /\ lpc = "spawn"
    /\ lpc' = "select"
    /\ UNCHANGED <<managerVars, sigChan, lsig, lastSignal, forceQuitCount,
                   serverFailed, result, sent, forced, taken, burst>>

SpawnShutdown ==
    /\ lpc = "spawn"
    /\ CallShutdown(taken[SIGINT] + taken[SIGTERM])
    /\ lpc' = "select"
    /\ UNCHANGED <<sigChan, lsig, lastSignal, forceQuitCount,
                   serverFailed, result, sent, forced, taken, burst>>

\* Mutant: waits for Context().Done() instead of Done().
ReturnWhenCancelled ==
    /\ lpc = "select"
    /\ cancelled
    /\ result' = exitCode
    /\ UNCHANGED <<managerVars, sigChan, lpc, lsig, lastSignal, forceQuitCount,
                   serverFailed, sent, forced, taken, burst>>

ReturnWhenDone ==
    /\ lpc = "select"
    /\ closes > 0
    /\ result' = exitCode
    /\ UNCHANGED <<managerVars, sigChan, lpc, lsig, lastSignal, forceQuitCount,
                   serverFailed, sent, forced, taken, burst>>

-----------------------------------------------------------------------------
Listen ==
    \/ \E soon \in BOOLEAN : TakeSignal(soon)
    \/ Decide
    \/ StoreCode
    \/ SpawnShutdown
    \/ ReturnWhenDone

RunShutdown(p) == Shutdown(p) /\ UNCHANGED listenVars

\* os.Exit(result) stops every goroutine.
DaemonNext ==
    /\ result = Alive
    /\ \/ \E sig \in {SIGINT, SIGTERM} : SignalArrives(sig)
       \/ ServerFails
       \/ ServerTriggers
       \/ Listen
       \/ \E p \in Callers : RunShutdown(p)
       \/ ContextExpires /\ UNCHANGED listenVars

DaemonSpec == DaemonInit /\ [][DaemonNext]_daemonVars

\* Every goroutine is scheduled; every handler returns (they end with the
\* context, or close a client).
DaemonFairness ==
    /\ WF_daemonVars(result = Alive /\ Listen)
    /\ WF_daemonVars(result = Alive /\ ServerTriggers)
    /\ \A p \in Callers : WF_daemonVars(result = Alive /\ RunShutdown(p))

FairDaemonSpec == DaemonSpec /\ DaemonFairness

-----------------------------------------------------------------------------
(***************************************************************************)
(* Properties.                                                             *)
(***************************************************************************)
Exited == result # Alive

\* What may have ended the process: signals taken and a failed server.
Causes == taken[SIGINT] + taken[SIGTERM] + (IF serverFailed THEN 1 ELSE 0)

\* The exit status names something that happened: never 0, a signal's code only
\* after that signal, ExitError only after the server failed, ExitTimeout only
\* after the timeout, in every order of signals, failures and goroutines.
ExitStatusHasCause ==
    Exited =>
        /\ result # ExitSuccess
        /\ result = ExitSIGINT  => taken[SIGINT] > 0
        /\ result = ExitSIGTERM => taken[SIGTERM] > 0
        /\ result = ExitError   => serverFailed
        /\ result = ExitTimeout => expired

\* Unless the user forced it, the process exits only when every registered
\* handler has run or the timeout has passed, and no handler is in progress.
ExitIsClean ==
    Exited /\ ~forced =>
        /\ handlers = Ran \/ expired
        /\ \A p \in Callers : ~Owns(p)

\* When one thing alone brought the daemon down, a shutdown that skipped
\* handlers because of the timeout exits with ExitTimeout.
SkippedIsReported ==
    Exited /\ Causes = 1 /\ handlers # Ran => result = ExitTimeout

\* Three SIGINTs in a row, each within 2 s of the one before, end the process
\* at the third if a shutdown has begun by then.
ThirdInterruptForces ==
    [][burst' > burst /\ burst' >= 3 /\ IsShuttingDown
        => result' = ExitSIGINT]_daemonVars

\* A signal the loop took, or a server that failed, brings the daemon down.
DaemonExits == (Causes > 0) ~> Exited

\* "Double SIGINT within 2 seconds forces immediate exit." (ListenForSignals)
DoubleInterruptForces == burst >= 2 => Exited
=============================================================================
