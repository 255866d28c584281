----------------------------- MODULE ComposeDrain -----------------------------
(***************************************************************************)
(* The shutdown manager and the operation tracker as the compose commands  *)
(* use them (makeCustomRunner of internal/docker-compose/wrapper.go):      *)
(* each operation asks IsShuttingDown, and only then enters the tracker.   *)
(*                                                                         *)
(* In stamusd an operation runs inside an HTTP request and three handlers  *)
(* matter: the one that shuts the HTTP server down, the tracker's, and the *)
(* one that closes the Docker client.  In stamusctl the operation is the   *)
(* command itself and only the tracker's handler is registered.            *)
(***************************************************************************)
EXTENDS OperationTracker

CONSTANTS Handlers, Priority, Callers, Codes, Nobody,
          HttpServer, Tracker, DockerClient   \* handlers, registered or not

(***************************************************************************)
(* The priorities of handler.go: the server before the in-flight           *)
(* operations, these before the connections.                               *)
(***************************************************************************)
ASSUME DrainAssumption ==
    /\ Handlers \subseteq {HttpServer, Tracker, DockerClient}
    /\ Tracker \in Handlers
    /\ HttpServer # Tracker /\ Tracker # DockerClient /\ DockerClient # HttpServer
    /\ Nobody \notin Handlers
    /\ Priority \in [Handlers -> Int]
    /\ \A h \in Handlers \ {HttpServer} :
          HttpServer \in Handlers => Priority[HttpServer] < Priority[h]
    /\ Codes \subseteq Int

VARIABLES state, handlers, mu, cancelled, exitCode, closes, reg, pc, todo,
          expired, runs
VARIABLES
    command,     \* progress of the runner, or request, around each operation
    accepting,   \* the HTTP server accepts requests
    dockerOpen,  \* the Docker client has not been closed
    current      \* the handler each goroutine in Shutdown has invoked last

M == INSTANCE ShutdownManager

managerVars == <<state, handlers, mu, cancelled, exitCode, closes,
                 reg, pc, todo, expired, runs>>
commandVars == <<command, accepting, dockerOpen, current>>
drainVars   == <<managerVars, trackerVars, commandVars>>

DrainTypeOK ==
    /\ M!TypeOK
    /\ TypeOK
    /\ command \in [Ops -> {"none", "begun", "admitted", "refused", "ended"}]
    /\ accepting \in BOOLEAN
    /\ dockerOpen \in BOOLEAN
    /\ current \in [Callers -> Handlers \cup {Nobody}]

\* The handlers are registered before the first operation can begin.
DrainInit ==
    /\ handlers = Handlers /\ reg = [h \in Handlers |-> "accepted"]
    /\ state = "running" /\ mu = Nobody /\ cancelled = FALSE
    /\ exitCode = M!ExitSuccess /\ closes = 0 /\ expired = FALSE
    /\ pc = [p \in Callers |-> "idle"]
    /\ todo = [p \in Callers |-> {}]
    /\ runs = [h \in Handlers |-> 0]
    /\ Init
    /\ command = [o \in Ops |-> "none"]
    /\ accepting = TRUE
    /\ dockerOpen = TRUE
    /\ current = [p \in Callers |-> Nobody]

-----------------------------------------------------------------------------
(***************************************************************************)
(* The runner of a compose command.                                        *)
(***************************************************************************)
Become(o, progress) == command' = [command EXCEPT ![o] = progress]

Begin(o) ==
    /\ command[o] = "none"
    /\ accepting
    /\ Become(o, "begun")
    /\ UNCHANGED <<managerVars, trackerVars, accepting, dockerOpen, current>>

CheckShutdown(o) ==
    /\ command[o] = "begun"
    /\ Become(o, IF M!IsShuttingDown THEN "refused" ELSE "admitted")
    /\ UNCHANGED <<managerVars, trackerVars, accepting, dockerOpen, current>>

StartOperation(o) ==
    /\ command[o] = "admitted"
    /\ Start(o)
    /\ UNCHANGED <<managerVars, commandVars>>

\* Mutant: done() deletes the entry only.
FinishOperationHalf(o) ==
    /\ command[o] = "admitted"
    /\ DoneRemove(o)
    /\ UNCHANGED <<managerVars, commandVars>>

\* defer done(), when the compose command has returned.
FinishOperation(o) ==
    /\ command[o] = "admitted"
    /\ DoneRemove(o) \/ DoneCount(o)
    /\ UNCHANGED <<managerVars, commandVars>>

End(o) ==
    /\ \/ command[o] = "refused"
       \/ command[o] = "admitted" /\ op[o] = "finished"
    /\ Become(o, "ended")
    /\ UNCHANGED <<managerVars, trackerVars, accepting, dockerOpen, current>>

-----------------------------------------------------------------------------
(***************************************************************************)
(* Shutdown, with what the handlers do.                                    *)
(***************************************************************************)
InFlight(o) == command[o] \in {"begun", "admitted", "refused"}

\* Handler.Fn of each handler, as it is invoked.
InvokeHandler(h) ==
    /\ accepting' = (accepting /\ h # HttpServer)
    /\ dockerOpen' = (dockerOpen /\ h # DockerClient)
    /\ IF h = Tracker
       THEN \E w \in Waiters : WaitCall(w)
       ELSE UNCHANGED trackerVars

\* Mutant: srv.Close() instead of srv.Shutdown(ctx).
CanReturnUnwaited(h) ==
    h = Tracker => \E w \in Waiters : wait[w] \in {"drained", "timeout"}

\* srv.Shutdown waits for the requests, the tracker's handler for
\* WaitForCompletion; both give up with their context.
CanReturn(h) ==
    CASE h = HttpServer -> expired \/ \A o \in Ops : ~InFlight(o)
      [] h = Tracker    -> \E w \in Waiters : wait[w] \in {"drained", "timeout"}
      [] OTHER          -> TRUE

ShutdownStep(p) ==
    \/ /\ M!RunHandler(p)
       /\ \E h \in todo[p] \ todo'[p] :
             /\ InvokeHandler(h)
             /\ current' = [current EXCEPT ![p] = h]
       /\ UNCHANGED command
    \/ /\ M!HandlerReturns(p)
       /\ CanReturn(current[p])
       /\ UNCHANGED <<trackerVars, commandVars>>
    \/ /\ \/ M!CompareAndSwap(p) \/ M!CancelContext(p) \/ M!TakeSnapshot(p)
          \/ M!SkipRemaining(p) \/ M!AllHandled(p) \/ M!MarkStopped(p)
          \/ M!CloseDone(p)
       /\ UNCHANGED <<trackerVars, commandVars>>

Trigger(p) ==
    /\ M!Call(p)
    /\ UNCHANGED <<trackerVars, commandVars>>

Expire ==
    /\ M!ContextExpires
    /\ UNCHANGED <<trackerVars, commandVars>>

WaitStep(w) ==
    /\ Waiter(w) \/ WaitDrained(w) \/ WaitTimesOut(w)
    /\ UNCHANGED <<managerVars, commandVars>>

-----------------------------------------------------------------------------
\* A command that has begun goes on; none has to begin.
Proceed(o) ==
    CheckShutdown(o) \/ StartOperation(o) \/ FinishOperation(o) \/ End(o)

DrainNext ==
    /\ ~panicked
    /\ \/ \E o \in Ops : Begin(o) \/ Proceed(o)
       \/ \E p \in Callers : Trigger(p) \/ ShutdownStep(p)
       \/ \E w \in Waiters : WaitStep(w)
       \/ Expire

DrainSpec == DrainInit /\ [][DrainNext]_drainVars

\* Goroutines are scheduled, operations end, the tracker's own deadline passes.
DrainFairness ==
    /\ \A p \in Callers : WF_drainVars(~panicked /\ ShutdownStep(p))
    /\ \A w \in Waiters : WF_drainVars(~panicked /\ WaitStep(w))
    /\ \A o \in Ops : WF_drainVars(~panicked /\ Proceed(o))

FairDrainSpec == DrainSpec /\ DrainFairness

-----------------------------------------------------------------------------
(***************************************************************************)
(* Properties.                                                             *)
(***************************************************************************)
\* The Docker client is closed under no request's feet, even when a request
\* passed the IsShuttingDown check just before the state changed, or when a
\* wait timed out.
DockerOutlivesRequests == ~dockerOpen => \A o \in Ops : ~InFlight(o)

\* No operation enters the tracker while the tracker's wait group wakes its
\* waiter, which would end the process with a panic.
WaitGroupNotReused == ~panicked

\* "waits for in-flight operations to complete" (PriorityInFlight): when done
\* is closed before the timeout, and the tracker did not give up either, no
\* operation is in progress.
DoneMeansDrained ==
    closes > 0 /\ ~expired /\ (\A w \in Waiters : wait[w] # "timeout") =>
        \A o \in Ops : op[o] \in {"new", "finished"}

\* A command that was let in is not abandoned, and a shutdown that has begun is
\* not stuck behind it: both come to their end.
DrainCompletes ==
    /\ \A o \in Ops : command[o] = "admitted" ~> command[o] = "ended"
    /\ (state = "stopping") ~> (closes > 0)
=============================================================================
