--------------------------- MODULE ShutdownManager ---------------------------
(***************************************************************************)
(* The shutdown manager of internal/shutdown/manager.go, at the grain of   *)
(* its atomic operations and critical sections: any number of goroutines   *)
(* call Register, Shutdown and TriggerShutdown concurrently.               *)
(*                                                                         *)
(* A registration is identified with the handler it adds.  A caller is a   *)
(* goroutine that calls Shutdown or TriggerShutdown once.  The timeout     *)
(* value (SetTimeout) is abstracted: the cleanup context may expire at any *)
(* moment after it was created.                                            *)
(***************************************************************************)
EXTENDS Integers, FiniteSets

CONSTANTS Handlers,   \* the cleanup handlers that goroutines try to register
          Priority,   \* Handler.Priority of each, lower runs first
          Callers,    \* the goroutines that may call Shutdown/TriggerShutdown
          Codes,      \* the exit codes TriggerShutdown is called with
          Nobody      \* "the write lock is free"; not a handler

(***************************************************************************)
(* The exit codes of exitcodes.go.                                         *)
(***************************************************************************)
ExitSuccess == 0
ExitError   == 1
ExitTimeout == 124
ExitSIGINT  == 130
ExitSIGTERM == 143

ASSUME PriorityAssumption == Priority \in [Handlers -> Int]
ASSUME CodesAssumption    == Codes \subseteq Int
ASSUME NobodyAssumption   == Nobody \notin Handlers

VARIABLES
    state,      \* Manager.state: "running", "stopping", "stopped"
    handlers,   \* Manager.handlers; always sorted, so the set says it all
    mu,         \* holder of Manager.mu's write lock, or Nobody
    cancelled,  \* Manager.ctx has been cancelled
    exitCode,   \* Manager.exitCode
    closes,     \* how often Manager.done was closed (a second close panics)
    reg,        \* progress of the Register call for each handler
    pc,         \* progress of each caller's Shutdown call
    todo,       \* the handlers of its snapshot a caller has still to run
    expired,    \* the cleanup context of the running shutdown has expired
    runs        \* how often each handler's Fn was invoked

managerVars == <<state, handlers, mu, cancelled, exitCode, closes,
                 reg, pc, todo, expired, runs>>

TypeOK ==
    /\ state \in {"running", "stopping", "stopped"}
    /\ handlers \subseteq Handlers
    /\ mu \in Handlers \cup {Nobody}
    /\ cancelled \in BOOLEAN
    /\ exitCode \in Codes \cup {ExitSuccess, ExitTimeout}
    /\ closes \in Nat
    /\ reg \in [Handlers -> {"idle", "checked", "accepted", "rejected"}]
    /\ pc \in [Callers -> {"idle", "cas", "timeout", "snapshot", "loop",
                           "handler", "stop", "close", "returned"}]
    /\ todo \in [Callers -> SUBSET Handlers]
    /\ expired \in BOOLEAN
    /\ runs \in [Handlers -> Nat]

Init ==
    /\ state = "running"
    /\ handlers = {}
    /\ mu = Nobody
    /\ cancelled = FALSE
    /\ exitCode = ExitSuccess
    /\ closes = 0
    /\ reg = [h \in Handlers |-> "idle"]
    /\ pc = [p \in Callers |-> "idle"]
    /\ todo = [p \in Callers |-> {}]
    /\ expired = FALSE
    /\ runs = [h \in Handlers |-> 0]

IsShuttingDown == state # "running"

-----------------------------------------------------------------------------
(***************************************************************************)
(* Register.  The state is read under the write lock, but Shutdown moves   *)
(* the state without it: the append may come after the state has changed.  *)
(***************************************************************************)
\* Mutant: the write lock is not kept from the check to the append.
RegisterCheckUnlocked(h) ==
    /\ reg[h] = "idle"
    /\ mu = Nobody
    /\ ~IsShuttingDown
    /\ reg' = [reg EXCEPT ![h] = "checked"]
    /\ UNCHANGED <<state, handlers, mu, cancelled, exitCode, closes,
                   pc, todo, expired, runs>>

RegisterCheck(h) ==
    /\ reg[h] = "idle"
    /\ mu = Nobody
    /\ ~IsShuttingDown
    /\ mu' = h
    /\ reg' = [reg EXCEPT ![h] = "checked"]
    /\ UNCHANGED <<state, handlers, cancelled, exitCode, closes,
                   pc, todo, expired, runs>>

\* Mutant: the early return does not release the lock.
RegisterRejectLocked(h) ==
    /\ reg[h] = "idle"
    /\ mu = Nobody
    /\ IsShuttingDown
    /\ mu' = h
    /\ reg' = [reg EXCEPT ![h] = "rejected"]
    /\ UNCHANGED <<state, handlers, cancelled, exitCode, closes,
                   pc, todo, expired, runs>>

RegisterReject(h) ==
    /\ reg[h] = "idle"
    /\ mu = Nobody
    /\ IsShuttingDown
    /\ reg' = [reg EXCEPT ![h] = "rejected"]
    /\ UNCHANGED <<state, handlers, mu, cancelled, exitCode, closes,
                   pc, todo, expired, runs>>

RegisterAppend(h) ==
    /\ reg[h] = "checked"
    /\ handlers' = handlers \cup {h}
    /\ mu' = Nobody
    /\ reg' = [reg EXCEPT ![h] = "accepted"]
    /\ UNCHANGED <<state, cancelled, exitCode, closes,
                   pc, todo, expired, runs>>

-----------------------------------------------------------------------------
(***************************************************************************)
(* Shutdown and TriggerShutdown.                                           *)
(***************************************************************************)
Goto(p, label) == pc' = [pc EXCEPT ![p] = label]

CallShutdown(p) ==
    /\ pc[p] = "idle"
    /\ Goto(p, "cas")
    /\ UNCHANGED <<state, handlers, mu, cancelled, exitCode, closes,
                   reg, todo, expired, runs>>

\* TriggerShutdown stores its code whether or not a shutdown already runs.
CallTrigger(p, code) ==
    /\ pc[p] = "idle"
    /\ exitCode' = code
    /\ Goto(p, "cas")
    /\ UNCHANGED <<state, handlers, mu, cancelled, closes,
                   reg, todo, expired, runs>>

\* Mutant: only a shutdown that has finished turns the caller away.
CompareAndSwapLate(p) ==
    /\ pc[p] = "cas"
    /\ IF state # "stopped"
       THEN state' = "stopping" /\ Goto(p, "timeout")
       ELSE state' = state      /\ Goto(p, "returned")
    /\ UNCHANGED <<handlers, mu, cancelled, exitCode, closes,
                   reg, todo, expired, runs>>

CompareAndSwap(p) ==
    /\ pc[p] = "cas"
    /\ IF state = "running"
       THEN state' = "stopping" /\ Goto(p, "timeout")
       ELSE state' = state      /\ Goto(p, "returned")
    /\ UNCHANGED <<handlers, mu, cancelled, exitCode, closes,
                   reg, todo, expired, runs>>

\* Reads the timeout under the read lock, cancels the manager's context and
\* creates the cleanup context.
CancelContext(p) ==
    /\ pc[p] = "timeout"
    /\ mu = Nobody
    /\ cancelled' = TRUE
    /\ Goto(p, "snapshot")
    /\ UNCHANGED <<state, handlers, mu, exitCode, closes,
                   reg, todo, expired, runs>>

TakeSnapshot(p) ==
    /\ pc[p] = "snapshot"
    /\ mu = Nobody
    /\ todo' = [todo EXCEPT ![p] = handlers]
    /\ Goto(p, "loop")
    /\ UNCHANGED <<state, handlers, mu, cancelled, exitCode, closes,
                   reg, expired, runs>>

\* Mutant: the list is not sorted.
ForemostUnsorted(S) == S

\* The head of a sorted list; sort.Sort leaves the order of ties open.
Foremost(S) == {h \in S : \A g \in S : Priority[h] <= Priority[g]}

RunHandler(p) ==
    /\ pc[p] = "loop"
    /\ ~expired
    /\ \E h \in Foremost(todo[p]) :
          /\ todo' = [todo EXCEPT ![p] = @ \ {h}]
          /\ runs' = [runs EXCEPT ![h] = @ + 1]
    /\ Goto(p, "handler")
    /\ UNCHANGED <<state, handlers, mu, cancelled, exitCode, closes,
                   reg, expired>>

\* An error of the handler is logged and nothing else.
HandlerReturns(p) ==
    /\ pc[p] = "handler"
    /\ Goto(p, "loop")
    /\ UNCHANGED <<state, handlers, mu, cancelled, exitCode, closes,
                   reg, todo, expired, runs>>

\* Mutant: the code of an interrupt is stored instead of the timeout's.
SkipRemainingCode(p) ==
    /\ pc[p] = "loop"
    /\ expired
    /\ todo[p] # {}
    /\ exitCode' = ExitSIGINT
    /\ Goto(p, "stop")
    /\ UNCHANGED <<state, handlers, mu, cancelled, closes,
                   reg, todo, expired, runs>>

\* Mutant: no code is stored.
SkipRemainingSilent(p) ==
    /\ pc[p] = "loop"
    /\ expired
    /\ todo[p] # {}
    /\ Goto(p, "stop")
    /\ UNCHANGED <<state, handlers, mu, cancelled, exitCode, closes,
                   reg, todo, expired, runs>>

\* ctx.Err() is looked at before a handler starts, never after the last one.
SkipRemaining(p) ==
    /\ pc[p] = "loop"
    /\ expired
    /\ todo[p] # {}
    /\ exitCode' = ExitTimeout
    /\ Goto(p, "stop")
    /\ UNCHANGED <<state, handlers, mu, cancelled, closes,
                   reg, todo, expired, runs>>

\* Mutant: the loop may end with handlers left.
AllHandledEarly(p) ==
    /\ pc[p] = "loop"
    /\ Goto(p, "stop")
    /\ UNCHANGED <<state, handlers, mu, cancelled, exitCode, closes,
                   reg, todo, expired, runs>>

AllHandled(p) ==
    /\ pc[p] = "loop"
    /\ todo[p] = {}
    /\ Goto(p, "stop")
    /\ UNCHANGED <<state, handlers, mu, cancelled, exitCode, closes,
                   reg, todo, expired, runs>>

MarkStopped(p) ==
    /\ pc[p] = "stop"
    /\ state' = "stopped"
    /\ Goto(p, "close")
    /\ UNCHANGED <<handlers, mu, cancelled, exitCode, closes,
                   reg, todo, expired, runs>>

CloseDone(p) ==
    /\ pc[p] = "close"
    /\ closes' = closes + 1
    /\ Goto(p, "returned")
    /\ UNCHANGED <<state, handlers, mu, cancelled, exitCode,
                   reg, todo, expired, runs>>

\* The cleanup context exists from CancelContext until Shutdown returns.
ContextExpires ==
    /\ ~expired
    /\ \E p \in Callers : pc[p] \in {"snapshot", "loop", "handler", "stop", "close"}
    /\ expired' = TRUE
    /\ UNCHANGED <<state, handlers, mu, cancelled, exitCode, closes,
                   reg, pc, todo, runs>>

-----------------------------------------------------------------------------
Register(h) == RegisterCheck(h) \/ RegisterReject(h) \/ RegisterAppend(h)

\* The body of Shutdown after its call.
Shutdown(p) ==
    \/ CompareAndSwap(p)
    \/ CancelContext(p)
    \/ TakeSnapshot(p)
    \/ RunHandler(p)
    \/ HandlerReturns(p)
    \/ SkipRemaining(p)
    \/ AllHandled(p)
    \/ MarkStopped(p)
    \/ CloseDone(p)

Call(p) == CallShutdown(p) \/ \E code \in Codes : CallTrigger(p, code)

Next ==
    \/ \E h \in Handlers : Register(h)
    \/ \E p \in Callers : Call(p) \/ Shutdown(p)
    \/ ContextExpires

Spec == Init /\ [][Next]_managerVars

\* Goroutines that hold or wait for the lock, or run a shutdown, are
\* scheduled; handlers return; nobody has to call anything.
Fairness ==
    /\ \A p \in Callers : WF_managerVars(Shutdown(p))
    /\ \A h \in Handlers : WF_managerVars(RegisterAppend(h))

FairSpec == Spec /\ Fairness

-----------------------------------------------------------------------------
Owns(p)        == pc[p] \in {"timeout", "snapshot", "loop", "handler", "stop", "close"}
HasSnapshot(p) == pc[p] \in {"loop", "handler", "stop", "close"}
Ran            == {h \in Handlers : runs[h] > 0}

(***************************************************************************)
(* The registry is open until the snapshot of the handlers is taken, which *)
(* is later than the change of state IsShuttingDown() reports.             *)
(***************************************************************************)
Phase ==
    CASE closes > 0                       -> "closed"
      [] \E p \in Callers : HasSnapshot(p) -> "draining"
      [] OTHER                            -> "open"

Promise == INSTANCE GracefulShutdown
             WITH phase <- Phase, accepted <- handlers, ran <- Ran, late <- expired

(***************************************************************************)
(* The inductive invariant: what ties the state word, the lock, the owner  *)
(* of the shutdown and its list together between two atomic steps.         *)
(***************************************************************************)
LockInv ==
    /\ \A h \in Handlers : reg[h] = "checked" <=> mu = h
    /\ \A h \in Handlers : reg[h] = "accepted" <=> h \in handlers
    /\ \A p \in Callers : HasSnapshot(p) => mu = Nobody
    /\ closes > 0 => mu = Nobody

OwnerInv ==
    /\ \A p, q \in Callers : Owns(p) /\ Owns(q) => p = q
    /\ \A p \in Callers : Owns(p) => closes = 0 /\ IsShuttingDown
    /\ closes \in {0, 1}
    /\ closes > 0 => IsShuttingDown

ListInv ==
    /\ \A h \in Handlers : runs[h] \in {0, 1}
    /\ closes = 0 /\ (\A p \in Callers : ~HasSnapshot(p)) =>
          \A h \in Handlers : runs[h] = 0
    /\ \A p \in Callers : HasSnapshot(p) =>
          /\ handlers = todo[p] \cup Ran
          /\ todo[p] \cap Ran = {}
    /\ \A p \in Callers : pc[p] \in {"stop", "close"} => todo[p] = {} \/ expired
    /\ closes > 0 => handlers = Ran \/ expired
    /\ \A h \in Ran : \A g \in handlers \ Ran : Priority[h] <= Priority[g]

IInv == TypeOK /\ LockInv /\ OwnerInv /\ ListInv

(***************************************************************************)
(* Properties.                                                             *)
(***************************************************************************)
\* At most one goroutine is ever inside the body of Shutdown, no handler is
\* invoked twice, and the done channel is closed once only (closing it again
\* would panic), however many goroutines call Shutdown and TriggerShutdown.
OneShutdown ==
    /\ \A p, q \in Callers : Owns(p) /\ Owns(q) => p = q
    /\ \A h \in Handlers : runs[h] <= 1
    /\ closes <= 1
    /\ closes = 1 => \A p \in Callers : ~Owns(p)

\* A handler Register has accepted is never lost, although Shutdown changes
\* the state without the lock: once the snapshot is taken the handler has run
\* or is still on the list of the goroutine that shuts down.
AcceptedIsScheduled ==
    \A p \in Callers : HasSnapshot(p) =>
        \A h \in Handlers : reg[h] = "accepted" => h \in todo[p] \cup Ran

\* Waiters on Done() find every accepted handler run, unless the timeout cut
\* the shutdown short.
DoneMeansCleanedUp ==
    closes > 0 /\ ~expired =>
        \A h \in Handlers : reg[h] = "accepted" => h \in Ran

\* "Handlers are executed in priority order (lower priority numbers first)"
\* (Register): when a handler has run, no accepted handler of a lower number
\* is still waiting or has been skipped.
PriorityOrder ==
    \A h \in Ran : \A g \in Handlers \ Ran :
        reg[g] = "accepted" => Priority[h] <= Priority[g]

\* The manager implements the promise of GracefulShutdown: handlers accepted
\* only before the snapshot, invoked once each in priority order, none started
\* once the timeout has passed, done announced once and not too early.
KeepsPromise == Promise!Spec

\* A shutdown that somebody asked for completes: no registration, no handler
\* and no second caller can block it for ever.
ShutdownCompletes ==
    (\E p \in Callers : pc[p] = "cas") ~> (closes > 0)

\* "ExitTimeout indicates shutdown timeout was exceeded" (exitcodes.go): when
\* a handler is still busy as the timeout passes, the exit code says so.
OverrunIsReported ==
    (expired /\ \E p \in Callers : pc[p] = "handler") ~> (exitCode = ExitTimeout)
=============================================================================
