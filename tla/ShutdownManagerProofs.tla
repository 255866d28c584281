------------------------ MODULE ShutdownManagerProofs ------------------------
(***************************************************************************)
(* Theorems about ShutdownManager for any sets of handlers and callers,    *)
(* any priorities and any exit codes.                                      *)
(***************************************************************************)
EXTENDS DaemonShutdown, SequenceTheorems, TLAPS

USE DEF Owns, HasSnapshot, Ran, IsShuttingDown, Goto

\* The initial values have the declared types.
LEMMA InitType == Init => TypeOK
<1> SUFFICES ASSUME Init PROVE TypeOK
  OBVIOUS
<1>1. reg \in [Handlers -> {"idle", "checked", "accepted", "rejected"}]
  BY DEF Init
<1>2. pc \in [Callers -> {"idle", "cas", "timeout", "snapshot", "loop",
                          "handler", "stop", "close", "returned"}]
  BY DEF Init
<1>3. todo \in [Callers -> SUBSET Handlers] /\ runs \in [Handlers -> Nat]
  BY DEF Init
<1>4. /\ state \in {"running", "stopping", "stopped"}
      /\ cancelled \in BOOLEAN /\ expired \in BOOLEAN
      /\ handlers \subseteq Handlers /\ closes \in Nat
      /\ mu \in Handlers \cup {Nobody}
      /\ exitCode \in Codes \cup {ExitSuccess, ExitTimeout}
  BY DEF Init
<1> QED BY <1>1, <1>2, <1>3, <1>4 DEF TypeOK

\* Every step of the manager keeps the types.
LEMMA StepType == TypeOK /\ [Next]_managerVars => TypeOK'
<1> SUFFICES ASSUME TypeOK, [Next]_managerVars PROVE TypeOK'
  OBVIOUS
<1> USE PriorityAssumption, CodesAssumption, NobodyAssumption DEF TypeOK
<1>1. ASSUME NEW h \in Handlers, Register(h) PROVE TypeOK'
  BY <1>1 DEF Register, RegisterCheck, RegisterReject, RegisterAppend
<1>2. ASSUME NEW p \in Callers, Call(p) PROVE TypeOK'
  BY <1>2 DEF Call, CallShutdown, CallTrigger
<1>3. ASSUME NEW p \in Callers, Shutdown(p) PROVE TypeOK'
  <2>1. CASE CompareAndSwap(p)   BY <2>1 DEF CompareAndSwap
  <2>2. CASE CancelContext(p)    BY <2>2 DEF CancelContext
  <2>3. CASE TakeSnapshot(p)     BY <2>3 DEF TakeSnapshot
  <2>4. CASE RunHandler(p)       BY <2>4 DEF RunHandler, Foremost
  <2>5. CASE HandlerReturns(p)   BY <2>5 DEF HandlerReturns
  <2>6. CASE SkipRemaining(p)    BY <2>6 DEF SkipRemaining
  <2>7. CASE AllHandled(p)       BY <2>7 DEF AllHandled
  <2>8. CASE MarkStopped(p)      BY <2>8 DEF MarkStopped
  <2>9. CASE CloseDone(p)        BY <2>9 DEF CloseDone
  <2> QED BY <1>3, <2>1, <2>2, <2>3, <2>4, <2>5, <2>6, <2>7, <2>8, <2>9 DEF Shutdown
<1>4. CASE ContextExpires
  BY <1>4 DEF ContextExpires
<1>5. CASE UNCHANGED managerVars
  BY <1>5 DEF managerVars
<1> QED BY <1>1, <1>2, <1>3, <1>4, <1>5 DEF Next

\* Type correctness of the manager: every variable keeps its type.
THEOREM TypeCorrect == Spec => []TypeOK
BY InitType, StepType, PTL DEF Spec

\* The initial states satisfy the inductive invariant.
LEMMA InitInvariant == Init => IInv
<1> SUFFICES ASSUME Init PROVE IInv
  OBVIOUS
<1>1. LockInv  BY NobodyAssumption DEF Init, LockInv
<1>2. OwnerInv BY DEF Init, OwnerInv
<1>3. ListInv  BY DEF Init, ListInv
<1> QED BY InitType, <1>1, <1>2, <1>3 DEF IInv

\* Every step of the manager preserves the inductive invariant.
LEMMA StepInvariant == IInv /\ TypeOK' /\ [Next]_managerVars => IInv'
<1> SUFFICES ASSUME IInv, TypeOK', [Next]_managerVars PROVE IInv'
  OBVIOUS
<1> USE NobodyAssumption, PriorityAssumption DEF IInv, TypeOK
<1>1. ASSUME NEW h \in Handlers, Register(h) PROVE IInv'
  <2> USE DEF RegisterCheck, RegisterReject, RegisterAppend
  <2>1. LockInv'  BY <1>1 DEF Register, LockInv, OwnerInv
  <2>2. OwnerInv' BY <1>1 DEF Register, OwnerInv
  <2>3. ListInv'  BY <1>1 DEF Register, ListInv, LockInv
  <2> QED BY <2>1, <2>2, <2>3
<1>2. ASSUME NEW p \in Callers, Call(p) PROVE IInv'
  <2> USE DEF Call, CallShutdown, CallTrigger
  <2>1. LockInv'  BY <1>2 DEF LockInv
  <2>2. OwnerInv' BY <1>2 DEF OwnerInv
  <2>3. ListInv'  BY <1>2 DEF ListInv
  <2> QED BY <2>1, <2>2, <2>3
<1>3. ASSUME NEW p \in Callers, Shutdown(p) PROVE IInv'
  <2>1. CASE CompareAndSwap(p)
    <3> USE <2>1 DEF CompareAndSwap
    <3>1. LockInv'  BY DEF LockInv
    <3>2. OwnerInv' BY DEF OwnerInv
    <3>3. ListInv'  BY DEF ListInv
    <3> QED BY <3>1, <3>2, <3>3
  <2>2. CASE CancelContext(p)
    <3> USE <2>2 DEF CancelContext
    <3>1. LockInv'  BY DEF LockInv
    <3>2. OwnerInv' BY DEF OwnerInv
    <3>3. ListInv'  BY DEF ListInv
    <3> QED BY <3>1, <3>2, <3>3
  <2>3. CASE TakeSnapshot(p)
    <3> USE <2>3 DEF TakeSnapshot
    <3>1. LockInv'  BY DEF LockInv
    <3>2. OwnerInv' BY DEF OwnerInv
    <3>3. \A q \in Callers : ~HasSnapshot(q)
      BY DEF OwnerInv
    <3>4. ListInv'  BY <3>3 DEF ListInv, OwnerInv
    <3> QED BY <3>1, <3>2, <3>4
  <2>4. CASE RunHandler(p)
    <3>1. PICK h \in Foremost(todo[p]) :
             /\ todo' = [todo EXCEPT ![p] = @ \ {h}]
             /\ runs' = [runs EXCEPT ![h] = @ + 1]
      BY <2>4 DEF RunHandler
    <3>2. h \in Handlers /\ h \in todo[p]
      BY DEF Foremost
    <3>3. handlers = todo[p] \cup Ran /\ todo[p] \cap Ran = {}
      BY <2>4 DEF RunHandler, ListInv
    <3>4. runs[h] = 0 /\ Ran' = Ran \cup {h}
      BY <3>1, <3>2, <3>3 DEF ListInv
    <3>5. LockInv'  BY <2>4 DEF RunHandler, LockInv
    <3>6. OwnerInv' BY <2>4 DEF RunHandler, OwnerInv
    <3>7. \A q \in Callers : HasSnapshot(q)' => q = p
      BY <2>4 DEF RunHandler, OwnerInv
    <3>8. \A f \in Ran' : \A g \in handlers' \ Ran' : Priority[f] <= Priority[g]
      <4>1. \A g \in todo[p] : Priority[h] <= Priority[g]
        BY DEF Foremost
      <4>2. \A f \in Ran : \A g \in handlers \ Ran : Priority[f] <= Priority[g]
        BY DEF ListInv
      <4>3. handlers' = handlers
        BY <2>4 DEF RunHandler
      <4>4. ASSUME NEW f \in Ran', NEW g \in handlers' \ Ran'
            PROVE  Priority[f] <= Priority[g]
        <5>1. g \in todo[p] /\ g \in handlers \ Ran
          BY <3>3, <3>4, <4>3, <4>4
        <5>2. CASE f = h  BY <5>1, <5>2, <4>1
        <5>3. CASE f \in Ran  BY <5>1, <5>3, <4>2
        <5> QED BY <5>2, <5>3, <3>4
      <4> QED BY <4>4
    <3>9. ListInv'
      <4>1. \A f \in Handlers : runs'[f] \in {0, 1}
        BY <3>1, <3>2, <3>4 DEF ListInv
      <4>2. HasSnapshot(p)' /\ closes' = 0 /\ handlers' = handlers /\ pc'[p] = "handler"
        BY <2>4 DEF RunHandler, OwnerInv
      <4>3. handlers' = todo'[p] \cup Ran' /\ todo'[p] \cap Ran' = {}
        BY <3>1, <3>2, <3>3, <3>4, <4>2
      <4>4. closes' = 0 /\ (\A q \in Callers : ~HasSnapshot(q)') =>
               \A f \in Handlers : runs'[f] = 0
        BY <4>2
      <4>5. \A q \in Callers : HasSnapshot(q)' =>
               handlers' = todo'[q] \cup Ran' /\ todo'[q] \cap Ran' = {}
        BY <3>7, <4>3
      <4>6. \A q \in Callers : pc'[q] \in {"stop", "close"} => todo'[q] = {} \/ expired'
        BY <3>7, <4>2
      <4>7. closes' > 0 => handlers' = Ran' \/ expired'
        BY <4>2
      <4> QED BY <4>1, <4>4, <4>5, <4>6, <4>7, <3>8 DEF ListInv
    <3> QED BY <3>5, <3>6, <3>9
  <2>5. CASE HandlerReturns(p)
    <3> USE <2>5 DEF HandlerReturns
    <3>1. LockInv'  BY DEF LockInv
    <3>2. OwnerInv' BY DEF OwnerInv
    <3>3. ListInv'  BY DEF ListInv
    <3> QED BY <3>1, <3>2, <3>3
  <2>6. CASE SkipRemaining(p)
    <3> USE <2>6 DEF SkipRemaining
    <3>1. LockInv'  BY DEF LockInv
    <3>2. OwnerInv' BY DEF OwnerInv
    <3>3. ListInv'  BY DEF ListInv
    <3> QED BY <3>1, <3>2, <3>3
  <2>7. CASE AllHandled(p)
    <3> USE <2>7 DEF AllHandled
    <3>1. LockInv'  BY DEF LockInv
    <3>2. OwnerInv' BY DEF OwnerInv
    <3>3. ListInv'  BY DEF ListInv
    <3> QED BY <3>1, <3>2, <3>3
  <2>8. CASE MarkStopped(p)
    <3> USE <2>8 DEF MarkStopped
    <3>1. LockInv'  BY DEF LockInv
    <3>2. OwnerInv' BY DEF OwnerInv
    <3>3. ListInv'  BY DEF ListInv
    <3> QED BY <3>1, <3>2, <3>3
  <2>9. CASE CloseDone(p)
    <3> USE <2>9 DEF CloseDone
    <3>1. LockInv'  BY DEF LockInv, OwnerInv
    <3>2. OwnerInv' BY DEF OwnerInv
    <3>3. ListInv'  BY DEF ListInv, OwnerInv
    <3> QED BY <3>1, <3>2, <3>3
  <2> QED BY <1>3, <2>1, <2>2, <2>3, <2>4, <2>5, <2>6, <2>7, <2>8, <2>9 DEF Shutdown
<1>4. CASE ContextExpires
  BY <1>4 DEF ContextExpires, LockInv, OwnerInv, ListInv
<1>5. CASE UNCHANGED managerVars
  BY <1>5 DEF managerVars, LockInv, OwnerInv, ListInv
<1> QED BY <1>1, <1>2, <1>3, <1>4, <1>5 DEF Next

\* The inductive invariant holds in every reachable state.
THEOREM ManagerInvariant == Spec => []IInv
<1>1. IInv /\ TypeOK' /\ [Next]_managerVars => IInv'
  BY StepInvariant
<1> QED BY InitInvariant, TypeCorrect, <1>1, PTL DEF Spec

\* However many goroutines call Shutdown and TriggerShutdown, one at most runs
\* the body, each handler is invoked once at most, done is closed once at most.
THEOREM ShutdownRunsOnce == Spec => []OneShutdown
<1>1. IInv => OneShutdown
  BY DEF IInv, TypeOK, OwnerInv, ListInv, OneShutdown
<1> QED BY <1>1, ManagerInvariant, PTL

\* A handler that Register accepted is on the list of the shutdown or has run.
THEOREM NoHandlerForgotten == Spec => []AcceptedIsScheduled
<1>1. IInv => AcceptedIsScheduled
  BY DEF IInv, LockInv, ListInv, AcceptedIsScheduled
<1> QED BY <1>1, ManagerInvariant, PTL

\* When done is closed before the timeout, every accepted handler has run.
THEOREM DoneIsHonest == Spec => []DoneMeansCleanedUp
<1>1. IInv => DoneMeansCleanedUp
  BY DEF IInv, LockInv, ListInv, DoneMeansCleanedUp
<1> QED BY <1>1, ManagerInvariant, PTL

\* Handlers run in the order of their priorities.
THEOREM RunsInPriorityOrder == Spec => []PriorityOrder
<1>1. IInv => PriorityOrder
  BY DEF IInv, LockInv, ListInv, PriorityOrder
<1> QED BY <1>1, ManagerInvariant, PTL

-----------------------------------------------------------------------------
(***************************************************************************)
(* The manager implements the promise.                                     *)
(***************************************************************************)

\* The abstract phase, read off the concrete state.
LEMMA PhaseIs ==
    ASSUME IInv
    PROVE  /\ closes = 1 => Phase = "closed"
           /\ closes = 0 /\ (\E p \in Callers : HasSnapshot(p)) => Phase = "draining"
           /\ closes = 0 /\ (\A p \in Callers : ~HasSnapshot(p)) => Phase = "open"
BY DEF Phase, IInv, OwnerInv

\* A step that leaves closes and everybody's snapshot alone keeps the phase.
LEMMA PhaseKept ==
    ASSUME closes' = closes,
           \A p \in Callers : HasSnapshot(p)' <=> HasSnapshot(p)
    PROVE  Phase' = Phase
BY DEF Phase

\* Every step of the manager is a step of GracefulShutdown or leaves its state
\* unchanged.
LEMMA StepSimulation ==
    IInv /\ IInv' /\ [Next]_managerVars => [Promise!Next]_Promise!promiseVars
<1> SUFFICES ASSUME IInv, IInv', [Next]_managerVars
             PROVE  [Promise!Next]_Promise!promiseVars
  OBVIOUS
<1> USE DEF Promise!promiseVars
<1>t. TypeOK
  BY DEF IInv
<1>1. ASSUME NEW h \in Handlers, Register(h)
      PROVE  [Promise!Next]_Promise!promiseVars
  <2>1. Phase' = Phase
    BY <1>1, PhaseKept DEF Register, RegisterCheck, RegisterReject, RegisterAppend
  <2>2. CASE RegisterAppend(h)
    <3>1. \A p \in Callers : ~HasSnapshot(p)
      BY <2>2, NobodyAssumption DEF RegisterAppend, IInv, LockInv
    <3>2. closes = 0
      BY <2>2, NobodyAssumption DEF RegisterAppend, IInv, LockInv, OwnerInv
    <3>3. Phase = "open"
      BY <3>1, <3>2, PhaseIs
    <3>4. Promise!Accept(h)
      BY <2>1, <2>2, <3>3 DEF Promise!Accept, RegisterAppend
    <3> QED BY <3>4 DEF Promise!Next
  <2>3. CASE RegisterCheck(h) \/ RegisterReject(h)
    BY <2>1, <2>3 DEF RegisterCheck, RegisterReject
  <2> QED BY <1>1, <2>2, <2>3 DEF Register
<1>2. ASSUME NEW p \in Callers, Call(p)
      PROVE  [Promise!Next]_Promise!promiseVars
  <2>1. Phase' = Phase
    BY <1>2, <1>t, PhaseKept DEF TypeOK, Call, CallShutdown, CallTrigger
  <2> QED BY <1>2, <2>1 DEF Call, CallShutdown, CallTrigger
<1>3. ASSUME NEW p \in Callers, Shutdown(p)
      PROVE  [Promise!Next]_Promise!promiseVars
  <2>1. CASE \/ CompareAndSwap(p) \/ CancelContext(p) \/ HandlerReturns(p)
             \/ SkipRemaining(p) \/ AllHandled(p) \/ MarkStopped(p)
    <3>1. Phase' = Phase
      BY <2>1, <1>t, PhaseKept DEF TypeOK, CompareAndSwap, CancelContext,
         HandlerReturns, SkipRemaining, AllHandled, MarkStopped
    <3> QED BY <2>1, <3>1 DEF CompareAndSwap, CancelContext,
            HandlerReturns, SkipRemaining, AllHandled, MarkStopped
  <2>2. CASE TakeSnapshot(p)
    <3>1. closes = 0 /\ \A q \in Callers : ~HasSnapshot(q)
      BY <2>2 DEF TakeSnapshot, IInv, OwnerInv
    <3>2. closes' = 0 /\ HasSnapshot(p)'
      BY <2>2, <3>1, <1>t DEF TypeOK, TakeSnapshot
    <3>3. Phase = "open" /\ Phase' = "draining"
      BY <3>1, <3>2, PhaseIs DEF Phase
    <3>4. Promise!Drain
      BY <2>2, <3>3 DEF Promise!Drain, TakeSnapshot
    <3> QED BY <3>4 DEF Promise!Next
  <2>3. CASE RunHandler(p)
    <3>1. PICK h \in Foremost(todo[p]) :
             /\ todo' = [todo EXCEPT ![p] = @ \ {h}]
             /\ runs' = [runs EXCEPT ![h] = @ + 1]
      BY <2>3 DEF RunHandler
    <3>2. h \in Handlers /\ h \in todo[p]
      BY <1>t DEF Foremost, TypeOK
    <3>3. handlers = todo[p] \cup Ran /\ todo[p] \cap Ran = {}
      BY <2>3 DEF RunHandler, IInv, ListInv
    <3>4. Ran' = Ran \cup {h}
      BY <3>1, <3>2, <3>3, <1>t DEF TypeOK, IInv, ListInv
    <3>5. closes = 0 /\ Phase = "draining"
      BY <2>3, PhaseIs DEF RunHandler, IInv, OwnerInv
    <3>6. Phase' = Phase
      BY <2>3, <1>t, PhaseKept DEF TypeOK, RunHandler
    <3>7. todo[p] = handlers \ Ran
      BY <3>3
    <3>8. Promise!Invoke(h)
      BY <2>3, <3>2, <3>4, <3>5, <3>6, <3>7
         DEF Promise!Invoke, Promise!Waiting, RunHandler, Foremost
    <3> QED BY <3>2, <3>8 DEF Promise!Next
  <2>4. CASE CloseDone(p)
    <3>1. closes = 0 /\ closes' = 1
      BY <2>4 DEF CloseDone, IInv, OwnerInv
    <3>2a. Phase = "draining"
      BY <2>4, <3>1, PhaseIs DEF CloseDone
    <3>2b. \A q \in Callers : ~HasSnapshot(q)'
      BY <2>4, <1>t DEF CloseDone, TypeOK, IInv, OwnerInv
    <3>2. Phase = "draining" /\ Phase' = "closed"
      BY <3>1, <3>2a, <3>2b DEF Phase
    <3>3. handlers \ Ran = {} \/ expired
      BY <2>4 DEF CloseDone, IInv, ListInv
    <3>4. Promise!Announce
      BY <2>4, <3>2, <3>3 DEF Promise!Announce, Promise!Waiting, CloseDone
    <3> QED BY <3>4 DEF Promise!Next
  <2> QED BY <1>3, <2>1, <2>2, <2>3, <2>4 DEF Shutdown
<1>4. CASE ContextExpires
  <2>1. Phase' = Phase
    BY <1>4, PhaseKept DEF ContextExpires
  <2>2. closes = 0
    BY <1>4 DEF ContextExpires, IInv, OwnerInv
  <2>3. Phase # "closed"
    BY <2>2, PhaseIs
  <2>4. Promise!TimeOut
    BY <1>4, <2>1, <2>3 DEF Promise!TimeOut, ContextExpires
  <2> QED BY <2>4 DEF Promise!Next
<1>5. CASE UNCHANGED managerVars
  BY <1>5, PhaseKept DEF managerVars
<1> QED BY <1>1, <1>2, <1>3, <1>4, <1>5 DEF Next

\* The manager implements GracefulShutdown: whatever the code that registers
\* handlers and waits for Done() can observe, the promise allows.
THEOREM ManagerImplementsPromise == Spec => KeepsPromise
<1>1. Init => Promise!Init
  <2> SUFFICES ASSUME Init PROVE Promise!Init
    OBVIOUS
  <2>1. Phase = "open"
    BY InitInvariant, PhaseIs DEF Init
  <2> QED BY <2>1 DEF Init, Promise!Init
<1>2. IInv /\ IInv' /\ [Next]_managerVars => [Promise!Next]_Promise!promiseVars
  BY StepSimulation
<1> QED BY <1>1, <1>2, ManagerInvariant, PTL DEF Spec, KeepsPromise, Promise!Spec

-----------------------------------------------------------------------------
(***************************************************************************)
(* The daemon: the manager with its handlers registered, the signal loop   *)
(* and the server.  Only what follows uses DaemonAssumption.               *)
(***************************************************************************)

\* Signals are taken once each from those sent, and no counter outruns them.
CountInv ==
    /\ taken[SIGINT] + taken[SIGTERM] + Len(sigChan) <= sent
    /\ forceQuitCount <= taken[SIGINT]
    /\ burst <= taken[SIGINT]
    /\ burst > 0 => burst <= forceQuitCount + 1
    /\ lpc # "select" => taken[lsig] > 0

\* The stored code has a cause, and one is stored before any Shutdown starts.
CodeInv ==
    /\ exitCode = ExitSIGINT  => taken[SIGINT] > 0
    /\ exitCode = ExitSIGTERM => taken[SIGTERM] > 0
    /\ exitCode = ExitError   => serverFailed
    /\ exitCode = ExitTimeout => expired
    /\ lpc = "spawn" => exitCode # ExitSuccess
    /\ IsShuttingDown => exitCode # ExitSuccess
    /\ \A p \in Callers : pc[p] # "idle" => exitCode # ExitSuccess

\* The process returns the code stored when done was closed, or was forced.
ResultInv ==
    /\ forced => result = ExitSIGINT /\ taken[SIGINT] > 0
    /\ result # Alive /\ ~forced => closes > 0 /\ result = exitCode

DaemonInv == IInv /\ DaemonTypeOK /\ CountInv /\ CodeInv /\ ResultInv

\* Equal intervals from 1 end at the same number.
LEMMA IntervalEnd ==
    ASSUME NEW m \in Nat, NEW n \in Nat, 1..m = 1..n
    PROVE  m = n
<1>1. m > 0 => m \in 1..m
  OBVIOUS
<1>2. n > 0 => n \in 1..n
  OBVIOUS
<1>3. m > 0 => m <= n /\ n > 0
  BY <1>1
<1>4. n > 0 => n <= m /\ m > 0
  BY <1>2
<1> QED BY <1>3, <1>4

\* The channel as a sequence.
LEMMA ChannelType ==
    ASSUME NEW q
    PROVE  q \in UNION {[1..n -> {SIGINT, SIGTERM}] : n \in 0..2}
           <=> q \in Seq({SIGINT, SIGTERM}) /\ Len(q) <= 2
<1>1. ASSUME NEW n \in 0..2, q \in [1..n -> {SIGINT, SIGTERM}]
      PROVE  q \in Seq({SIGINT, SIGTERM}) /\ Len(q) <= 2
  <2>1. q \in Seq({SIGINT, SIGTERM})
    BY <1>1, SeqDef
  <2>2. Len(q) \in Nat /\ DOMAIN q = 1..Len(q)
    BY <2>1, LenProperties
  <2>3. DOMAIN q = 1..n
    BY <1>1
  <2>4. Len(q) = n
    BY <1>1, <2>2, <2>3, IntervalEnd
  <2> QED BY <1>1, <2>1, <2>4
<1>2. ASSUME q \in Seq({SIGINT, SIGTERM}), Len(q) <= 2
      PROVE  \E n \in 0..2 : q \in [1..n -> {SIGINT, SIGTERM}]
  <2>1. Len(q) \in Nat /\ q \in [1..Len(q) -> {SIGINT, SIGTERM}]
    BY <1>2, LenProperties
  <2>2. Len(q) \in 0..2
    BY <1>2, <2>1
  <2> QED BY <2>1, <2>2
<1> QED BY <1>1, <1>2

\* The daemon starts with its handlers registered and nothing stored.
LEMMA DaemonInitInvariant == DaemonInit => DaemonInv
<1> SUFFICES ASSUME DaemonInit PROVE DaemonInv
  OBVIOUS
<1> USE DaemonAssumption DEF DaemonInit, SIGINT, SIGTERM
<1>1. TypeOK
  <2>1. handlers \subseteq Handlers
    OBVIOUS
  <2>2. reg \in [Handlers -> {"idle", "checked", "accepted", "rejected"}]
    OBVIOUS
  <2>3. pc \in [Callers -> {"idle", "cas", "timeout", "snapshot", "loop",
                            "handler", "stop", "close", "returned"}]
    OBVIOUS
  <2>4. todo \in [Callers -> SUBSET Handlers] /\ runs \in [Handlers -> Nat]
    OBVIOUS
  <2> QED BY <2>1, <2>2, <2>3, <2>4 DEF TypeOK
<1>2. LockInv
  BY NobodyAssumption DEF LockInv
<1>3. OwnerInv
  BY DEF OwnerInv
<1>4. ListInv
  BY DEF ListInv
<1>5. DaemonTypeOK
  <2>1. sigChan \in UNION {[1..n -> {SIGINT, SIGTERM}] : n \in 0..2}
    BY ChannelType
  <2>2. taken \in [{SIGINT, SIGTERM} -> 0..MaxSignals]
    OBVIOUS
  <2> QED BY <1>1, <2>1, <2>2 DEF DaemonTypeOK
<1>6. CountInv
  BY DEF CountInv
<1>7. CodeInv /\ ResultInv
  BY DEF CodeInv, ResultInv, ExitSuccess, ExitError, ExitSIGINT, ExitSIGTERM, ExitTimeout
<1> QED BY <1>1, <1>2, <1>3, <1>4, <1>5, <1>6, <1>7 DEF DaemonInv, IInv

\* The goroutine spawned for a signal is one of the callers.
LEMMA SpawnedIsCaller ==
    ASSUME DaemonInv, lpc = "spawn"
    PROVE  taken[SIGINT] + taken[SIGTERM] \in Callers
<1> USE DEF DaemonInv, DaemonTypeOK, CountInv, SIGINT, SIGTERM
<1>1. Len(sigChan) \in Nat
  BY ChannelType, LenProperties
<1>2. taken[SIGINT] \in Nat /\ taken[SIGTERM] \in Nat /\ sent \in 0..MaxSignals
  BY DaemonAssumption
<1>3. taken[SIGINT] + taken[SIGTERM] > 0
  BY <1>2
<1>4. taken[SIGINT] + taken[SIGTERM] <= MaxSignals
  BY <1>1, <1>2, DaemonAssumption
<1> QED BY <1>2, <1>3, <1>4, DaemonAssumption DEF Spawned

\* A step of the daemon is a step of the manager, or one that leaves it alone,
\* or the signal loop's store of an exit code.
LEMMA DaemonStepIs ==
    ASSUME DaemonInv, [DaemonNext]_daemonVars
    PROVE  [Next]_managerVars \/ StoreCode
<1>1. CASE UNCHANGED daemonVars
  BY <1>1 DEF daemonVars
<1>2. CASE DaemonNext
  <2>1. ASSUME NEW sig \in {SIGINT, SIGTERM}, SignalArrives(sig)
        PROVE  UNCHANGED managerVars
    BY <2>1 DEF SignalArrives
  <2>2. CASE ServerFails
    BY <2>2 DEF ServerFails
  <2>3. CASE ServerTriggers
    <3>1. ExitError \in Codes /\ Server \in Callers
      BY DaemonAssumption
    <3> QED BY <2>3, <3>1 DEF ServerTriggers, Next, Call
  <2>4. CASE Listen
    <3>1. ASSUME NEW soon \in BOOLEAN, TakeSignal(soon)
          PROVE  UNCHANGED managerVars
      BY <3>1 DEF TakeSignal
    <3>2. CASE Decide
      BY <3>2 DEF Decide
    <3>3. CASE SpawnShutdown
      <4>1. taken[SIGINT] + taken[SIGTERM] \in Callers
        BY <3>3, SpawnedIsCaller DEF SpawnShutdown
      <4> QED BY <3>3, <4>1 DEF SpawnShutdown, Next, Call
    <3>4. CASE ReturnWhenDone
      BY <3>4 DEF ReturnWhenDone
    <3> QED BY <2>4, <3>1, <3>2, <3>3, <3>4 DEF Listen
  <2>5. ASSUME NEW p \in Callers, RunShutdown(p)
        PROVE  Next
    BY <2>5 DEF RunShutdown, Next
  <2>6. CASE ContextExpires /\ UNCHANGED listenVars
    BY <2>6 DEF Next
  <2> QED BY <1>2, <2>1, <2>2, <2>3, <2>4, <2>5, <2>6 DEF DaemonNext
<1> QED BY <1>1, <1>2

\* Every step of the daemon preserves the manager's invariant.
LEMMA DaemonKeepsManager ==
    ASSUME DaemonInv, [DaemonNext]_daemonVars
    PROVE  IInv'
<1>1. CASE [Next]_managerVars
  BY <1>1, StepType, StepInvariant DEF DaemonInv, IInv
<1>2. CASE StoreCode
  <2> USE <1>2 DEF StoreCode, DaemonInv, IInv
  <2>1. exitCode' \in Codes
    BY DaemonAssumption DEF CodeOf
  <2>2. TypeOK'
    BY <2>1 DEF TypeOK
  <2>3. LockInv'
    BY DEF LockInv
  <2>4. OwnerInv'
    BY DEF OwnerInv
  <2>5. ListInv'
    BY DEF ListInv
  <2> QED BY <2>2, <2>3, <2>4, <2>5
<1> QED BY <1>1, <1>2, DaemonStepIs

\* What the steps of the manager do to its state word, code and timeout.
LEMMA ManagerStepEffect ==
    ASSUME NEW p \in Callers, Shutdown(p), TypeOK
    PROVE  /\ expired' = expired
           /\ exitCode' = exitCode \/ (exitCode' = ExitTimeout /\ expired)
           /\ pc[p] # "idle" /\ \A q \in Callers \ {p} : pc'[q] = pc[q]
           /\ IsShuttingDown' => IsShuttingDown \/ pc[p] # "idle"
BY DEF Shutdown, CompareAndSwap, CancelContext, TakeSnapshot, RunHandler, HandlerReturns,
       SkipRemaining, AllHandled, MarkStopped, CloseDone, TypeOK

\* What the loop does when it takes a signal.
LEMMA TakenSignal ==
    ASSUME DaemonInv, NEW soon \in BOOLEAN, TakeSignal(soon)
    PROVE  /\ Head(sigChan) \in {SIGINT, SIGTERM}
           /\ Tail(sigChan) \in Seq({SIGINT, SIGTERM})
           /\ Len(Tail(sigChan)) = Len(sigChan) - 1
           /\ Len(sigChan) \in 1..2
           /\ taken \in [{SIGINT, SIGTERM} -> Nat]
<1>1. sigChan \in Seq({SIGINT, SIGTERM}) /\ Len(sigChan) <= 2
  BY ChannelType DEF DaemonInv, DaemonTypeOK
<1>2. sigChan # <<>>
  BY DEF TakeSignal
<1>3. taken \in [{SIGINT, SIGTERM} -> Nat]
  BY DaemonAssumption DEF DaemonInv, DaemonTypeOK
<1>4. Len(sigChan) \in Nat /\ Len(sigChan) # 0
  BY <1>1, <1>2, EmptySeq
<1>5. /\ Head(sigChan) \in {SIGINT, SIGTERM}
      /\ Tail(sigChan) \in Seq({SIGINT, SIGTERM})
      /\ Len(Tail(sigChan)) = Len(sigChan) - 1
  BY <1>1, <1>2, HeadTailProperties
<1>6. Len(sigChan) <= 2
  BY <1>1
<1>7. Len(sigChan) \in 1..2
  <2>1. \A n \in Nat : n # 0 /\ n <= 2 => n \in 1..2
    OBVIOUS
  <2> QED BY <1>4, <1>6, <2>1
<1> QED BY <1>3, <1>5, <1>7

\* Every step of the daemon keeps its counters in step.
LEMMA DaemonStepCount ==
    ASSUME DaemonInv, [DaemonNext]_daemonVars
    PROVE  CountInv'
<1>t. /\ taken \in [{SIGINT, SIGTERM} -> Nat] /\ sent \in Nat
      /\ forceQuitCount \in Nat /\ burst \in Nat
      /\ Len(sigChan) \in Nat /\ lsig \in {SIGINT, SIGTERM}
      /\ sigChan \in Seq({SIGINT, SIGTERM}) /\ Len(sigChan) <= 2
  BY ChannelType, LenProperties, DaemonAssumption DEF DaemonInv, DaemonTypeOK
<1>c. CountInv
  BY DEF DaemonInv
<1> USE DEF CountInv
<1>1. ASSUME UNCHANGED <<sigChan, lsig, forceQuitCount, taken, burst, sent>>,
             lpc' # "select" => lpc # "select"
      PROVE  CountInv'
  BY <1>1, <1>c
<1>2. ASSUME NEW sig \in {SIGINT, SIGTERM}, SignalArrives(sig) PROVE CountInv'
  <2>1. Len(sigChan') <= Len(sigChan) + 1
    BY <1>2, <1>t, AppendProperties DEF SignalArrives
  <2>2. Len(sigChan') \in Nat
    BY <1>2, <1>t, AppendProperties DEF SignalArrives
  <2> QED BY <1>2, <1>c, <1>t, <2>1, <2>2 DEF SignalArrives
<1>3. ASSUME NEW soon \in BOOLEAN, TakeSignal(soon) PROVE CountInv'
  <2> DEFINE sig == Head(sigChan)
  <2>1. sig \in {SIGINT, SIGTERM} /\ Len(sigChan') = Len(sigChan) - 1
    BY <1>3, TakenSignal DEF TakeSignal
  <2>2. taken' = [taken EXCEPT ![sig] = @ + 1]
    BY <1>3 DEF TakeSignal
  <2>3. /\ forceQuitCount' = QuitCount(sig, soon)
        /\ burst' = IF sig = SIGTERM THEN 0 ELSE IF soon THEN burst + 1 ELSE 1
        /\ lsig' = sig /\ sent' = sent
    BY <1>3 DEF TakeSignal
  <2> HIDE DEF sig
  <2>4. CASE sig = SIGINT
    <3>1. taken'[SIGINT] = taken[SIGINT] + 1 /\ taken'[SIGTERM] = taken[SIGTERM]
      BY <2>2, <2>4, <1>t DEF SIGINT, SIGTERM
    <3>2. forceQuitCount' \in {0, forceQuitCount + 1}
      BY <2>3, <2>4 DEF QuitCount
    <3>3. burst' = 1 \/ (burst' = burst + 1 /\ forceQuitCount' = forceQuitCount + 1)
      BY <2>3, <2>4, <1>t DEF QuitCount, SIGINT, SIGTERM
    <3>4. burst' <= taken'[SIGINT] /\ (burst' > 0 => burst' <= forceQuitCount' + 1)
      BY <3>1, <3>2, <3>3, <1>t, <1>c
    <3> QED BY <3>1, <3>2, <3>4, <2>1, <2>3, <2>4, <1>t, <1>c
  <2>5. CASE sig = SIGTERM
    <3>1. taken'[SIGTERM] = taken[SIGTERM] + 1 /\ taken'[SIGINT] = taken[SIGINT]
      BY <2>2, <2>5, <1>t DEF SIGINT, SIGTERM
    <3>2. forceQuitCount' = forceQuitCount /\ burst' = 0
      <4>1. sig # SIGINT
        BY <2>5 DEF SIGINT, SIGTERM
      <4>2. forceQuitCount' = forceQuitCount
        BY <2>3, <4>1 DEF QuitCount
      <4>3. burst' = 0
        BY <2>3, <2>5
      <4> QED BY <4>2, <4>3
    <3>3. taken[SIGINT] \in Nat /\ taken[SIGTERM] \in Nat
      BY <1>t
    <3>4. taken'[SIGINT] + taken'[SIGTERM] + Len(sigChan') <= sent'
      BY <3>1, <3>3, <2>1, <2>3, <1>t, <1>c
    <3>5. taken'[lsig'] > 0
      BY <3>1, <3>3, <2>3, <2>5
    <3> QED BY <3>1, <3>2, <3>3, <3>4, <3>5, <1>c, <1>t
  <2> QED BY <2>1, <2>4, <2>5
<1>4. CASE Decide
  BY <1>4, <1>1 DEF Decide
<1>5. CASE StoreCode
  BY <1>5, <1>1 DEF StoreCode
<1>6. CASE SpawnShutdown
  BY <1>6, <1>1 DEF SpawnShutdown
<1>7. CASE ReturnWhenDone
  BY <1>7, <1>1 DEF ReturnWhenDone
<1>8. CASE ServerFails
  BY <1>8, <1>1 DEF ServerFails
<1>9. CASE UNCHANGED listenVars
  BY <1>9, <1>1 DEF listenVars
<1> QED BY <1>2, <1>3, <1>4, <1>5, <1>6, <1>7, <1>8, <1>9
        DEF DaemonNext, Listen, ServerTriggers, RunShutdown, daemonVars

\* Every step of the daemon keeps the types.
LEMMA DaemonStepType ==
    ASSUME DaemonInv, [DaemonNext]_daemonVars
    PROVE  DaemonTypeOK'
<1>1. TypeOK'
  BY DaemonKeepsManager DEF IInv
<1>t. /\ taken \in [{SIGINT, SIGTERM} -> Nat] /\ sent \in 0..MaxSignals
      /\ forceQuitCount \in Nat /\ burst \in Nat /\ MaxSignals \in Nat
      /\ sigChan \in Seq({SIGINT, SIGTERM}) /\ Len(sigChan) <= 2
      /\ lpc \in {"select", "decide", "store", "spawn"}
      /\ lsig \in {SIGINT, SIGTERM}
      /\ lastSignal \in BOOLEAN /\ serverFailed \in BOOLEAN /\ forced \in BOOLEAN
      /\ result \in Codes \cup {Alive, ExitSuccess, ExitTimeout}
      /\ exitCode \in Codes \cup {ExitSuccess, ExitTimeout}
  BY ChannelType, DaemonAssumption DEF DaemonInv, DaemonTypeOK, TypeOK
<1> DEFINE NewTypes ==
      /\ taken' \in [{SIGINT, SIGTERM} -> Nat] /\ sent' \in 0..MaxSignals
      /\ forceQuitCount' \in Nat /\ burst' \in Nat
      /\ sigChan' \in Seq({SIGINT, SIGTERM}) /\ Len(sigChan') <= 2
      /\ lpc' \in {"select", "decide", "store", "spawn"}
      /\ lsig' \in {SIGINT, SIGTERM}
      /\ lastSignal' \in BOOLEAN /\ serverFailed' \in BOOLEAN /\ forced' \in BOOLEAN
      /\ result' \in Codes \cup {Alive, ExitSuccess, ExitTimeout}
<1>2. NewTypes
  <2>1. ASSUME NEW sig \in {SIGINT, SIGTERM}, SignalArrives(sig) PROVE NewTypes
    <3>1. sigChan' \in Seq({SIGINT, SIGTERM}) /\ Len(sigChan') <= 2
      <4>1. CASE Len(sigChan) < 2
        <5>1. Append(sigChan, sig) \in Seq({SIGINT, SIGTERM}) /\ sigChan' = Append(sigChan, sig)
          BY <2>1, <4>1, <1>t, AppendProperties DEF SignalArrives
        <5>2. Len(Append(sigChan, sig)) = Len(sigChan) + 1
          BY <1>t, AppendProperties
        <5>3. Len(sigChan) \in Nat
          BY <1>t, LenProperties
        <5> QED BY <4>1, <5>1, <5>2, <5>3
      <4>2. CASE ~(Len(sigChan) < 2)
        BY <2>1, <4>2, <1>t DEF SignalArrives
      <4> QED BY <4>1, <4>2
    <3>2. sent' \in 0..MaxSignals
      BY <2>1, <1>t DEF SignalArrives
    <3> QED BY <2>1, <3>1, <3>2, <1>t DEF SignalArrives
  <2>2. ASSUME NEW soon \in BOOLEAN, TakeSignal(soon) PROVE NewTypes
    <3> DEFINE sig == Head(sigChan)
    <3>1. sig \in {SIGINT, SIGTERM}
      BY <2>2, TakenSignal
    <3>2. taken' \in [{SIGINT, SIGTERM} -> Nat]
      BY <2>2, <1>t DEF TakeSignal
    <3>3. forceQuitCount' \in Nat /\ burst' \in Nat
      BY <2>2, <1>t DEF TakeSignal, QuitCount
    <3>4. sigChan' \in Seq({SIGINT, SIGTERM}) /\ Len(sigChan') <= 2
      <4>1. sigChan' = Tail(sigChan)
        BY <2>2 DEF TakeSignal
      <4>2. /\ Tail(sigChan) \in Seq({SIGINT, SIGTERM}) /\ Len(sigChan) \in 1..2
            /\ Len(Tail(sigChan)) = Len(sigChan) - 1
        BY <2>2, TakenSignal
      <4>3. \A n \in 1..2 : n - 1 <= 2
        OBVIOUS
      <4>4. Len(Tail(sigChan)) <= 2
        BY <4>2, <4>3
      <4> QED BY <4>1, <4>2, <4>4
    <3>5. result' \in Codes \cup {Alive, ExitSuccess, ExitTimeout} /\ forced' \in BOOLEAN
      BY <2>2, <1>t, DaemonAssumption DEF TakeSignal
    <3>6. lpc' \in {"select", "decide", "store", "spawn"}
      BY <2>2, <1>t DEF TakeSignal
    <3>7. sent' = sent /\ lsig' = sig /\ lastSignal' = TRUE /\ serverFailed' = serverFailed
      BY <2>2 DEF TakeSignal
    <3> QED BY <1>t, <3>1, <3>2, <3>3, <3>4, <3>5, <3>6, <3>7
  <2>3. CASE Decide
    BY <2>3, <1>t DEF Decide
  <2>4. CASE StoreCode
    BY <2>4, <1>t DEF StoreCode
  <2>5. CASE SpawnShutdown
    BY <2>5, <1>t DEF SpawnShutdown
  <2>6. CASE ReturnWhenDone
    BY <2>6, <1>t DEF ReturnWhenDone
  <2>7. CASE ServerFails
    BY <2>7, <1>t DEF ServerFails
  <2>8. CASE UNCHANGED listenVars
    BY <2>8, <1>t DEF listenVars
  <2> QED BY <2>1, <2>2, <2>3, <2>4, <2>5, <2>6, <2>7, <2>8
          DEF DaemonNext, Listen, ServerTriggers, RunShutdown, daemonVars
<1>3. /\ taken' \in [{SIGINT, SIGTERM} -> 0..MaxSignals]
      /\ forceQuitCount' \in 0..MaxSignals /\ burst' \in 0..MaxSignals
  <2> DEFINE i == taken'[SIGINT]
             t == taken'[SIGTERM]
             n == Len(sigChan')
  <2>1. i \in Nat /\ t \in Nat /\ n \in Nat /\ sent' \in 0..MaxSignals
    BY <1>2, LenProperties
  <2>2. i + t + n <= sent' /\ forceQuitCount' <= i /\ burst' <= i
    BY DaemonStepCount DEF CountInv
  <2>3. forceQuitCount' \in Nat /\ burst' \in Nat
    BY <1>2
  <2>4. taken' \in [{SIGINT, SIGTERM} -> Nat]
    BY <1>2
  <2> HIDE DEF i, t, n, NewTypes
  <2>5. i \in 0..MaxSignals /\ t \in 0..MaxSignals
    BY <2>1, <2>2, <1>t
  <2>6. forceQuitCount' \in 0..MaxSignals /\ burst' \in 0..MaxSignals
    BY <2>1, <2>2, <2>3, <1>t
  <2>7. \A s \in {SIGINT, SIGTERM} : taken'[s] \in 0..MaxSignals
    BY <2>5 DEF i, t
  <2> QED BY <2>4, <2>6, <2>7
<1>4. (sigChan \in UNION {[1..n -> {SIGINT, SIGTERM}] : n \in 0..2})'
  BY <1>2, ChannelType
<1> QED BY <1>1, <1>2, <1>3, <1>4 DEF DaemonTypeOK

\* Every step of the daemon keeps the causes of the stored code.
LEMMA DaemonStepCode ==
    ASSUME DaemonInv, [DaemonNext]_daemonVars
    PROVE  CodeInv'
<1>t. /\ TypeOK /\ taken \in [{SIGINT, SIGTERM} -> Nat] /\ lsig \in {SIGINT, SIGTERM}
  BY DaemonAssumption DEF DaemonInv, DaemonTypeOK
<1>c. CodeInv /\ CountInv
  BY DEF DaemonInv
<1> USE DEF CodeInv, ExitSuccess, ExitError, ExitSIGINT, ExitSIGTERM, ExitTimeout
<1>1. ASSUME UNCHANGED <<exitCode, state, pc>>, expired => expired', serverFailed => serverFailed',
             taken[SIGINT] > 0 => taken'[SIGINT] > 0, taken[SIGTERM] > 0 => taken'[SIGTERM] > 0,
             lpc' = "spawn" => lpc = "spawn"
      PROVE  CodeInv'
  BY <1>1, <1>c
<1>2. ASSUME NEW sig \in {SIGINT, SIGTERM}, SignalArrives(sig) PROVE CodeInv'
  BY <1>2, <1>1 DEF SignalArrives, managerVars
<1>3. CASE ServerFails
  BY <1>3, <1>1 DEF ServerFails, managerVars
<1>4. CASE ServerTriggers
  BY <1>4, <1>c, <1>t DEF ServerTriggers, CallTrigger, listenVars, TypeOK
<1>5. ASSUME NEW soon \in BOOLEAN, TakeSignal(soon) PROVE CodeInv'
  <2> DEFINE sig == Head(sigChan)
  <2>1. sig \in {SIGINT, SIGTERM}
    BY <1>5, TakenSignal
  <2>2. taken' = [taken EXCEPT ![sig] = @ + 1] /\ lpc' \in {lpc, "decide"}
    BY <1>5 DEF TakeSignal
  <2>3. UNCHANGED <<exitCode, state, pc, expired, serverFailed>>
    BY <1>5 DEF TakeSignal, managerVars
  <2> HIDE DEF sig
  <2>4. \A s \in {SIGINT, SIGTERM} : taken[s] > 0 => taken'[s] > 0
    BY <1>t, <2>1, <2>2
  <2> QED BY <1>1, <2>2, <2>3, <2>4
<1>6. CASE Decide
  BY <1>6, <1>1 DEF Decide, managerVars
<1>7. CASE StoreCode
  <2>1. taken[lsig] > 0 /\ taken' = taken
    BY <1>7, <1>c DEF StoreCode, CountInv
  <2>2. \/ lsig = SIGINT /\ exitCode' = ExitSIGINT
        \/ lsig = SIGTERM /\ exitCode' = ExitSIGTERM
    BY <1>7, <1>t DEF StoreCode, CodeOf
  <2> QED BY <1>7, <1>c, <2>1, <2>2 DEF StoreCode
<1>8. CASE SpawnShutdown
  BY <1>8, <1>c, <1>t DEF SpawnShutdown, CallShutdown, TypeOK
<1>9. CASE ReturnWhenDone
  BY <1>9, <1>1 DEF ReturnWhenDone, managerVars
<1>10. ASSUME NEW p \in Callers, RunShutdown(p) PROVE CodeInv'
  <2>1. /\ expired' = expired
        /\ exitCode' = exitCode \/ (exitCode' = ExitTimeout /\ expired)
        /\ pc[p] # "idle" /\ \A q \in Callers \ {p} : pc'[q] = pc[q]
        /\ IsShuttingDown' => IsShuttingDown \/ pc[p] # "idle"
    BY <1>10, <1>t, ManagerStepEffect DEF RunShutdown
  <2>2. exitCode # ExitSuccess /\ exitCode' # ExitSuccess
    BY <1>c, <2>1
  <2> QED BY <1>10, <1>c, <2>1, <2>2 DEF RunShutdown, listenVars
<1>11. CASE ContextExpires /\ UNCHANGED listenVars
  BY <1>11, <1>1 DEF ContextExpires, listenVars
<1>12. CASE UNCHANGED daemonVars
  BY <1>12, <1>1 DEF daemonVars, managerVars, listenVars
<1> QED BY <1>2, <1>3, <1>4, <1>5, <1>6, <1>7, <1>8, <1>9, <1>10, <1>11, <1>12
        DEF DaemonNext, Listen

\* Every step of the daemon keeps what the exit status says.
LEMMA DaemonStepResult ==
    ASSUME DaemonInv, [DaemonNext]_daemonVars
    PROVE  ResultInv'
<1>r. ResultInv
  BY DEF DaemonInv
<1> USE DEF ResultInv
<1>1. CASE UNCHANGED daemonVars
  BY <1>1, <1>r DEF daemonVars, managerVars, listenVars
<1>2. ASSUME result' = Alive, forced' = forced, result = Alive PROVE ResultInv'
  BY <1>2, <1>r DEF Alive, ExitSIGINT
<1>3. CASE DaemonNext
  <2>1. result = Alive
    BY <1>3 DEF DaemonNext
  <2>2. ASSUME NEW soon \in BOOLEAN, TakeSignal(soon) PROVE ResultInv'
    <3>1. CASE ForcesQuit(Head(sigChan), soon)
      <4>1. Head(sigChan) = SIGINT /\ taken \in [{SIGINT, SIGTERM} -> Nat]
        BY <2>2, <3>1, TakenSignal DEF ForcesQuit
      <4>2. taken' = [taken EXCEPT ![Head(sigChan)] = @ + 1] /\ result' = ExitSIGINT /\ forced'
        BY <2>2, <3>1 DEF TakeSignal
      <4>3. taken'[SIGINT] > 0
        BY <4>1, <4>2
      <4> QED BY <4>2, <4>3
    <3>2. CASE ~ForcesQuit(Head(sigChan), soon)
      BY <2>2, <3>2, <1>2, <2>1 DEF TakeSignal
    <3> QED BY <3>1, <3>2
  <2>3. CASE ReturnWhenDone
    BY <2>3, <2>1, <1>r DEF ReturnWhenDone, managerVars, Alive, ExitSIGINT
  <2>4. ASSUME UNCHANGED <<result, forced>> PROVE ResultInv'
    BY <2>4, <2>1, <1>2
  <2> QED BY <1>3, <2>2, <2>3, <2>4 DEF DaemonNext, Listen, SignalArrives, ServerFails,
        ServerTriggers, Decide, StoreCode, SpawnShutdown, RunShutdown, listenVars
<1> QED BY <1>1, <1>3

\* The inductive invariant of the daemon holds in every reachable state.
THEOREM DaemonInvariant == DaemonSpec => []DaemonInv
<1>1. DaemonInv /\ [DaemonNext]_daemonVars => DaemonInv'
  BY DaemonKeepsManager, DaemonStepType, DaemonStepCount, DaemonStepCode,
     DaemonStepResult DEF DaemonInv
<1> QED BY DaemonInitInvariant, <1>1, PTL DEF DaemonSpec

\* Every variable of the daemon keeps its type: the signal channel never holds
\* more than two signals.
THEOREM DaemonTypeCorrect == DaemonSpec => []DaemonTypeOK
<1>1. DaemonInv => DaemonTypeOK
  BY DEF DaemonInv
<1> QED BY <1>1, DaemonInvariant, PTL

\* Whatever the order of signals, failures and goroutines, the exit status of
\* the daemon names something that happened.
THEOREM DaemonStatusHasCause == DaemonSpec => []ExitStatusHasCause
<1>1. DaemonInv => ExitStatusHasCause
  <2> SUFFICES ASSUME DaemonInv, Exited PROVE ExitStatusHasCause
    BY DEF ExitStatusHasCause
  <2>1. CASE forced
    BY <2>1 DEF DaemonInv, ResultInv, ExitStatusHasCause,
       ExitSuccess, ExitError, ExitSIGINT, ExitSIGTERM, ExitTimeout
  <2>2. CASE ~forced
    BY <2>2 DEF DaemonInv, ResultInv, CodeInv, IInv, OwnerInv, Exited, ExitStatusHasCause
  <2> QED BY <2>1, <2>2
<1> QED BY <1>1, DaemonInvariant, PTL

\* Unless the user forced it, the daemon exits with every registered handler
\* run, or after the timeout, and with no handler in progress.
THEOREM DaemonExitIsClean == DaemonSpec => []ExitIsClean
<1>1. DaemonInv => ExitIsClean
  BY DEF DaemonInv, ResultInv, IInv, TypeOK, OwnerInv, ListInv, Exited, ExitIsClean
<1> QED BY <1>1, DaemonInvariant, PTL

\* The third SIGINT in a row ends the process if a shutdown has begun.
THEOREM DaemonThirdInterrupt == DaemonSpec => ThirdInterruptForces
<1>1. ASSUME DaemonInv, DaemonNext, burst' > burst, burst' >= 3, IsShuttingDown
      PROVE  result' = ExitSIGINT
  <2>t. forceQuitCount \in Nat /\ burst \in Nat
    BY <1>1, DaemonAssumption DEF DaemonInv, DaemonTypeOK
  <2>1. PICK soon \in BOOLEAN : TakeSignal(soon)
    BY <1>1, <2>t DEF DaemonNext, Listen, SignalArrives, ServerFails, ServerTriggers, Decide,
       StoreCode, SpawnShutdown, ReturnWhenDone, RunShutdown, listenVars
  <2> DEFINE sig == Head(sigChan)
  <2>2. burst' = IF sig = SIGTERM THEN 0 ELSE IF soon THEN burst + 1 ELSE 1
    BY <2>1 DEF TakeSignal
  <2>3. sig \in {SIGINT, SIGTERM}
    BY <2>1, <1>1, TakenSignal
  <2>4. sig = SIGINT /\ soon /\ burst >= 2
    BY <1>1, <2>t, <2>2, <2>3
  <2>5. QuitCount(sig, soon) = forceQuitCount + 1
    BY <2>4 DEF QuitCount
  <2>6. burst <= forceQuitCount + 1
    BY <1>1, <2>t, <2>4 DEF DaemonInv, CountInv
  <2>7. QuitCount(sig, soon) >= 2
    <3>1. burst >= 2
      BY <2>4
    <3>2. forceQuitCount + 1 >= 2
      BY <2>t, <2>6, <3>1
    <3> QED BY <2>5, <3>2
  <2>8. ForcesQuit(sig, soon)
    BY <1>1, <2>4, <2>7 DEF ForcesQuit
  <2> QED BY <2>1, <2>8 DEF TakeSignal
<1>2. DaemonInv /\ [DaemonNext]_daemonVars
        => [burst' > burst /\ burst' >= 3 /\ IsShuttingDown => result' = ExitSIGINT]_daemonVars
  BY <1>1
<1> QED BY <1>2, DaemonInvariant, PTL DEF DaemonSpec, ThirdInterruptForces

-----------------------------------------------------------------------------
(***************************************************************************)
(* The daemon keeps the promise of the manager, which its handlers rely    *)
(* on, and reports a shutdown that was cut short.                          *)
(***************************************************************************)

\* In the daemon too one goroutine at most shuts down, no registered handler
\* is forgotten, done is honest and handlers run in the order of priority.
THEOREM DaemonShutsDownOnce ==
    DaemonSpec => [](OneShutdown /\ AcceptedIsScheduled /\ DoneMeansCleanedUp /\ PriorityOrder)
<1>1. DaemonInv => OneShutdown
  BY DEF DaemonInv, IInv, TypeOK, OwnerInv, ListInv, OneShutdown
<1>2. DaemonInv => AcceptedIsScheduled /\ DoneMeansCleanedUp /\ PriorityOrder
  BY DEF DaemonInv, IInv, LockInv, ListInv, AcceptedIsScheduled, DoneMeansCleanedUp,
         PriorityOrder
<1> QED BY <1>1, <1>2, DaemonInvariant, PTL

\* Every step of the daemon is one the promise allows: its registry starts
\* filled, and from there only the promise's steps happen.
THEOREM DaemonKeepsPromise == DaemonSpec => [][Promise!Next]_Promise!promiseVars
<1>1. ASSUME DaemonInv, DaemonInv', [DaemonNext]_daemonVars
      PROVE  [Promise!Next]_Promise!promiseVars
  <2>1. CASE [Next]_managerVars
    BY <1>1, <2>1, StepSimulation DEF DaemonInv
  <2>2. CASE StoreCode
    BY <2>2, PhaseKept DEF StoreCode, Promise!promiseVars
  <2> QED BY <1>1, <2>1, <2>2, DaemonStepIs
<1> QED BY <1>1, DaemonInvariant, PTL DEF DaemonSpec

\* No shutdown has been called.
Quiet == closes = 0 /\ \A p \in Callers : pc[p] = "idle"

\* While one thing alone has happened, its exit code is stored before any
\* shutdown starts and only the timeout replaces it.
SkipInv ==
    /\ Causes = 0 => Quiet /\ lpc = "select"
    /\ Causes = 1 /\ lpc # "select" => Quiet /\ ~serverFailed
    /\ Causes = 1 /\ serverFailed /\ pc[Server] = "idle" => Quiet
    /\ Causes = 1 /\ (closes > 0 \/ \E p \in Callers : pc[p] \in {"stop", "close"})
         => handlers = Ran \/ exitCode = ExitTimeout
    /\ forced => forceQuitCount >= 2

\* Causes are counted up, and none is counted before a failure.
LEMMA CausesCount ==
    ASSUME DaemonInv
    PROVE  Causes \in Nat /\ (serverFailed => Causes # 0)
<1>1. taken[SIGINT] \in Nat /\ taken[SIGTERM] \in Nat
  BY DaemonAssumption DEF DaemonInv, DaemonTypeOK, SIGINT, SIGTERM
<1> QED BY <1>1 DEF Causes

\* A signal taken is one cause more.
LEMMA SignalCounts ==
    ASSUME DaemonInv, NEW soon \in BOOLEAN, TakeSignal(soon)
    PROVE  Causes' = Causes + 1
<1> DEFINE sig == Head(sigChan)
<1>1. taken' = [taken EXCEPT ![sig] = @ + 1] /\ serverFailed' = serverFailed
  BY DEF TakeSignal
<1>2. sig \in {SIGINT, SIGTERM} /\ taken \in [{SIGINT, SIGTERM} -> Nat]
  BY TakenSignal
<1> HIDE DEF sig
<1>3. CASE sig = SIGINT
  <2>1. taken'[SIGINT] = taken[SIGINT] + 1 /\ taken'[SIGTERM] = taken[SIGTERM]
    BY <1>1, <1>2, <1>3 DEF SIGINT, SIGTERM
  <2> QED BY <1>1, <1>2, <2>1 DEF Causes
<1>4. CASE sig = SIGTERM
  <2>1. taken'[SIGTERM] = taken[SIGTERM] + 1 /\ taken'[SIGINT] = taken[SIGINT]
    BY <1>1, <1>2, <1>4 DEF SIGINT, SIGTERM
  <2> QED BY <1>1, <1>2, <2>1 DEF Causes
<1> QED BY <1>2, <1>3, <1>4

\* Every step of the daemon keeps SkipInv.
LEMMA DaemonStepSkip ==
    ASSUME DaemonInv, SkipInv, [DaemonNext]_daemonVars
    PROVE  SkipInv'
<1>c. Causes \in Nat /\ (serverFailed => Causes # 0)
  BY CausesCount
<1>t. TypeOK /\ Server \in Callers
  BY DaemonAssumption DEF DaemonInv, DaemonTypeOK
<1>n. taken[SIGINT] \in Nat /\ taken[SIGTERM] \in Nat
  BY DaemonAssumption DEF DaemonInv, DaemonTypeOK, SIGINT, SIGTERM
<1>1. ASSUME UNCHANGED <<pc, closes, handlers, runs, exitCode, taken, serverFailed, forced, forceQuitCount>>,
             lpc' # "select" => lpc # "select"
      PROVE  SkipInv'
  BY <1>1 DEF SkipInv, Quiet, Causes
<1>2. ASSUME UNCHANGED <<pc, closes>>, Causes' = Causes + 1, forced' => forceQuitCount' >= 2,
             Causes = 0 => ~serverFailed' \/ lpc' = "select"
      PROVE  SkipInv'
  <2>1. Causes' # 0 /\ (Causes' = 1 => Causes = 0)
    BY <1>2, <1>c
  <2>2. Causes = 0 => Quiet'
    BY <1>2 DEF SkipInv, Quiet
  <2> HIDE DEF Causes
  <2> QED BY <1>2, <2>1, <2>2 DEF SkipInv, Quiet
<1>3. ASSUME result = Alive, NEW soon \in BOOLEAN, TakeSignal(soon) PROVE SkipInv'
  <2>1. UNCHANGED <<pc, closes, serverFailed>>
    BY <1>3 DEF TakeSignal, managerVars
  <2>2. forced' => forceQuitCount' >= 2
    <3>1. ~forced
      BY <1>3 DEF DaemonInv, ResultInv, Alive, ExitSIGINT
    <3>2. forced' => ForcesQuit(Head(sigChan), soon)
      BY <1>3, <3>1 DEF TakeSignal
    <3>3. forceQuitCount' = QuitCount(Head(sigChan), soon)
      BY <1>3 DEF TakeSignal
    <3> QED BY <3>2, <3>3 DEF ForcesQuit
  <2>3. Causes = 0 => ~serverFailed'
    BY <2>1, <1>c
  <2> QED BY <1>2, <1>3, <2>1, <2>2, <2>3, SignalCounts
<1>4. CASE ServerFails
  <2>1. Causes' = Causes + 1
    BY <1>4, <1>n DEF ServerFails, Causes
  <2>2. UNCHANGED <<pc, closes, lpc>>
    BY <1>4 DEF ServerFails, managerVars
  <2>3. forced' => forceQuitCount' >= 2
    BY <1>4 DEF ServerFails, SkipInv
  <2>4. Causes = 0 => lpc' = "select"
    BY <2>2 DEF SkipInv
  <2> QED BY <1>2, <2>1, <2>2, <2>3, <2>4
<1>5. CASE ServerTriggers
  <2>1. serverFailed /\ Causes # 0 /\ pc[Server] = "idle" /\ Causes' = Causes
    BY <1>5, <1>c DEF ServerTriggers, CallTrigger, listenVars, Causes
  <2>2. Causes = 1 => Quiet /\ lpc = "select"
    BY <2>1 DEF SkipInv
  <2>3. Causes = 1 => closes' = 0 /\ \A p \in Callers : pc'[p] \in {"idle", "cas"}
    BY <1>5, <1>t, <2>2 DEF ServerTriggers, CallTrigger, TypeOK, Quiet
  <2>4. pc'[Server] = "cas" /\ lpc' = lpc
    BY <1>5, <1>t DEF ServerTriggers, CallTrigger, TypeOK, listenVars
  <2>5. UNCHANGED <<forced, forceQuitCount>>
    BY <1>5 DEF ServerTriggers, listenVars
  <2> QED BY <2>1, <2>2, <2>3, <2>4, <2>5 DEF SkipInv
<1>6. CASE StoreCode
  <2>1. /\ Causes' = Causes /\ lpc # "select"
        /\ UNCHANGED <<pc, closes, serverFailed, forced, forceQuitCount>>
    BY <1>6 DEF StoreCode, Causes
  <2>2. Causes = 1 => Quiet
    BY <2>1 DEF SkipInv
  <2> QED BY <2>1, <2>2 DEF SkipInv, Quiet
<1>7. CASE SpawnShutdown
  <2>1. /\ Causes' = Causes /\ lpc = "spawn" /\ lpc' = "select"
        /\ UNCHANGED <<serverFailed, forced, forceQuitCount>>
    BY <1>7 DEF SpawnShutdown, Causes
  <2>2. Causes = 1 => Quiet /\ ~serverFailed
    BY <2>1 DEF SkipInv
  <2>3. Causes = 1 => closes' = 0 /\ \A p \in Callers : pc'[p] \in {"idle", "cas"}
    BY <1>7, <1>t, <2>2 DEF SpawnShutdown, CallShutdown, TypeOK, Quiet
  <2>4. Causes # 0
    BY <2>1 DEF SkipInv
  <2> QED BY <2>1, <2>2, <2>3, <2>4 DEF SkipInv
<1>8. ASSUME NEW p \in Callers, RunShutdown(p) PROVE SkipInv'
  <2>1. /\ Causes' = Causes /\ UNCHANGED <<lpc, serverFailed, forced, forceQuitCount>>
        /\ Shutdown(p)
    BY <1>8 DEF RunShutdown, listenVars, Causes
  <2>2. pc[p] # "idle" /\ pc'[p] # "idle" /\ \A q \in Callers \ {p} : pc'[q] = pc[q]
    BY <2>1, <1>t DEF Shutdown, CompareAndSwap, CancelContext, TakeSnapshot, RunHandler,
       HandlerReturns, SkipRemaining, AllHandled, MarkStopped, CloseDone, TypeOK
  <2>3. Causes # 0 /\ (Causes = 1 => lpc = "select")
    BY <2>2 DEF SkipInv, Quiet
  <2>4. pc'[Server] = "idle" => pc[Server] = "idle"
    BY <2>2, <1>t
  <2>5. ~(Causes = 1 /\ serverFailed /\ pc[Server] = "idle")
    BY <2>2 DEF SkipInv, Quiet
  <2> DEFINE Ending == closes > 0 \/ \E q \in Callers : pc[q] \in {"stop", "close"}
  <2>6. Ending' /\ Causes = 1 => handlers' = Ran' \/ exitCode' = ExitTimeout
    <3> USE DEF SkipInv, DaemonInv, IInv, OwnerInv
    <3>1. CASE CompareAndSwap(p)   BY <3>1, <1>t DEF CompareAndSwap, TypeOK
    <3>2. CASE CancelContext(p)    BY <3>2, <1>t DEF CancelContext, TypeOK
    <3>3. CASE TakeSnapshot(p)     BY <3>3, <1>t DEF TakeSnapshot, TypeOK
    <3>4. CASE RunHandler(p)       BY <3>4, <1>t DEF RunHandler, TypeOK
    <3>5. CASE HandlerReturns(p)   BY <3>5, <1>t DEF HandlerReturns, TypeOK
    <3>6. CASE SkipRemaining(p)    BY <3>6 DEF SkipRemaining
    <3>7. CASE AllHandled(p)
      <4>1. handlers = Ran
        BY <3>7 DEF AllHandled, ListInv
      <4> QED BY <3>7, <4>1 DEF AllHandled
    <3>8. CASE MarkStopped(p)      BY <3>8, <1>t DEF MarkStopped, TypeOK
    <3>9. CASE CloseDone(p)        BY <3>9, <1>t DEF CloseDone, TypeOK
    <3> QED BY <2>1, <3>1, <3>2, <3>3, <3>4, <3>5, <3>6, <3>7, <3>8, <3>9 DEF Shutdown
  <2> QED BY <2>1, <2>3, <2>4, <2>5, <2>6 DEF SkipInv
<1>9. CASE ContextExpires /\ UNCHANGED listenVars
  BY <1>9, <1>1 DEF ContextExpires, listenVars
<1>10. CASE UNCHANGED managerVars /\ UNCHANGED <<taken, serverFailed, forced, forceQuitCount>> /\ (lpc' # "select" => lpc # "select")
  BY <1>10, <1>1 DEF managerVars
<1> QED BY <1>3, <1>4, <1>5, <1>6, <1>7, <1>8, <1>9, <1>10
        DEF DaemonNext, Listen, SignalArrives, Decide, ReturnWhenDone, daemonVars, listenVars

\* When one thing alone brought the daemon down, a signal or a failed server, a
\* shutdown that skipped handlers because of the timeout exits with ExitTimeout.
THEOREM DaemonReportsSkipped == DaemonSpec => []SkippedIsReported
<1>1. DaemonInit => SkipInv
  <2> SUFFICES ASSUME DaemonInit PROVE SkipInv
    OBVIOUS
  <2>1. Causes = 0
    BY DEF DaemonInit, Causes, SIGINT, SIGTERM
  <2> QED BY <2>1 DEF DaemonInit, SkipInv, Quiet
<1>2. DaemonInv /\ SkipInv /\ [DaemonNext]_daemonVars => SkipInv'
  BY DaemonStepSkip
<1>3. DaemonInv /\ SkipInv => SkippedIsReported
  <2> SUFFICES ASSUME DaemonInv, SkipInv, Exited, Causes = 1, handlers # Ran
               PROVE  result = ExitTimeout
    BY DEF SkippedIsReported
  <2>1. CASE ~forced
    BY <2>1 DEF DaemonInv, ResultInv, SkipInv, Exited
  <2>2. CASE forced
    <3>1. forceQuitCount >= 2 /\ forceQuitCount <= taken[SIGINT]
      BY <2>2 DEF SkipInv, DaemonInv, CountInv
    <3>2. taken[SIGINT] \in Nat /\ taken[SIGTERM] \in Nat /\ forceQuitCount \in Nat
      BY DaemonAssumption DEF DaemonInv, DaemonTypeOK, SIGINT, SIGTERM
    <3> QED BY <3>1, <3>2 DEF Causes
  <2> QED BY <2>1, <2>2
<1> QED BY <1>1, <1>2, <1>3, DaemonInvariant, PTL DEF DaemonSpec
=============================================================================
