------------------------ MODULE OperationTrackerProofs ------------------------
(***************************************************************************)
(* Theorems about OperationTracker, for any operations and any number of   *)
(* calls of WaitForCompletion, and about the drain of ComposeDrain, which  *)
(* is built from it.                                                       *)
(***************************************************************************)
EXTENDS ComposeDrain, FiniteSetTheorems, TLAPS

\* The wait group counts what is in flight.
WgInv == IsFiniteSet(Counted) /\ wg = Cardinality(Counted)

\* A waiter that has been let through has outlived what it found.
WaitInv ==
    \A w \in Waiters :
        /\ wait[w] = "drained" => waiter[w] = "closed"
        /\ waiter[w] = "closed" => \A o \in found[w] : op[o] = "finished"
        /\ \A o \in found[w] : op[o] \in {"active", "removed", "finished"}

IInv == TypeOK /\ WgInv /\ WaitInv

\* makeCustomRunner: the IDs carry a counter.
UniqueIDs == \A o, q \in Ops : IDOf[o] = IDOf[q] => o = q

CancelInv ==
    /\ TypeOK
    /\ \A o \in Ops : op[o] \in {"registered", "active"} => operations[IDOf[o]] = o \/ o \in opCancelled

-----------------------------------------------------------------------------
\* The empty tracker waits for nothing.
LEMMA InitInvariant == Init => IInv
<1> SUFFICES ASSUME Init PROVE IInv
  OBVIOUS
<1> USE DEF Init
<1>1. TypeOK
  <2>1. found \in [Waiters -> SUBSET Ops]
    OBVIOUS
  <2>2. operations \in [IDs -> Ops \cup {NoOp}] /\ wg \in Int
    OBVIOUS
  <2>3. op \in [Ops -> {"new", "registered", "active", "removed", "finished"}]
    OBVIOUS
  <2>4. /\ waiter \in [Waiters -> {"none", "begin", "asleep", "woken", "closed"}]
        /\ wait \in [Waiters -> {"idle", "select", "drained", "timeout"}]
    OBVIOUS
  <2>5. opCancelled \subseteq Ops /\ doneAgain \subseteq Ops /\ panicked \in BOOLEAN
    OBVIOUS
  <2> HIDE DEF Init
  <2> QED BY <2>1, <2>2, <2>3, <2>4, <2>5 DEF TypeOK
<1>2. Counted = {}
  BY DEF Counted
<1>3. WgInv
  BY <1>2, FS_EmptySet DEF WgInv
<1>4. WaitInv
  BY DEF WaitInv
<1> QED BY <1>1, <1>3, <1>4 DEF IInv

\* Every step keeps the types.
LEMMA StepType == TypeOK /\ [Next]_trackerVars => TypeOK'
<1> SUFFICES ASSUME TypeOK, [Next]_trackerVars PROVE TypeOK'
  OBVIOUS
<1> USE DEF TypeOK
<1>1. ASSUME NEW o \in Ops, Start(o) PROVE TypeOK'
  BY <1>1, TrackerAssumption DEF Start, StartRegister, StartCount
<1>2. ASSUME NEW o \in Ops, Done(o) PROVE TypeOK'
  BY <1>2, TrackerAssumption DEF Done, DoneRemove, DoneCount, DoneAgain
<1>3. ASSUME NEW w \in Waiters, WaitCall(w) \/ Waiter(w) \/ WaitDrained(w) \/ WaitTimesOut(w) PROVE TypeOK'
  BY <1>3 DEF WaitCall, Counted, Waiter, WaiterSleeps, WaiterCloses, WaiterPanics, WaitDrained, WaitTimesOut
<1>4. CASE CancelAll \/ UNCHANGED trackerVars
  BY <1>4 DEF CancelAll, Tracked, trackerVars
<1> QED BY <1>1, <1>2, <1>3, <1>4 DEF Next

\* wg.Add(1) comes with one operation more in flight, wg.Done() with one less.
LEMMA StepWg == TypeOK /\ WgInv /\ [Next]_trackerVars => WgInv'
<1> SUFFICES ASSUME TypeOK, WgInv, [Next]_trackerVars PROVE WgInv'
  OBVIOUS
<1> USE DEF TypeOK, WgInv
<1>1. ASSUME NEW o \in Ops, StartCount(o) PROVE WgInv'
  <2>1. o \notin Counted /\ Counted' = Counted \cup {o} /\ wg' = wg + 1
    BY <1>1 DEF StartCount, Counted
  <2> QED BY <2>1, FS_AddElement
<1>2. ASSUME NEW o \in Ops, DoneCount(o) PROVE WgInv'
  <2>1. o \in Counted /\ Counted' = Counted \ {o} /\ wg' = wg - 1
    BY <1>2 DEF DoneCount, Counted
  <2> QED BY <2>1, FS_RemoveElement
<1>3. ASSUME NEW o \in Ops, StartRegister(o) \/ DoneRemove(o) \/ DoneAgain(o) PROVE WgInv'
  <2>1. Counted' = Counted /\ wg' = wg
    BY <1>3 DEF StartRegister, DoneRemove, DoneAgain, Counted
  <2> QED BY <2>1
<1>4. CASE UNCHANGED <<op, wg>>
  BY <1>4 DEF Counted
<1>5. ASSUME NEW w \in Waiters, WaitCall(w) \/ Waiter(w) \/ WaitDrained(w) \/ WaitTimesOut(w)
      PROVE  UNCHANGED <<op, wg>>
  BY <1>5 DEF WaitCall, Waiter, WaiterSleeps, WaiterCloses, WaiterPanics, WaitDrained, WaitTimesOut
<1>6. CASE CancelAll \/ UNCHANGED trackerVars
  BY <1>4, <1>6 DEF CancelAll, trackerVars
<1> QED BY <1>1, <1>2, <1>3, <1>4, <1>5, <1>6 DEF Next, Start, Done

\* wg.Wait returns only at zero, and what was finished stays so.
LEMMA StepWait == IInv /\ TypeOK' /\ [Next]_trackerVars => WaitInv'
<1> SUFFICES ASSUME IInv, [Next]_trackerVars PROVE WaitInv'
  OBVIOUS
<1> USE DEF IInv, TypeOK, WaitInv
<1>1. ASSUME NEW o \in Ops, StartRegister(o) \/ StartCount(o) \/ DoneRemove(o) \/ DoneAgain(o) PROVE WaitInv'
  BY <1>1 DEF StartRegister, StartCount, DoneRemove, DoneAgain
<1>2. ASSUME NEW o \in Ops, DoneCount(o) PROVE WaitInv'
  <2>1. \A w \in Waiters : wait'[w] = wait[w] /\ found'[w] = found[w]
                           /\ (waiter'[w] = "closed" <=> waiter[w] = "closed")
    BY <1>2 DEF DoneCount
  <2>2. op' = [op EXCEPT ![o] = "finished"]
    BY <1>2 DEF DoneCount
  <2> QED BY <2>1, <2>2
<1>3. ASSUME NEW w \in Waiters, WaiterCloses(w) PROVE WaitInv'
  <2>1. Counted = {}
    BY <1>3, FS_EmptySet DEF WaiterCloses, WgInv
  <2>2. \A o \in found[w] : op[o] = "finished"
    BY <2>1 DEF Counted
  <2> QED BY <1>3, <2>2 DEF WaiterCloses
<1>4. ASSUME NEW w \in Waiters, WaitCall(w) PROVE WaitInv'
  BY <1>4 DEF WaitCall, Counted
<1>5. ASSUME NEW w \in Waiters, WaiterSleeps(w) \/ WaiterPanics(w) \/ WaitDrained(w) \/ WaitTimesOut(w)
      PROVE  WaitInv'
  BY <1>5 DEF WaiterSleeps, WaiterPanics, WaitDrained, WaitTimesOut
<1>6. CASE CancelAll \/ UNCHANGED trackerVars
  BY <1>6 DEF CancelAll, trackerVars
<1> QED BY <1>1, <1>2, <1>3, <1>4, <1>5, <1>6 DEF Next, Start, Done, Waiter

\* The inductive invariant of the tracker.
THEOREM TrackerInvariant == Spec => []IInv
<1>1. IInv /\ [Next]_trackerVars => IInv'
  BY StepType, StepWg, StepWait DEF IInv
<1> QED BY <1>1, InitInvariant, PTL DEF Spec

\* WaitForCompletion returns nil only after done() of every operation that was in flight
\* at the call, whoever else starts and waits meanwhile.
THEOREM NilMeansDrained == Spec => []DrainedMeansFinished
<1>1. IInv => DrainedMeansFinished
  BY DEF IInv, WaitInv, DrainedMeansFinished
<1> QED BY <1>1, TrackerInvariant, PTL

\* CancelAll reaches every operation in flight, as long as no two share an ID.
THEOREM EveryOperationCancellable == ASSUME UniqueIDs PROVE Spec => []ActiveIsCancellable
<1>1. Init => CancelInv
  BY InitInvariant DEF IInv, CancelInv, Init
<1>2. CancelInv /\ [Next]_trackerVars => CancelInv'
  <2> SUFFICES ASSUME CancelInv, [Next]_trackerVars PROVE CancelInv'
    OBVIOUS
  <2>0. TypeOK /\ TypeOK'
    BY StepType DEF CancelInv
  <2> USE <2>0 DEF CancelInv, TypeOK
  <2>1. ASSUME NEW o \in Ops, StartRegister(o) PROVE CancelInv'
    BY <2>1, TrackerAssumption DEF StartRegister
  <2>2. ASSUME NEW o \in Ops, DoneRemove(o) PROVE CancelInv'
    BY <2>2, TrackerAssumption, UniqueIDs DEF DoneRemove, UniqueIDs
  <2>3. ASSUME NEW o \in Ops, StartCount(o) \/ DoneCount(o) \/ DoneAgain(o) PROVE CancelInv'
    BY <2>3 DEF StartCount, DoneCount, DoneAgain
  <2>4. ASSUME NEW w \in Waiters, WaitCall(w) \/ Waiter(w) \/ WaitDrained(w) \/ WaitTimesOut(w)
        PROVE  CancelInv'
    BY <2>4 DEF WaitCall, Waiter, WaiterSleeps, WaiterCloses, WaiterPanics, WaitDrained, WaitTimesOut
  <2>5. CASE CancelAll \/ UNCHANGED trackerVars
    BY <2>5 DEF CancelAll, trackerVars
  <2> QED BY <2>1, <2>2, <2>3, <2>4, <2>5 DEF Next, Start, Done
<1>3. CancelInv => ActiveIsCancellable
  BY DEF CancelInv, ActiveIsCancellable
<1> QED BY <1>1, <1>2, <1>3, PTL DEF Spec

-----------------------------------------------------------------------------
(***************************************************************************)
(* The drain.  Only what follows uses DrainAssumption.                     *)
(***************************************************************************)

\* The server accepts nothing more and every request has been answered.
Served == ~accepting /\ \A o \in Ops : ~InFlight(o)

\* The variables of the manager and of the requests that the proof looks at.
DrainTypes ==
    /\ TypeOK
    /\ handlers = Handlers
    /\ DOMAIN pc = Callers
    /\ todo \in [Callers -> SUBSET Handlers]
    /\ DOMAIN command = Ops
    /\ accepting \in BOOLEAN
    /\ DOMAIN current = Callers
    /\ closes \in Nat

\* An operation is in the tracker only between the runner's check and its end.
RunnerInv ==
    \A o \in Ops :
        /\ command[o] \in {"none", "begun", "admitted", "refused", "ended"}
        /\ command[o] \in {"none", "begun", "refused"} => op[o] = "new"
        /\ command[o] = "ended" => op[o] \in {"new", "finished"}

\* Nobody who shuts down gets past the server's handler, unless the timeout has
\* passed, before every request has been answered.
PassInv(p) ==
    /\ pc[p] \in {"loop", "handler"} =>
          \/ HttpServer \in todo[p]
          \/ pc[p] = "handler" /\ current[p] = HttpServer /\ ~accepting
          \/ expired
          \/ Served
    /\ pc[p] \in {"stop", "close"} => expired \/ Served

\* What comes after the server's handler finds every request answered.
AfterInv ==
    /\ closes > 0 => expired \/ Served
    /\ ~dockerOpen => Served
    /\ \A w \in Waiters : waiter[w] # "none" => Served

DrainInv ==
    /\ DrainTypes
    /\ WgInv
    /\ RunnerInv
    /\ \A p \in Callers : PassInv(p)
    /\ AfterInv
    /\ ~panicked

\* The initial state: nothing has begun and the handlers are registered.
LEMMA DrainInitInvariant == DrainInit => DrainInv
<1> SUFFICES ASSUME DrainInit PROVE DrainInv
  OBVIOUS
<1>1. TypeOK /\ WgInv
  BY InitInvariant DEF DrainInit, IInv
<1>2. DrainTypes
  <2>1. todo \in [Callers -> SUBSET Handlers]
    BY DEF DrainInit
  <2> QED BY <1>1, <2>1 DEF DrainInit, DrainTypes
<1>3. RunnerInv
  BY DEF DrainInit, Init, RunnerInv
<1>4. \A p \in Callers : PassInv(p)
  BY DEF DrainInit, PassInv
<1>5. AfterInv
  BY DEF DrainInit, Init, AfterInv
<1>6. ~panicked
  BY DEF DrainInit, Init
<1> QED BY <1>1, <1>2, <1>3, <1>4, <1>5, <1>6 DEF DrainInv

\* What a step of the drain does to the tracker is a step of the tracker.
LEMMA DrainStepIs == [DrainNext]_drainVars => [Next]_trackerVars
<1> SUFFICES ASSUME [DrainNext]_drainVars PROVE [Next]_trackerVars
  OBVIOUS
<1>1. CASE UNCHANGED drainVars
  BY <1>1 DEF drainVars
<1>2. CASE DrainNext
  <2>0. ~panicked
    BY <1>2 DEF DrainNext
  <2>1. ASSUME NEW o \in Ops, Begin(o) \/ Proceed(o) PROVE [Next]_trackerVars
    BY <2>0, <2>1 DEF Begin, Proceed, CheckShutdown, StartOperation, FinishOperation, End,
       Next, Done
  <2>2. ASSUME NEW p \in Callers, Trigger(p) \/ ShutdownStep(p) PROVE [Next]_trackerVars
    BY <2>0, <2>2 DEF Trigger, ShutdownStep, InvokeHandler, Next
  <2>3. ASSUME NEW w \in Waiters, WaitStep(w) PROVE [Next]_trackerVars
    BY <2>0, <2>3 DEF WaitStep, Next
  <2>4. CASE Expire
    BY <2>4 DEF Expire
  <2> QED BY <1>2, <2>1, <2>2, <2>3, <2>4 DEF DrainNext
<1> QED BY <1>1, <1>2

\* The steps of the body of Shutdown that neither start nor end a handler.
Silent(p) ==
    \/ M!CompareAndSwap(p) \/ M!CancelContext(p) \/ M!TakeSnapshot(p)
    \/ M!SkipRemaining(p) \/ M!AllHandled(p) \/ M!MarkStopped(p) \/ M!CloseDone(p)

\* What a step leaves alone, by the part of the system that takes it.
LEMMA Frame ==
    ASSUME DrainNext
    PROVE  \/ \E o \in Ops : (Begin(o) \/ Proceed(o))
                 /\ UNCHANGED <<managerVars, accepting, dockerOpen, current, wait, waiter, panicked>>
           \/ \E o \in Ops : DoneCount(o) /\ FinishOperation(o)
                 /\ UNCHANGED <<managerVars, accepting, dockerOpen, current, panicked>>
           \/ \E p \in Callers : (Trigger(p) \/ ShutdownStep(p)) /\ UNCHANGED <<command, op>>
           \/ \E w \in Waiters : WaitStep(w) /\ UNCHANGED <<managerVars, commandVars, op>>
           \/ Expire /\ UNCHANGED <<trackerVars, commandVars, handlers, pc, todo, closes>>
<1>1. ASSUME NEW o \in Ops, FinishOperation(o)
      PROVE  \/ DoneCount(o) /\ UNCHANGED <<managerVars, accepting, dockerOpen, current, panicked>>
             \/ UNCHANGED <<managerVars, accepting, dockerOpen, current, wait, waiter, panicked>>
  BY <1>1 DEF FinishOperation, DoneRemove, DoneCount, commandVars
<1>2. ASSUME NEW o \in Ops, Begin(o) \/ CheckShutdown(o) \/ StartOperation(o) \/ End(o)
      PROVE  UNCHANGED <<managerVars, accepting, dockerOpen, current, wait, waiter, panicked>>
  BY <1>2 DEF Begin, CheckShutdown, StartOperation, End, Start, StartRegister, StartCount,
     commandVars, trackerVars
<1>3. ASSUME NEW p \in Callers, Trigger(p) \/ ShutdownStep(p) PROVE UNCHANGED <<command, op>>
  BY <1>3 DEF Trigger, ShutdownStep, InvokeHandler, WaitCall, commandVars, trackerVars
<1>4. ASSUME NEW w \in Waiters, WaitStep(w) PROVE UNCHANGED <<managerVars, commandVars, op>>
  BY <1>4 DEF WaitStep, Waiter, WaiterSleeps, WaiterCloses, WaiterPanics, WaitDrained, WaitTimesOut
<1>5. ASSUME Expire PROVE UNCHANGED <<trackerVars, commandVars, handlers, pc, todo, closes>>
  BY <1>5 DEF Expire, M!ContextExpires
<1> QED BY <1>1, <1>2, <1>3, <1>4, <1>5 DEF DrainNext, Proceed

\* Once every request has been answered and none is accepted, it stays so, and
\* the timeout does not un-pass.
LEMMA ServedStays ==
    ASSUME DrainTypes, [DrainNext]_drainVars
    PROVE  (Served => Served') /\ (expired => expired')
<1> USE DEF DrainTypes, Served, InFlight
<1>1. CASE UNCHANGED drainVars
  BY <1>1 DEF drainVars, commandVars, managerVars
<1>2. ASSUME NEW o \in Ops, Begin(o) \/ Proceed(o)
      PROVE  (Served => Served') /\ expired' = expired
  BY <1>2 DEF Begin, Proceed, CheckShutdown, StartOperation, FinishOperation, End, Become,
     managerVars, commandVars
<1>3. ASSUME NEW p \in Callers, Trigger(p) \/ ShutdownStep(p)
      PROVE  (Served => Served') /\ expired' = expired
  BY <1>3 DEF Trigger, ShutdownStep, InvokeHandler, commandVars, M!Call, M!CallShutdown,
     M!CallTrigger, M!RunHandler, M!HandlerReturns, M!CompareAndSwap, M!CancelContext,
     M!TakeSnapshot, M!SkipRemaining, M!AllHandled, M!MarkStopped, M!CloseDone
<1>4. ASSUME NEW w \in Waiters, WaitStep(w) PROVE (Served => Served') /\ expired' = expired
  BY <1>4 DEF WaitStep, managerVars, commandVars
<1>5. CASE Expire
  BY <1>5 DEF Expire, M!ContextExpires, commandVars
<1> QED BY <1>1, <1>2, <1>3, <1>4, <1>5 DEF DrainNext

\* Each step keeps the shape of the manager's and the requests' variables.
LEMMA DrainStepTypes ==
    ASSUME DrainTypes, [DrainNext]_drainVars
    PROVE  DrainTypes'
<1>0. TypeOK'
  BY DrainStepIs, StepType DEF DrainTypes
<1> USE <1>0 DEF DrainTypes
<1>1. CASE UNCHANGED drainVars
  BY <1>1 DEF drainVars, commandVars, managerVars
<1>2. ASSUME NEW o \in Ops, Begin(o) \/ Proceed(o) PROVE DrainTypes'
  BY <1>2 DEF Begin, Proceed, CheckShutdown, StartOperation, FinishOperation, End, Become,
     managerVars, commandVars
<1>3. ASSUME NEW p \in Callers, Trigger(p) PROVE DrainTypes'
  BY <1>3 DEF Trigger, commandVars, M!Call, M!CallShutdown, M!CallTrigger, M!Goto
<1>4. ASSUME NEW p \in Callers, ShutdownStep(p) PROVE DrainTypes'
  <2>1. CASE M!RunHandler(p)
    <3>1. DOMAIN command' = Ops /\ accepting' \in BOOLEAN /\ DOMAIN current' = Callers
      BY <2>1, <1>4 DEF ShutdownStep, InvokeHandler, commandVars, M!RunHandler,
         M!HandlerReturns, M!CompareAndSwap, M!CancelContext, M!TakeSnapshot,
         M!SkipRemaining, M!AllHandled, M!MarkStopped, M!CloseDone
    <3> QED BY <2>1, <3>1 DEF M!RunHandler, M!Goto
  <2>2. CASE M!HandlerReturns(p) /\ UNCHANGED commandVars
    BY <2>2 DEF M!HandlerReturns, commandVars, M!Goto
  <2>3. CASE Silent(p) /\ UNCHANGED commandVars
    BY <2>3 DEF Silent, commandVars, M!CompareAndSwap, M!CancelContext,
       M!TakeSnapshot, M!SkipRemaining, M!AllHandled, M!MarkStopped, M!CloseDone, M!Goto
  <2> QED BY <1>4, <2>1, <2>2, <2>3 DEF ShutdownStep, Silent
<1>5. ASSUME NEW w \in Waiters, WaitStep(w) PROVE DrainTypes'
  BY <1>5 DEF WaitStep, managerVars, commandVars
<1>6. CASE Expire
  BY <1>6 DEF Expire, commandVars, M!ContextExpires
<1> QED BY <1>1, <1>2, <1>3, <1>4, <1>5, <1>6 DEF DrainNext

\* Each step keeps the runner and its operation in step.
LEMMA DrainStepRunner ==
    ASSUME DrainTypes, RunnerInv, [DrainNext]_drainVars
    PROVE  RunnerInv'
<1> USE DEF RunnerInv
<1>1. CASE UNCHANGED <<command, op>>
  BY <1>1
<1>2. ASSUME NEW o \in Ops, Begin(o) \/ CheckShutdown(o) \/ End(o) PROVE RunnerInv'
  BY <1>2 DEF Begin, CheckShutdown, End, Become, trackerVars, DrainTypes
<1>3. ASSUME NEW o \in Ops, StartOperation(o) \/ FinishOperation(o) PROVE RunnerInv'
  BY <1>3 DEF StartOperation, FinishOperation, Start, StartRegister, StartCount, DoneRemove,
     DoneCount, commandVars, DrainTypes, TypeOK
<1> QED BY <1>1, <1>2, <1>3, Frame DEF drainVars, trackerVars, commandVars, Proceed

\* A handler other than the server's starts only when the server's has drained
\* the requests.
LEMMA HandlerOrder ==
    ASSUME HttpServer \in Handlers, DrainTypes, NEW p \in Callers, PassInv(p), M!RunHandler(p),
           NEW h \in todo[p] \ todo'[p], h # HttpServer
    PROVE  Served /\ HttpServer \notin todo'[p]
<1>1. PICK f \in M!Foremost(todo[p]) : todo' = [todo EXCEPT ![p] = @ \ {f}]
  BY DEF M!RunHandler
<1>2. f = h
  BY <1>1 DEF DrainTypes
<1>3. HttpServer \notin todo[p]
  <2> SUFFICES ASSUME HttpServer \in todo[p] PROVE FALSE
    OBVIOUS
  <2>1. Priority[h] <= Priority[HttpServer]
    BY <1>1, <1>2 DEF M!Foremost
  <2>2. h \in Handlers
    BY DEF DrainTypes
  <2>3. Priority[h] \in Int /\ Priority[HttpServer] \in Int
        /\ Priority[HttpServer] < Priority[h]
    BY <2>2, DrainAssumption
  <2> QED BY <2>1, <2>3
<1> QED BY <1>1, <1>3 DEF PassInv, M!RunHandler, DrainTypes

\* Each step keeps whoever shuts down behind the server's handler.
LEMMA DrainStepPass ==
    ASSUME HttpServer \in Handlers, DrainTypes, \A p \in Callers : PassInv(p),
           [DrainNext]_drainVars
    PROVE  \A p \in Callers : PassInv(p)'
<1>s. (Served => Served') /\ (expired => expired')
  BY ServedStays
<1>a. accepting' => accepting
  BY Frame DEF drainVars, commandVars, Trigger, ShutdownStep, InvokeHandler, Expire
<1> USE DEF DrainTypes
<1>1. ASSUME NEW p \in Callers, UNCHANGED <<pc, todo, current>> PROVE PassInv(p)'
  BY <1>1, <1>s, <1>a DEF PassInv
<1>2. ASSUME NEW p \in Callers, Trigger(p), NEW q \in Callers PROVE PassInv(q)'
  <2>1. UNCHANGED <<todo, current>> /\ pc' = [pc EXCEPT ![p] = "cas"]
    BY <1>2 DEF Trigger, commandVars, M!Call, M!CallShutdown, M!CallTrigger, M!Goto
  <2> QED BY <2>1, <1>s, <1>a DEF PassInv
<1>3. ASSUME NEW p \in Callers, ShutdownStep(p), NEW q \in Callers PROVE PassInv(q)'
  <2>1. CASE p # q
    <3>1. pc'[q] = pc[q] /\ todo'[q] = todo[q] /\ current'[q] = current[q]
      BY <1>3, <2>1 DEF ShutdownStep, InvokeHandler, commandVars, M!RunHandler,
         M!HandlerReturns, M!CompareAndSwap, M!CancelContext, M!TakeSnapshot,
         M!SkipRemaining, M!AllHandled, M!MarkStopped, M!CloseDone, M!Goto
    <3> QED BY <3>1, <1>s, <1>a DEF PassInv
  <2>2. CASE p = q /\ M!RunHandler(p)
    <3>1. PICK h \in todo[p] \ todo'[p] :
             InvokeHandler(h) /\ current' = [current EXCEPT ![p] = h]
      BY <1>3, <2>2 DEF ShutdownStep, M!HandlerReturns, M!CompareAndSwap, M!CancelContext,
         M!TakeSnapshot, M!SkipRemaining, M!AllHandled, M!MarkStopped, M!CloseDone,
         M!RunHandler, M!Goto
    <3>2. CASE h = HttpServer
      BY <2>2, <3>1, <3>2 DEF InvokeHandler, M!RunHandler, M!Goto, PassInv
    <3>3. CASE h # HttpServer
      <4>1. Served'
        BY <2>2, <3>1, <3>3, <1>s, HandlerOrder
      <4> QED BY <2>2, <4>1 DEF M!RunHandler, M!Goto, PassInv
    <3> QED BY <3>2, <3>3
  <2>3. CASE p = q /\ M!HandlerReturns(p) /\ CanReturn(current[p]) /\ UNCHANGED commandVars
    <3>1. current[p] = HttpServer => expired \/ \A o \in Ops : ~InFlight(o)
      BY <2>3, DrainAssumption DEF CanReturn
    <3>2. \/ HttpServer \in todo[p] \/ expired \/ Served
      BY <2>3, <3>1 DEF PassInv, M!HandlerReturns, Served
    <3> QED BY <2>3, <3>2, <1>s DEF PassInv, M!HandlerReturns, M!Goto
  <2>4. CASE p = q /\ Silent(p) /\ UNCHANGED commandVars
    <3>1. CASE M!TakeSnapshot(p)
      BY <2>4, <3>1 DEF M!TakeSnapshot, M!Goto, PassInv
    <3>2. CASE M!CompareAndSwap(p) \/ M!CancelContext(p) \/ M!CloseDone(p)
      BY <2>4, <3>2 DEF M!CompareAndSwap, M!CancelContext, M!CloseDone, M!Goto, PassInv
    <3>3. CASE M!SkipRemaining(p) \/ M!AllHandled(p) \/ M!MarkStopped(p)
      BY <2>4, <3>3, <1>s DEF M!SkipRemaining, M!AllHandled, M!MarkStopped, M!Goto, PassInv
    <3> QED BY <2>4, <3>1, <3>2, <3>3 DEF Silent
  <2> QED BY <1>3, <2>1, <2>2, <2>3, <2>4 DEF ShutdownStep, Silent
<1>4. CASE UNCHANGED <<pc, todo, current>>
  BY <1>1, <1>4
<1> QED BY <1>2, <1>3, <1>4, Frame DEF drainVars, managerVars, commandVars

\* Each step keeps what comes after the server's handler behind its drain.
LEMMA DrainStepAfter ==
    ASSUME HttpServer \in Handlers, DrainInv, [DrainNext]_drainVars
    PROVE  AfterInv'
<1>s. (Served => Served') /\ (expired => expired')
  BY ServedStays DEF DrainInv
<1> USE DEF DrainInv, AfterInv
<1>1. CASE UNCHANGED <<closes, dockerOpen, waiter>>
  BY <1>1, <1>s
<1>2. ASSUME NEW o \in Ops, DoneCount(o), UNCHANGED <<closes, dockerOpen>> PROVE AfterInv'
  BY <1>2, <1>s DEF DoneCount
<1>3. ASSUME NEW p \in Callers, ShutdownStep(p) PROVE AfterInv'
  <2>1. CASE M!RunHandler(p)
    <3>1. PICK h \in todo[p] \ todo'[p] : InvokeHandler(h)
      BY <1>3, <2>1 DEF ShutdownStep, M!HandlerReturns, M!CompareAndSwap, M!CancelContext,
         M!TakeSnapshot, M!SkipRemaining, M!AllHandled, M!MarkStopped, M!CloseDone,
         M!RunHandler, M!Goto, DrainTypes
    <3>2. closes' = closes
      BY <2>1 DEF M!RunHandler
    <3>3. CASE h = HttpServer
      <4>1. h # Tracker /\ h # DockerClient
        BY <3>3, DrainAssumption
      <4>2. UNCHANGED waiter /\ (dockerOpen => dockerOpen')
        BY <3>1, <4>1 DEF InvokeHandler, trackerVars
      <4> QED BY <3>2, <4>2, <1>s
    <3>4. CASE h # HttpServer
      <4>1. Served
        BY <2>1, <3>4, HandlerOrder
      <4> QED BY <3>2, <4>1, <1>s
    <3> QED BY <3>3, <3>4
  <2>2. CASE M!CloseDone(p) /\ UNCHANGED <<trackerVars, commandVars>>
    <3>1. expired \/ Served
      BY <2>2 DEF M!CloseDone, PassInv
    <3> QED BY <2>2, <3>1, <1>s DEF trackerVars, commandVars
  <2>3. CASE /\ M!HandlerReturns(p) \/ (Silent(p) /\ ~M!CloseDone(p))
             /\ UNCHANGED <<trackerVars, commandVars>>
    <3>1. UNCHANGED closes
      BY <2>3 DEF Silent, M!HandlerReturns, M!CompareAndSwap, M!CancelContext,
         M!TakeSnapshot, M!SkipRemaining, M!AllHandled, M!MarkStopped
    <3> QED BY <2>3, <3>1, <1>1 DEF trackerVars, commandVars
  <2> QED BY <1>3, <2>1, <2>2, <2>3 DEF ShutdownStep, Silent
<1>4. ASSUME NEW p \in Callers, Trigger(p) PROVE AfterInv'
  BY <1>4, <1>1 DEF Trigger, trackerVars, commandVars, M!Call, M!CallShutdown, M!CallTrigger
<1>5. ASSUME NEW w \in Waiters, WaitStep(w) PROVE AfterInv'
  <2>1. UNCHANGED <<closes, dockerOpen>>
    BY <1>5 DEF WaitStep, managerVars, commandVars
  <2>2. \A v \in Waiters : waiter'[v] # "none" => waiter[v] # "none"
    BY <1>5 DEF WaitStep, Waiter, WaiterSleeps, WaiterCloses, WaiterPanics, WaitDrained,
       WaitTimesOut, DrainTypes, TypeOK
  <2> QED BY <2>1, <2>2, <1>s
<1> QED BY <1>1, <1>2, <1>3, <1>4, <1>5, Frame
        DEF drainVars, managerVars, commandVars, trackerVars, Expire

\* When every request has been answered the wait group is at zero.
LEMMA ServedMeansZero ==
    ASSUME DrainTypes, RunnerInv, WgInv, Served
    PROVE  wg = 0
<1>1. \A o \in Ops : op[o] \in {"new", "finished"}
  BY DEF Served, InFlight, RunnerInv
<1>2. Counted = {}
  BY <1>1 DEF Counted
<1> QED BY <1>2, FS_EmptySet DEF WgInv

\* No step makes the wait group panic.
LEMMA DrainStepPanic ==
    ASSUME DrainInv, [DrainNext]_drainVars
    PROVE  ~panicked'
<1>1. CASE UNCHANGED panicked
  BY <1>1 DEF DrainInv
<1>2. ASSUME NEW w \in Waiters, WaitStep(w) PROVE ~panicked'
  <2>1. CASE WaiterPanics(w)
    <3>1. Served
      BY <2>1 DEF WaiterPanics, DrainInv, AfterInv
    <3> QED BY <2>1, <3>1, ServedMeansZero DEF WaiterPanics, DrainInv
  <2>2. CASE ~WaiterPanics(w)
    BY <1>2, <2>2, <1>1 DEF WaitStep, Waiter, WaiterSleeps, WaiterCloses, WaitDrained, WaitTimesOut
  <2> QED BY <2>1, <2>2
<1>3. ASSUME NEW p \in Callers, Trigger(p) \/ ShutdownStep(p) PROVE UNCHANGED panicked
  BY <1>3 DEF Trigger, ShutdownStep, InvokeHandler, WaitCall, trackerVars
<1> QED BY <1>1, <1>2, <1>3, Frame DEF drainVars, trackerVars, Expire

\* The inductive invariant of the drain, where the daemon's server takes part.
THEOREM DrainInvariant ==
    ASSUME HttpServer \in Handlers PROVE DrainSpec => []DrainInv
<1>1. DrainInv /\ [DrainNext]_drainVars => DrainInv'
  <2> SUFFICES ASSUME DrainInv, [DrainNext]_drainVars PROVE DrainInv'
    OBVIOUS
  <2>1. DrainTypes' /\ RunnerInv' /\ \A p \in Callers : PassInv(p)'
    BY DrainStepTypes, DrainStepRunner, DrainStepPass DEF DrainInv
  <2>2. WgInv'
    BY DrainStepIs, StepWg DEF DrainInv, DrainTypes
  <2>3. AfterInv' /\ ~panicked'
    BY DrainStepAfter, DrainStepPanic
  <2> QED BY <2>1, <2>2, <2>3 DEF DrainInv
<1> QED BY DrainInitInvariant, <1>1, PTL DEF DrainSpec

\* In the drain the tracker is used as its own specification says.
THEOREM DrainImplementsTracker == DrainSpec => Spec
<1>1. DrainInit => Init
  BY DEF DrainInit
<1>2. [DrainNext]_drainVars => [Next]_trackerVars
  BY DrainStepIs
<1> QED BY <1>1, <1>2, PTL DEF DrainSpec, Spec

\* In the daemon the Docker client is not closed while a request is in flight,
\* though IsShuttingDown is read without the manager's lock.
THEOREM DockerClosedLast ==
    ASSUME HttpServer \in Handlers PROVE DrainSpec => []DockerOutlivesRequests
<1>1. DrainInv => DockerOutlivesRequests
  BY DEF DrainInv, AfterInv, Served, DockerOutlivesRequests
<1> QED BY <1>1, DrainInvariant, PTL

\* In the daemon no operation is started while the tracker's waiter wakes up.
THEOREM NoWaitGroupReuse ==
    ASSUME HttpServer \in Handlers PROVE DrainSpec => []WaitGroupNotReused
<1>1. DrainInv => WaitGroupNotReused
  BY DEF DrainInv, WaitGroupNotReused
<1> QED BY <1>1, DrainInvariant, PTL

\* In the daemon done is closed before the timeout only when no operation is in
\* progress.
THEOREM DaemonDrains ==
    ASSUME HttpServer \in Handlers PROVE DrainSpec => []DoneMeansDrained
<1>1. DrainInv => DoneMeansDrained
  BY DEF DrainInv, AfterInv, Served, InFlight, RunnerInv, DoneMeansDrained
<1> QED BY <1>1, DrainInvariant, PTL
=============================================================================
