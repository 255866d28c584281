--------------------------- MODULE OperationTracker ---------------------------
(***************************************************************************)
(* The tracker of in-flight operations, internal/shutdown/tracker.go:      *)
(* Start, the done function it returns, WaitForCompletion and CancelAll,   *)
(* called by any number of goroutines, with the sync.WaitGroup they share. *)
(*                                                                         *)
(* operations holds for each ID the operation whose cancel function is     *)
(* stored.  The counter behind ActiveCount only feeds log messages and is  *)
(* left out.                                                               *)
(***************************************************************************)
EXTENDS Integers, FiniteSets

CONSTANTS Ops,      \* operations, one call of Start each
          IDs,      \* operation IDs
          IDOf,     \* the ID each operation passes to Start
          Waiters,  \* calls of WaitForCompletion
          NoOp      \* "no entry under this ID"

ASSUME TrackerAssumption ==
    /\ IDOf \in [Ops -> IDs]
    /\ NoOp \notin Ops

VARIABLES
    operations,   \* OperationTracker.operations
    wg,           \* the counter of OperationTracker.wg
    op,           \* progress of each operation
    opCancelled,  \* the operations whose context the tracker cancelled
    doneAgain,    \* operations whose done function was called once more
    waiter,       \* the goroutine that calls wg.Wait for a waiter
    wait,         \* progress of WaitForCompletion itself
    panicked,     \* wg.Wait found the counter raised as it woke up
    found         \* history: the operations counted at the call

trackerVars == <<operations, wg, op, opCancelled, doneAgain,
                 waiter, wait, panicked, found>>

TypeOK ==
    /\ operations \in [IDs -> Ops \cup {NoOp}]
    /\ wg \in Int
    /\ op \in [Ops -> {"new", "registered", "active", "removed", "finished"}]
    /\ opCancelled \subseteq Ops
    /\ doneAgain \subseteq Ops
    /\ waiter \in [Waiters -> {"none", "begin", "asleep", "woken", "closed"}]
    /\ wait \in [Waiters -> {"idle", "select", "drained", "timeout"}]
    /\ panicked \in BOOLEAN
    /\ found \in [Waiters -> SUBSET Ops]

Init ==
    /\ operations = [i \in IDs |-> NoOp]
    /\ wg = 0
    /\ op = [o \in Ops |-> "new"]
    /\ opCancelled = {}
    /\ doneAgain = {}
    /\ waiter = [w \in Waiters |-> "none"]
    /\ wait = [w \in Waiters |-> "idle"]
    /\ panicked = FALSE
    /\ found = [w \in Waiters |-> {}]

Tracked == {operations[i] : i \in IDs} \ {NoOp}
Counted == {o \in Ops : op[o] \in {"active", "removed"}}

-----------------------------------------------------------------------------
(***************************************************************************)
(* Start: the entry under the lock, then wg.Add(1) without it.             *)
(***************************************************************************)
StartRegister(o) ==
    /\ op[o] = "new"
    /\ opCancelled' = opCancelled \cup ({operations[IDOf[o]]} \ {NoOp})
    /\ operations' = [operations EXCEPT ![IDOf[o]] = o]
    /\ op' = [op EXCEPT ![o] = "registered"]
    /\ UNCHANGED <<wg, doneAgain, waiter, wait, panicked, found>>

StartCount(o) ==
    /\ op[o] = "registered"
    /\ wg' = wg + 1
    /\ op' = [op EXCEPT ![o] = "active"]
    /\ UNCHANGED <<operations, opCancelled, doneAgain, waiter, wait,
                   panicked, found>>

(***************************************************************************)
(* done(): the entry is deleted by its ID, then wg.Done() wakes every      *)
(* sleeper when the counter reaches zero.                                  *)
(***************************************************************************)
\* Mutant: the entry is not deleted.
DoneRemoveForgotten(o) ==
    /\ op[o] = "active"
    /\ op' = [op EXCEPT ![o] = "removed"]
    /\ UNCHANGED <<operations, wg, opCancelled, doneAgain, waiter, wait, panicked, found>>

\* Mutant: the whole map is reset.
DoneRemoveAll(o) ==
    /\ op[o] = "active"
    /\ operations' = [i \in IDs |-> NoOp]
    /\ op' = [op EXCEPT ![o] = "removed"]
    /\ UNCHANGED <<wg, opCancelled, doneAgain, waiter, wait, panicked, found>>

DoneRemove(o) ==
    /\ op[o] = "active"
    /\ operations' = [operations EXCEPT ![IDOf[o]] = NoOp]
    /\ op' = [op EXCEPT ![o] = "removed"]
    /\ UNCHANGED <<wg, opCancelled, doneAgain, waiter, wait, panicked, found>>

\* Mutant: wg.Done() is not called.
DoneCountForgotten(o) ==
    /\ op[o] = "removed"
    /\ op' = [op EXCEPT ![o] = "finished"]
    /\ UNCHANGED <<operations, wg, opCancelled, doneAgain, waiter, wait, panicked, found>>

DoneCount(o) ==
    /\ op[o] = "removed"
    /\ wg' = wg - 1
    /\ op' = [op EXCEPT ![o] = "finished"]
    /\ waiter' = [w \in Waiters |->
                    IF wg - 1 = 0 /\ waiter[w] = "asleep" THEN "woken" ELSE waiter[w]]
    /\ UNCHANGED <<operations, opCancelled, doneAgain, wait, panicked, found>>

\* Mutant: no sync.Once.
DoneAgainCounts(o) ==
    /\ op[o] = "finished"
    /\ o \notin doneAgain
    /\ doneAgain' = doneAgain \cup {o}
    /\ wg' = wg - 1
    /\ UNCHANGED <<operations, op, opCancelled, waiter, wait, panicked, found>>

\* Calling done() again does nothing: sync.Once.
DoneAgain(o) ==
    /\ op[o] = "finished"
    /\ o \notin doneAgain
    /\ doneAgain' = doneAgain \cup {o}
    /\ UNCHANGED <<operations, wg, op, opCancelled, waiter, wait, panicked, found>>

\* Mutant: empty entries are cancelled too.
CancelAllEntries ==
    /\ opCancelled' = opCancelled \cup {operations[i] : i \in IDs}
    /\ UNCHANGED <<operations, wg, op, doneAgain, waiter, wait, panicked, found>>

CancelAll ==
    /\ opCancelled' = opCancelled \cup Tracked
    /\ UNCHANGED <<operations, wg, op, doneAgain, waiter, wait, panicked, found>>

-----------------------------------------------------------------------------
(***************************************************************************)
(* WaitForCompletion: a goroutine sleeps in wg.Wait and closes a channel;  *)
(* the caller selects on that channel and on its context.                  *)
(***************************************************************************)
WaitCall(w) ==
    /\ wait[w] = "idle"
    /\ wait' = [wait EXCEPT ![w] = "select"]
    /\ waiter' = [waiter EXCEPT ![w] = "begin"]
    /\ found' = [found EXCEPT ![w] = Counted]
    /\ UNCHANGED <<operations, wg, op, opCancelled, doneAgain, panicked>>

WaiterSleeps(w) ==
    /\ waiter[w] = "begin"
    /\ wg # 0
    /\ waiter' = [waiter EXCEPT ![w] = "asleep"]
    /\ UNCHANGED <<operations, wg, op, opCancelled, doneAgain, wait, panicked, found>>

WaiterCloses(w) ==
    /\ waiter[w] \in {"begin", "woken"}
    /\ wg = 0
    /\ waiter' = [waiter EXCEPT ![w] = "closed"]
    /\ UNCHANGED <<operations, wg, op, opCancelled, doneAgain, wait, panicked, found>>

\* "sync: WaitGroup is reused before previous Wait has returned"
WaiterPanics(w) ==
    /\ waiter[w] = "woken"
    /\ wg # 0
    /\ panicked' = TRUE
    /\ UNCHANGED <<operations, wg, op, opCancelled, doneAgain, waiter, wait, found>>

WaitDrained(w) ==
    /\ wait[w] = "select"
    /\ waiter[w] = "closed"
    /\ wait' = [wait EXCEPT ![w] = "drained"]
    /\ UNCHANGED <<operations, wg, op, opCancelled, doneAgain, waiter, panicked, found>>

WaitTimesOut(w) ==
    /\ wait[w] = "select"
    /\ wait' = [wait EXCEPT ![w] = "timeout"]
    /\ UNCHANGED <<operations, wg, op, opCancelled, doneAgain, waiter, panicked, found>>

-----------------------------------------------------------------------------
Start(o) == StartRegister(o) \/ StartCount(o)
Done(o)  == DoneRemove(o) \/ DoneCount(o) \/ DoneAgain(o)
Waiter(w) == WaiterSleeps(w) \/ WaiterCloses(w) \/ WaiterPanics(w)

\* A panic in a goroutine ends the process.
Next ==
    /\ ~panicked
    /\ \/ \E o \in Ops : Start(o) \/ Done(o)
       \/ \E w \in Waiters : WaitCall(w) \/ Waiter(w) \/ WaitDrained(w) \/ WaitTimesOut(w)
       \/ CancelAll

Spec == Init /\ [][Next]_trackerVars

\* The waiting side is scheduled, and a Start or a done() that has begun
\* finishes; no deadline is assumed, and no operation has to end.
Fairness ==
    /\ \A o \in Ops : WF_trackerVars(~panicked /\ (StartCount(o) \/ DoneCount(o)))
    /\ \A w \in Waiters : WF_trackerVars(~panicked /\ (Waiter(w) \/ WaitDrained(w)))

FairSpec == Spec /\ Fairness

-----------------------------------------------------------------------------
(***************************************************************************)
(* Properties.                                                             *)
(***************************************************************************)
\* WaitForCompletion returns nil only when every operation that was counted when
\* it was called has called done().
DrainedMeansFinished ==
    \A w \in Waiters : wait[w] = "drained" =>
        \A o \in found[w] : op[o] = "finished"

\* No entry outlives its operation: what the map holds has not called done().
EntriesAreLive ==
    \A i \in IDs : operations[i] # NoOp =>
        op[operations[i]] \in {"registered", "active"}

\* "CancelAll cancels all tracked operations": an operation whose Start returned
\* and that has not called done() can be reached by CancelAll, or its context
\* is cancelled already.
ActiveIsCancellable ==
    \A o \in Ops : op[o] = "active" =>
        operations[IDOf[o]] = o \/ o \in opCancelled

\* Once operations cease to be in flight for good, every WaitForCompletion
\* returns without the help of its deadline: no wake-up is lost.
WaitersAreReleased ==
    <>[](Counted = {} /\ ~panicked) =>
        \A w \in Waiters : wait[w] = "select" ~> wait[w] # "select"
=============================================================================
