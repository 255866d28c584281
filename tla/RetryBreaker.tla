----------------------------- MODULE RetryBreaker -----------------------------
(***************************************************************************)
(* internal/docker/retry.go: the circuit breaker every Docker call of the  *)
(* process shares, and WithRetry, which asks it before each attempt and    *)
(* tells it the outcome.  The lock is taken per call, so between the       *)
(* admission of an attempt and the record of its outcome other goroutines  *)
(* move the breaker.                                                       *)
(*                                                                         *)
(* PullImageIfNotExisted nests WithRetry: it retries a check that retries  *)
(* itself (images.go), so that level 1 has an operation that is WithRetry  *)
(* at level 2; then it may pull.  GetNetworkIdByName makes one request,    *)
(* DeleteDockerImageByName two in turn.  Errors are abstracted to what     *)
(* isTransientError tells apart.  failureCount is capped at the threshold: *)
(* beyond it only the comparison is ever used.                             *)
(***************************************************************************)
EXTENDS Integers, FiniteSetsExt

CONSTANTS Callers,      \* goroutines that use the Docker client
          Uses,         \* what each of them calls: "check", "network", "find"
          Threshold,    \* CircuitBreaker.threshold
          MaxAttempts   \* RetryConfig.MaxAttempts

ASSUME BreakerAssumption ==
    /\ Uses \in [Callers -> SUBSET {"check", "network", "find"}]
    /\ Threshold \in Nat \ {0}
    /\ MaxAttempts \in Nat \ {0}

VARIABLES
    state,         \* CircuitBreaker.state
    failureCount,  \* CircuitBreaker.failureCount
    cooled,        \* more than timeout has passed since lastFailureTime
    call,          \* the last WithRetry a caller entered from outside, by its purpose
    level,         \* the WithRetry a caller is in; 0 is outside
    step,          \* where in it: "check", "operate", "resolve", "backoff"
    attempt,       \* the loop variable of each level
    out,           \* outcome of the last operation
    dockerOps,     \* history: Docker requests made by the current call
    late,          \* history: those made since the breaker opened
    eased          \* history: a success was recorded since it opened

breakerVars == <<state, failureCount, cooled>>
callVars    == <<call, level, step, attempt, out>>
history     == <<dockerOps, late, eased>>
vars        == <<breakerVars, callVars, history>>

\* "refused": the error of an open breaker, which isTransientError does not
\* recognise; "cancelled": the context ended during a backoff.
Outcomes == {"ok", "transient", "fatal", "refused", "cancelled"}

Purposes == {"none", "check", "pull", "network", "find", "remove"}
Depth(c) == IF call[c] = "check" THEN 2 ELSE 1

\* The attempts of all the requests that the current call may make.
MaxOps(c) ==
    CASE call[c] = "check"  -> MaxAttempts * MaxAttempts
      [] call[c] = "pull"   -> MaxAttempts * MaxAttempts + MaxAttempts
      [] call[c] = "remove" -> MaxAttempts + MaxAttempts
      [] OTHER              -> MaxAttempts

TypeOK ==
    /\ state \in {"closed", "open", "half-open"}
    /\ failureCount \in 0..Threshold
    /\ cooled \in BOOLEAN
    /\ call \in [Callers -> Purposes]
    /\ level \in [Callers -> 0..2]
    /\ step \in [Callers -> {"check", "operate", "resolve", "backoff"}]
    /\ attempt \in [Callers -> [1..2 -> 0 .. MaxAttempts - 1]]
    /\ out \in [Callers -> Outcomes]
    /\ dockerOps \in [Callers -> Nat]
    /\ late \in [Callers -> Nat]
    /\ eased \in BOOLEAN

Init ==
    /\ state = "closed"
    /\ failureCount = 0
    /\ cooled = TRUE
    /\ call = [c \in Callers |-> "none"]
    /\ level = [c \in Callers |-> 0]
    /\ step = [c \in Callers |-> "check"]
    /\ attempt = [c \in Callers |-> [l \in 1..2 |-> 0]]
    /\ out = [c \in Callers |-> "ok"]
    /\ dockerOps = [c \in Callers |-> 0]
    /\ late = [c \in Callers |-> 0]
    /\ eased = FALSE

-----------------------------------------------------------------------------
(***************************************************************************)
(* The breaker.                                                            *)
(***************************************************************************)
\* Mutant: a successful probe does not close the breaker.
RecordSuccessStays ==
    /\ failureCount' = 0
    /\ UNCHANGED <<state, cooled>>

RecordSuccess ==
    /\ failureCount' = 0
    /\ state' = IF state = "half-open" THEN "closed" ELSE state
    /\ UNCHANGED cooled

RecordFailure ==
    /\ failureCount' = Min({failureCount + 1, Threshold})
    /\ cooled' = FALSE
    /\ state' = IF failureCount + 1 >= Threshold THEN "open" ELSE state

\* Mutant: the failures are forgotten when the breaker half-opens.
AdmitForgets ==
    /\ state = "open" => cooled
    /\ state' = IF state = "open" THEN "half-open" ELSE state
    /\ failureCount' = IF state = "open" THEN 0 ELSE failureCount
    /\ UNCHANGED cooled

\* CanAttempt returns nil; an open breaker whose timeout has passed moves on.
Admit ==
    /\ state = "open" => cooled
    /\ state' = IF state = "open" THEN "half-open" ELSE state
    /\ UNCHANGED <<failureCount, cooled>>

Refuse ==
    /\ state = "open" /\ ~cooled
    /\ UNCHANGED breakerVars

-----------------------------------------------------------------------------
(***************************************************************************)
(* WithRetry at the level a caller is in.                                  *)
(***************************************************************************)
In(c, s) == level[c] > 0 /\ step[c] = s

GoTo(c, l, s) ==
    /\ level' = [level EXCEPT ![c] = l]
    /\ step' = [step EXCEPT ![c] = s]
    /\ UNCHANGED call

\* WithRetry returns the outcome to the level outside it.
Return(c, outcome) ==
    /\ GoTo(c, level[c] - 1, "resolve")
    /\ out' = [out EXCEPT ![c] = outcome]
    /\ UNCHANGED attempt

\* The histories start afresh when the breaker opens.
NoteOpening ==
    IF state # "open" /\ state' = "open"
    THEN late' = [c \in Callers |-> 0] /\ eased' = FALSE
    ELSE UNCHANGED <<late, eased>>

Enter(c, purpose, done) ==
    /\ level[c] = 0
    /\ call' = [call EXCEPT ![c] = purpose]
    /\ level' = [level EXCEPT ![c] = 1]
    /\ step' = [step EXCEPT ![c] = "check"]
    /\ attempt' = [attempt EXCEPT ![c][1] = 0]
    /\ dockerOps' = [dockerOps EXCEPT ![c] = done]
    /\ UNCHANGED <<breakerVars, out, late, eased>>

Call(c, purpose) == purpose \in Uses[c] /\ Enter(c, purpose, 0)

\* An error ends the call; so may the answer of the first request.
Continue(c, from, to) == call[c] = from /\ out[c] = "ok" /\ Enter(c, to, dockerOps[c])

PullImageIfNotExisted(c) == Call(c, "check")
PullImage(c)             == Continue(c, "check", "pull")
GetNetworkIdByName(c)    == Call(c, "network")
GetImageIdFromName(c)    == Call(c, "find")
RemoveImage(c)           == Continue(c, "find", "remove")

Admitted(c) ==
    /\ In(c, "check")
    /\ Admit
    /\ IF level[c] < Depth(c)
       THEN /\ GoTo(c, level[c] + 1, "check")
            /\ attempt' = [attempt EXCEPT ![c][level[c] + 1] = 0]
       ELSE /\ GoTo(c, level[c], "operate")
            /\ UNCHANGED attempt
    /\ UNCHANGED <<out, history>>

Refused(c) ==
    /\ In(c, "check")
    /\ Refuse
    /\ Return(c, "refused")
    /\ UNCHANGED history

\* The Docker request itself, at the innermost level.
Operate(c) ==
    /\ In(c, "operate")
    /\ \E outcome \in {"ok", "transient", "fatal"} :
          out' = [out EXCEPT ![c] = outcome]
    /\ GoTo(c, level[c], "resolve")
    /\ dockerOps' = [dockerOps EXCEPT ![c] = @ + 1]
    /\ late' = IF state = "open" THEN [late EXCEPT ![c] = @ + 1] ELSE late
    /\ UNCHANGED <<breakerVars, attempt, eased>>

Succeed(c) ==
    /\ In(c, "resolve")
    /\ out[c] = "ok"
    /\ RecordSuccess
    /\ Return(c, "ok")
    /\ eased' = TRUE
    /\ UNCHANGED <<dockerOps, late>>

\* A non-transient error, or the last attempt; the error keeps its kind.
Fail(c) ==
    /\ In(c, "resolve")
    /\ \/ out[c] \in {"fatal", "refused", "cancelled"}
       \/ out[c] = "transient" /\ attempt[c][level[c]] = MaxAttempts - 1
    /\ RecordFailure
    /\ Return(c, out[c])
    /\ NoteOpening
    /\ UNCHANGED dockerOps

\* Mutant: one attempt too many.
BackoffLast(c) ==
    /\ In(c, "resolve")
    /\ out[c] = "transient"
    /\ attempt[c][level[c]] <= MaxAttempts - 1
    /\ GoTo(c, level[c], "backoff")
    /\ UNCHANGED <<breakerVars, attempt, out, history>>

Backoff(c) ==
    /\ In(c, "resolve")
    /\ out[c] = "transient"
    /\ attempt[c][level[c]] < MaxAttempts - 1
    /\ GoTo(c, level[c], "backoff")
    /\ UNCHANGED <<breakerVars, attempt, out, history>>

\* Mutant: the attempts are not counted.
RetryUncounted(c) ==
    /\ In(c, "backoff")
    /\ GoTo(c, level[c], "check")
    /\ UNCHANGED <<breakerVars, attempt, out, history>>

\* Mutant: the breaker is asked before the first attempt only.
RetryUnchecked(c) ==
    /\ In(c, "backoff")
    /\ attempt' = [attempt EXCEPT ![c][level[c]] = @ + 1]
    /\ GoTo(c, level[c], IF level[c] = Depth(c) THEN "operate" ELSE "check")
    /\ UNCHANGED <<breakerVars, out, history>>

Retry(c) ==
    /\ In(c, "backoff")
    /\ attempt' = [attempt EXCEPT ![c][level[c]] = @ + 1]
    /\ GoTo(c, level[c], "check")
    /\ UNCHANGED <<breakerVars, out, history>>

\* Nothing is recorded when the context ends the backoff.
Cancel(c) ==
    /\ In(c, "backoff")
    /\ Return(c, "cancelled")
    /\ UNCHANGED <<breakerVars, history>>

Cool ==
    /\ ~cooled
    /\ cooled' = TRUE
    /\ UNCHANGED <<state, failureCount, callVars, history>>

-----------------------------------------------------------------------------
WithRetry(c) ==
    \/ Admitted(c) \/ Refused(c) \/ Operate(c) \/ Succeed(c) \/ Fail(c)
    \/ Backoff(c) \/ Retry(c) \/ Cancel(c)

UseDocker(c) ==
    \/ PullImageIfNotExisted(c) \/ PullImage(c)
    \/ GetNetworkIdByName(c)
    \/ GetImageIdFromName(c) \/ RemoveImage(c)

Next ==
    \/ \E c \in Callers : UseDocker(c) \/ WithRetry(c)
    \/ Cool

Spec == Init /\ [][Next]_vars

\* Goroutines are scheduled, time passes, and somebody keeps using Docker.
Fairness ==
    /\ WF_vars(Cool)
    /\ \A c \in Callers : WF_vars(UseDocker(c) \/ WithRetry(c))

FairSpec == Spec /\ Fairness

-----------------------------------------------------------------------------
(***************************************************************************)
(* Properties.                                                             *)
(***************************************************************************)
\* "preventing retry storm": once the breaker has opened, each goroutine sends
\* one more Docker request at most, the one it was admitted for before, however
\* many attempts and calls it has left, until the timeout lets a probe through.
OneLateRequest ==
    state = "open" => \A c \in Callers : late[c] <= 1

\* A call gives up after the attempts that its nesting and its second request allow,
\* whatever the breaker and the other callers do meanwhile.
RequestsAreBounded ==
    \A c \in Callers : dockerOps[c] <= MaxOps(c)

\* A probe that fails reopens the breaker: a failure recorded while half-open
\* never leaves it admitting everybody, unless a success admitted before the
\* opening came in since and cleared the failures.
FailedProbeReopens ==
    [][ (\E c \in Callers : Fail(c)) /\ state = "half-open" /\ ~eased
          => state' = "open" ]_vars

\* When every Docker request succeeds from some time on, the breaker ends up
\* closed for good: neither a refused goroutine nor a late failure can keep it
\* open or half-open.
BreakerRecovers ==
    <>[](\A c \in Callers : In(c, "resolve") => out[c] \in {"ok", "refused"})
        => <>[](state = "closed")
=============================================================================
