-------------------------- MODULE RetryBreakerProofs --------------------------
(***************************************************************************)
(* Theorems about RetryBreaker, for any callers and uses, any threshold    *)
(* and any number of attempts.                                             *)
(***************************************************************************)
EXTENDS RetryBreaker, TLAPS

\* TypeOK in three parts: the breaker's, the callers' and the attempts'.
BreakerTypes == state \in {"closed", "open", "half-open"} /\ failureCount \in 0 .. Threshold
                /\ cooled \in BOOLEAN /\ eased \in BOOLEAN

CallTypes ==
    /\ call \in [Callers -> Purposes] /\ level \in [Callers -> 0..2]
    /\ step \in [Callers -> {"check", "operate", "resolve", "backoff"}]
    /\ out \in [Callers -> Outcomes]
    /\ dockerOps \in [Callers -> Nat] /\ late \in [Callers -> Nat]

AttemptTypes == attempt \in [Callers -> [1..2 -> 0 .. MaxAttempts - 1]]

\* Where a caller is tells how many requests it can have made.  Nested retries have a
\* second level, which has the whole of its attempts for each attempt of the first.
Before(c) == CASE call[c] = "pull"   -> MaxAttempts * MaxAttempts
               [] call[c] = "remove" -> MaxAttempts
               [] OTHER              -> 0

Asked(c) == IF step[c] \in {"resolve", "backoff"} THEN 1 ELSE 0

CountAt(c) ==
    /\ call[c] = "none" => level[c] = 0 /\ dockerOps[c] = 0
    /\ level[c] <= Depth(c)
    /\ level[c] > 0 /\ step[c] = "operate" => level[c] = Depth(c)
    /\ level[c] > 0 /\ step[c] = "backoff" => attempt[c][level[c]] < MaxAttempts - 1
    /\ level[c] = 0 => dockerOps[c] <= MaxOps(c)
    /\ level[c] = 1 /\ call[c] # "check" =>
          dockerOps[c] <= Before(c) + attempt[c][1] + Asked(c)
    /\ level[c] = 1 /\ call[c] = "check" =>
          dockerOps[c] <= (attempt[c][1] + Asked(c)) * MaxAttempts
    /\ level[c] = 2 =>
          dockerOps[c] <= attempt[c][1] * MaxAttempts + attempt[c][2] + Asked(c)

CountInv == \A c \in Callers : CountAt(c)

\* A request that is still to be made was admitted before the breaker opened.
LateInv ==
    state = "open" =>
        \A c \in Callers : late[c] + (IF In(c, "operate") THEN 1 ELSE 0) <= 1

\* The failures that opened the breaker are not forgotten before a success.
OpenInv == state # "closed" /\ ~eased => failureCount = Threshold

IInv == TypeOK /\ CountInv /\ LateInv /\ OpenInv

-----------------------------------------------------------------------------
\* A failure counts one more, up to the threshold.
LEMMA FailureCounts ==
    ASSUME NEW n \in 0 .. Threshold
    PROVE  /\ Min({n + 1, Threshold}) \in 0 .. Threshold
           /\ n + 1 >= Threshold => Min({n + 1, Threshold}) = Threshold
<1>1. Threshold \in Int /\ n \in Int
  BY BreakerAssumption
<1>2. \E x \in {n + 1, Threshold} : \A y \in {n + 1, Threshold} : x <= y
  BY <1>1
<1>3. /\ Min({n + 1, Threshold}) \in {n + 1, Threshold}
      /\ \A y \in {n + 1, Threshold} : Min({n + 1, Threshold}) <= y
  BY <1>2 DEF Min
<1> QED BY <1>1, <1>3, BreakerAssumption

\* The three parts are the type invariant.
LEMMA Types == TypeOK <=> BreakerTypes /\ CallTypes /\ AttemptTypes
  BY DEF TypeOK, BreakerTypes, CallTypes, AttemptTypes

\* Nobody has asked for anything yet.
LEMMA InitInvariant == Init => IInv
<1> SUFFICES ASSUME Init PROVE IInv
  OBVIOUS
<1> USE DEF Init
<1>0. 0 \in 0 .. Threshold /\ 0 \in 0 .. MaxAttempts - 1 /\ MaxAttempts \in Nat \ {0}
  BY BreakerAssumption
<1>1. BreakerTypes /\ CallTypes
  <2>1. BreakerTypes
    BY <1>0 DEF BreakerTypes
  <2>2. CallTypes
    BY 0 \in 0..2 DEF CallTypes, Purposes, Outcomes
  <2> QED BY <2>1, <2>2
<1>2. AttemptTypes
  BY <1>0 DEF AttemptTypes
<1>3. CountInv
  BY <1>0 DEF CountInv, CountAt, Depth, MaxOps
<1>4. LateInv /\ OpenInv
  BY DEF LateInv, OpenInv
<1> QED BY <1>1, <1>2, <1>3, <1>4, Types DEF IInv

-----------------------------------------------------------------------------
(***************************************************************************)
(* Types.                                                                  *)
(***************************************************************************)
\* Every step keeps the types of the breaker's fields, and of its history.
LEMMA StepBreakerTypes == BreakerTypes /\ [Next]_vars => BreakerTypes'
<1> SUFFICES ASSUME BreakerTypes, [Next]_vars PROVE BreakerTypes'
  OBVIOUS
<1> USE DEF BreakerTypes
<1>1. ASSUME NEW c \in Callers, UseDocker(c) PROVE BreakerTypes'
  BY <1>1 DEF UseDocker, Call, Continue, PullImageIfNotExisted, PullImage, Enter,
              GetNetworkIdByName, GetImageIdFromName, RemoveImage, breakerVars
<1>2. ASSUME NEW c \in Callers, Admitted(c) \/ Refused(c) \/ Operate(c) \/ Backoff(c) \/ Retry(c) \/ Cancel(c)
      PROVE  BreakerTypes'
  BY <1>2 DEF Admitted, Admit, Refused, Refuse, Operate, Backoff, Retry, Cancel, breakerVars, history
<1>3. ASSUME NEW c \in Callers, Succeed(c) PROVE BreakerTypes'
  BY <1>3, BreakerAssumption DEF Succeed, RecordSuccess
<1>4. ASSUME NEW c \in Callers, Fail(c) PROVE BreakerTypes'
  BY <1>4, FailureCounts DEF Fail, RecordFailure, NoteOpening
<1>5. CASE Cool \/ UNCHANGED vars
  BY <1>5 DEF Cool, vars, breakerVars, history
<1> QED BY <1>1, <1>2, <1>3, <1>4, <1>5 DEF Next, WithRetry

\* Every step leaves each caller at a level and a step of WithRetry.
LEMMA StepCallTypes == CallTypes /\ CountInv /\ [Next]_vars => CallTypes'
<1> SUFFICES ASSUME CallTypes, CountInv, [Next]_vars PROVE CallTypes'
  OBVIOUS
<1> USE DEF CallTypes
<1>1. ASSUME NEW c \in Callers, NEW purpose \in Purposes, NEW done \in Nat, Enter(c, purpose, done) PROVE CallTypes'
  BY <1>1 DEF Enter
<1>2. ASSUME NEW c \in Callers, UseDocker(c) PROVE CallTypes'
  BY <1>1, <1>2 DEF UseDocker, Call, Continue, PullImageIfNotExisted, PullImage,
                    GetNetworkIdByName, GetImageIdFromName, RemoveImage, Purposes
<1>3. ASSUME NEW c \in Callers, Admitted(c) PROVE CallTypes'
  BY <1>3 DEF Admitted, In, GoTo, Depth, history
<1>4. ASSUME NEW c \in Callers, NEW outcome \in Outcomes, level[c] > 0, Return(c, outcome),
             UNCHANGED dockerOps, late' \in [Callers -> Nat]
      PROVE  CallTypes'
  BY <1>4 DEF Return, GoTo
<1>5. ASSUME NEW c \in Callers, Refused(c) \/ Cancel(c) \/ Succeed(c) \/ Fail(c) PROVE CallTypes'
  BY <1>4, <1>5 DEF Refused, Cancel, Succeed, Fail, In, history, NoteOpening, Outcomes
<1>6. ASSUME NEW c \in Callers, Operate(c) PROVE CallTypes'
  BY <1>6 DEF Operate, GoTo, In, Outcomes
<1>7. ASSUME NEW c \in Callers, Backoff(c) \/ Retry(c) PROVE CallTypes'
  BY <1>7 DEF Backoff, Retry, GoTo, In, history
<1>8. CASE Cool \/ UNCHANGED vars
  BY <1>8 DEF Cool, vars, callVars, history
<1> QED BY <1>2, <1>3, <1>5, <1>6, <1>7, <1>8 DEF Next, WithRetry

\* A retry follows a backoff, and so stays below MaxAttempts.
LEMMA StepAttemptTypes == CallTypes /\ AttemptTypes /\ CountInv /\ [Next]_vars => AttemptTypes'
<1> SUFFICES ASSUME CallTypes, AttemptTypes, CountInv, [Next]_vars PROVE AttemptTypes'
  OBVIOUS
<1>0. MaxAttempts \in Nat \ {0} /\ 0 \in 0 .. MaxAttempts - 1
  BY BreakerAssumption
<1>1. ASSUME NEW c \in Callers, NEW l \in 1..2, NEW n \in 0 .. MaxAttempts - 1, attempt' = [attempt EXCEPT ![c][l] = n]
      PROVE  AttemptTypes'
  BY <1>1 DEF AttemptTypes
<1>2. ASSUME NEW c \in Callers, UseDocker(c) PROVE AttemptTypes'
  <2>1. attempt' = [attempt EXCEPT ![c][1] = 0]
    BY <1>2 DEF UseDocker, Call, Continue, PullImageIfNotExisted, PullImage, Enter,
                GetNetworkIdByName, GetImageIdFromName, RemoveImage
  <2> QED BY <1>0, <1>1, <2>1, 1 \in 1..2
<1>3. ASSUME NEW c \in Callers, Admitted(c) PROVE AttemptTypes'
  <2>1. CASE level[c] < Depth(c)
    <3>1. level[c] + 1 \in 1..2 /\ attempt' = [attempt EXCEPT ![c][level[c] + 1] = 0]
      BY <1>3, <2>1 DEF Depth, Admitted, CallTypes
    <3> QED BY <1>0, <1>1, <3>1
  <2>2. CASE ~(level[c] < Depth(c))
    BY <1>3, <2>2 DEF Admitted, AttemptTypes
  <2> QED BY <2>1, <2>2
<1>4. ASSUME NEW c \in Callers, Retry(c) PROVE AttemptTypes'
  <2>1. level[c] \in 1..2 /\ attempt[c][level[c]] < MaxAttempts - 1
    BY <1>4 DEF Retry, In, CallTypes, CountInv, CountAt
  <2>2. attempt[c][level[c]] + 1 \in 0 .. MaxAttempts - 1
    BY <1>0, <2>1 DEF AttemptTypes
  <2>3. attempt' = [attempt EXCEPT ![c][level[c]] = attempt[c][level[c]] + 1]
    BY <1>4 DEF Retry
  <2> QED BY <1>1, <2>1, <2>2, <2>3
<1>5. ASSUME NEW c \in Callers, Refused(c) \/ Operate(c) \/ Cancel(c) \/ Backoff(c) \/ Succeed(c) \/ Fail(c)
      PROVE  AttemptTypes'
  BY <1>5 DEF Refused, Operate, Cancel, Backoff, Succeed, Fail, Return, AttemptTypes
<1>6. CASE Cool \/ UNCHANGED vars
  BY <1>6 DEF Cool, vars, callVars, AttemptTypes
<1> QED BY <1>2, <1>3, <1>4, <1>5, <1>6 DEF Next, WithRetry

-----------------------------------------------------------------------------
(***************************************************************************)
(* The breaker.                                                            *)
(***************************************************************************)
\* Only a caller that was admitted before the breaker opened makes a request afterwards.
LEMMA StepLate == TypeOK /\ LateInv /\ [Next]_vars => LateInv'
<1> SUFFICES ASSUME TypeOK, LateInv, [Next]_vars PROVE LateInv'
  OBVIOUS
<1> USE DEF LateInv, In
<1>0. CallTypes /\ BreakerTypes
  BY Types
<1> USE DEF CallTypes, GoTo
<1>1. ASSUME NEW c \in Callers, UseDocker(c) PROVE LateInv'
  BY <1>0, <1>1 DEF UseDocker, Call, Continue, PullImageIfNotExisted, PullImage, Enter,
              GetNetworkIdByName, GetImageIdFromName, RemoveImage, breakerVars
<1>2. ASSUME NEW c \in Callers, Admitted(c) PROVE LateInv'
  BY <1>2 DEF Admitted, Admit
<1>3. ASSUME NEW c \in Callers, Operate(c) PROVE LateInv'
  BY <1>0, <1>3 DEF Operate, breakerVars
<1>4. ASSUME NEW c \in Callers, Refused(c) \/ Cancel(c) \/ Backoff(c) \/ Retry(c) PROVE LateInv'
  BY <1>0, <1>4 DEF Refused, Refuse, Cancel, Backoff, Retry, Return, breakerVars, history
<1>5. ASSUME NEW c \in Callers, Succeed(c) PROVE LateInv'
  BY <1>0, <1>5 DEF Succeed, RecordSuccess, Return
<1>6. ASSUME NEW c \in Callers, Fail(c) PROVE LateInv'
  BY <1>0, <1>6 DEF Fail, RecordFailure, Return, NoteOpening
<1>7. CASE Cool \/ UNCHANGED vars
  BY <1>7 DEF Cool, vars, breakerVars, callVars, history
<1> QED BY <1>1, <1>2, <1>3, <1>4, <1>5, <1>6, <1>7 DEF Next, WithRetry

\* Nothing but a success lowers the count of the failures.
LEMMA StepOpen == BreakerTypes /\ OpenInv /\ [Next]_vars => OpenInv'
<1> SUFFICES ASSUME BreakerTypes, OpenInv, [Next]_vars PROVE OpenInv'
  OBVIOUS
<1> USE DEF OpenInv
<1>1. ASSUME NEW c \in Callers, UseDocker(c) PROVE OpenInv'
  BY <1>1 DEF UseDocker, Call, Continue, PullImageIfNotExisted, PullImage, Enter,
              GetNetworkIdByName, GetImageIdFromName, RemoveImage, breakerVars
<1>2. ASSUME NEW c \in Callers, Admitted(c) \/ Refused(c) \/ Operate(c) \/ Backoff(c) \/ Retry(c) \/ Cancel(c)
      PROVE  OpenInv'
  BY <1>2 DEF Admitted, Admit, Refused, Refuse, Operate, Backoff, Retry, Cancel, breakerVars, history
<1>3. ASSUME NEW c \in Callers, Succeed(c) PROVE OpenInv'
  BY <1>3 DEF Succeed
<1>4. ASSUME NEW c \in Callers, Fail(c) PROVE OpenInv'
  <2>1. failureCount \in 0 .. Threshold /\ Threshold \in Nat
    BY BreakerAssumption DEF BreakerTypes
  <2>2. CASE failureCount + 1 >= Threshold
    BY <1>4, <2>1, <2>2, FailureCounts DEF Fail, RecordFailure
  <2>3. CASE ~(failureCount + 1 >= Threshold)
    BY <1>4, <2>1, <2>3 DEF Fail, RecordFailure, NoteOpening
  <2> QED BY <2>2, <2>3
<1>5. CASE Cool \/ UNCHANGED vars
  BY <1>5 DEF Cool, vars, breakerVars, history
<1> QED BY <1>1, <1>2, <1>3, <1>4, <1>5 DEF Next, WithRetry

-----------------------------------------------------------------------------
(***************************************************************************)
(* The requests.                                                           *)
(***************************************************************************)
\* One more attempt at the first level allows the whole of the second.
LEMMA Product ==
    ASSUME NEW a \in 0 .. MaxAttempts - 1
    PROVE  /\ a * MaxAttempts \in Nat /\ MaxAttempts * MaxAttempts \in Nat
           /\ (a + 1) * MaxAttempts = a * MaxAttempts + MaxAttempts
           /\ (a + 1) * MaxAttempts <= MaxAttempts * MaxAttempts
<1>1. MaxAttempts \in Nat /\ a \in Nat /\ a + 1 <= MaxAttempts
  BY BreakerAssumption
<1>2. \A x, y, z \in Nat : x <= y => x * z \in Nat /\ x * z <= y * z /\ (x + 1) * z = x * z + z
  OBVIOUS
<1> QED BY <1>1, <1>2

\* What a caller may have asked for depends on its own progress only.
LEMMA OthersKept ==
    ASSUME NEW q \in Callers, UNCHANGED <<call[q], level[q], step[q], attempt[q], dockerOps[q]>>, CountAt(q)
    PROVE  CountAt(q)'
  BY DEF CountAt, Depth, MaxOps, Before, Asked

\* A call begins with no request, or with those of the one it continues.
LEMMA EnterCount ==
    ASSUME CallTypes, AttemptTypes, NEW c \in Callers, UseDocker(c), CountAt(c)
    PROVE  CountAt(c)'
<1> USE DEF CallTypes, AttemptTypes
<1>0. MaxAttempts \in Nat \ {0} /\ MaxAttempts * MaxAttempts \in Nat
  BY BreakerAssumption
<1>1. /\ level[c] = 0 /\ level'[c] = 1 /\ step'[c] = "check" /\ attempt'[c][1] = 0
      /\ dockerOps'[c] \in Nat
      /\ call'[c] \in {"check", "network", "find"} => dockerOps'[c] = 0
      /\ call'[c] \in {"check", "network", "find", "pull", "remove"}
      /\ call'[c] = "pull" => call[c] = "check" /\ dockerOps'[c] = dockerOps[c]
      /\ call'[c] = "remove" => call[c] = "find" /\ dockerOps'[c] = dockerOps[c]
  BY DEF UseDocker, Call, Continue, PullImageIfNotExisted, PullImage, Enter,
         GetNetworkIdByName, GetImageIdFromName, RemoveImage, Purposes
<1> QED BY <1>0, <1>1 DEF CountAt, Depth, MaxOps, Before, Asked

\* A WithRetry that returns has made no more requests than its attempts allow.
LEMMA ReturnCount ==
    ASSUME CallTypes, AttemptTypes, NEW c \in Callers, NEW outcome, CountAt(c), level[c] > 0,
           Asked(c) = 1 \/ step[c] = "check", UNCHANGED dockerOps, Return(c, outcome)
    PROVE  CountAt(c)'
<1> USE DEF CallTypes, AttemptTypes
<1>0. MaxAttempts \in Nat \ {0} /\ MaxAttempts * MaxAttempts \in Nat
  BY BreakerAssumption
<1>1. /\ level'[c] = level[c] - 1 /\ step'[c] = "resolve" /\ call'[c] = call[c]
      /\ attempt' = attempt /\ dockerOps' = dockerOps
  BY DEF Return, GoTo
<1> DEFINE a == attempt[c][1]
           b == attempt[c][2]
<1>2. a \in 0 .. MaxAttempts - 1 /\ b \in 0 .. MaxAttempts - 1
  BY 1 \in 1..2, 2 \in 1..2
<1>3. /\ a * MaxAttempts \in Nat /\ (a + 1) * MaxAttempts = a * MaxAttempts + MaxAttempts
      /\ (a + 1) * MaxAttempts <= MaxAttempts * MaxAttempts
  BY <1>2, Product
<1>4. dockerOps[c] \in Nat /\ Asked(c) \in 0..1
  BY DEF Asked
<1>5. CASE level[c] = 1
  <2>1. dockerOps[c] <= MaxOps(c)
    BY <1>0, <1>2, <1>3, <1>4, <1>5 DEF CountAt, MaxOps, Before, Asked
  <2> QED BY <1>1, <1>5, <2>1 DEF CountAt, MaxOps, Depth
<1>6. CASE level[c] = 2
  <2>1. call[c] = "check"
    BY <1>6 DEF CountAt, Depth
  <2>2. dockerOps[c] <= (a + 1) * MaxAttempts
    BY <1>0, <1>2, <1>3, <1>4, <1>6 DEF CountAt
  <2> QED BY <1>1, <1>6, <2>1, <2>2 DEF CountAt, Depth, Asked
<1> QED BY <1>5, <1>6

\* An admitted attempt goes one level deeper with fresh attempts, or to its request.
LEMMA AdmittedCount ==
    ASSUME CallTypes, AttemptTypes, NEW c \in Callers, CountAt(c), Admitted(c)
    PROVE  CountAt(c)'
<1> USE DEF CallTypes, AttemptTypes
<1>0. level[c] > 0 /\ step[c] = "check" /\ call'[c] = call[c] /\ dockerOps' = dockerOps
  BY DEF Admitted, In, GoTo, history
<1>1. CASE level[c] < Depth(c)
  <2>1. /\ level[c] = 1 /\ call[c] = "check" /\ level'[c] = 2 /\ step'[c] = "check"
        /\ attempt' = [attempt EXCEPT ![c][2] = 0]
    BY <1>0, <1>1 DEF Admitted, GoTo, Depth
  <2>2. attempt'[c][1] = attempt[c][1] /\ attempt'[c][2] = 0
    BY <2>1, 1 \in 1..2, 2 \in 1..2
  <2>3. attempt[c][1] \in Nat /\ MaxAttempts \in Nat /\ attempt[c][1] * MaxAttempts \in Nat
    BY BreakerAssumption, 1 \in 1..2, Product
  <2>4. dockerOps[c] <= attempt[c][1] * MaxAttempts
    BY <1>0, <2>1, <2>3 DEF CountAt, Asked
  <2> QED BY <1>0, <2>1, <2>2, <2>3, <2>4 DEF CountAt, Depth, Asked
<1>2. CASE ~(level[c] < Depth(c))
  <2>1. level[c] = Depth(c) /\ level'[c] = level[c] /\ step'[c] = "operate" /\ attempt' = attempt
    BY <1>0, <1>2 DEF Admitted, GoTo, CountAt, Depth
  <2> QED BY <1>0, <2>1 DEF CountAt, Depth, Asked, Before
<1> QED BY <1>1, <1>2

\* A request uses up the attempt that was admitted.
LEMMA OperateCount ==
    ASSUME CallTypes, AttemptTypes, NEW c \in Callers, CountAt(c), Operate(c)
    PROVE  CountAt(c)'
<1> USE DEF CallTypes, AttemptTypes
<1>1. /\ level[c] = Depth(c) /\ level'[c] = level[c] /\ step[c] = "operate" /\ step'[c] = "resolve"
      /\ call'[c] = call[c] /\ attempt' = attempt /\ dockerOps'[c] = dockerOps[c] + 1
  BY DEF Operate, In, GoTo, CountAt
<1>2. /\ attempt[c][1] \in Nat /\ attempt[c][2] \in Nat /\ MaxAttempts \in Nat
      /\ attempt[c][1] * MaxAttempts \in Nat /\ MaxAttempts * MaxAttempts \in Nat
  BY BreakerAssumption, 1 \in 1..2, 2 \in 1..2, Product
<1>3. CASE call[c] = "check"
  <2>1. level[c] = 2 /\ dockerOps[c] <= attempt[c][1] * MaxAttempts + attempt[c][2]
    BY <1>1, <1>2, <1>3 DEF Depth, CountAt, Asked
  <2> QED BY <1>1, <1>2, <1>3, <2>1 DEF CountAt, Depth, Asked
<1>4. CASE call[c] # "check"
  <2>1. level[c] = 1 /\ Before(c) \in Nat /\ dockerOps[c] <= Before(c) + attempt[c][1]
    BY <1>1, <1>2, <1>4 DEF Depth, CountAt, Asked, Before
  <2> QED BY <1>1, <1>2, <1>4, <2>1 DEF CountAt, Depth, Asked, Before
<1> QED BY <1>3, <1>4

\* A backoff comes only while attempts are left.
LEMMA BackoffCount ==
    ASSUME CallTypes, AttemptTypes, NEW c \in Callers, CountAt(c), Backoff(c)
    PROVE  CountAt(c)'
<1>1. /\ level[c] > 0 /\ level'[c] = level[c] /\ step[c] = "resolve" /\ step'[c] = "backoff"
      /\ call'[c] = call[c] /\ attempt' = attempt /\ dockerOps' = dockerOps
      /\ attempt[c][level[c]] < MaxAttempts - 1
  BY DEF Backoff, In, GoTo, CallTypes, history
<1> QED BY <1>1 DEF CountAt, Depth, Asked, Before

\* A retry opens the next attempt of its level.
LEMMA RetryCount ==
    ASSUME CallTypes, AttemptTypes, NEW c \in Callers, CountAt(c), Retry(c)
    PROVE  CountAt(c)'
<1> USE DEF CallTypes, AttemptTypes
<1>1. /\ level[c] \in 1..2 /\ level'[c] = level[c] /\ step[c] = "backoff" /\ step'[c] = "check"
      /\ call'[c] = call[c] /\ dockerOps' = dockerOps
      /\ attempt' = [attempt EXCEPT ![c][level[c]] = attempt[c][level[c]] + 1]
  BY DEF Retry, In, GoTo, history
<1> DEFINE a == attempt[c][1]
           b == attempt[c][2]
<1>2. /\ a \in Nat /\ b \in Nat /\ MaxAttempts \in Nat /\ dockerOps[c] \in Nat
      /\ a * MaxAttempts \in Nat /\ (a + 1) * MaxAttempts = a * MaxAttempts + MaxAttempts
  BY BreakerAssumption, 1 \in 1..2, 2 \in 1..2, Product
<1>3. CASE level[c] = 1
  <2>1. attempt'[c][1] = a + 1
    BY <1>1, <1>3, 1 \in 1..2
  <2>2. CASE call[c] = "check"
    <3>1. dockerOps[c] <= (a + 1) * MaxAttempts
      BY <1>1, <1>2, <1>3, <2>2 DEF CountAt, Asked
    <3>2. (attempt[c][1] + Asked(c))' = a + 1
      BY <1>1, <1>2, <2>1 DEF Asked
    <3> QED BY <1>1, <1>3, <2>2, <3>1, <3>2 DEF CountAt, Depth
  <2>3. CASE call[c] # "check"
    <3>1. dockerOps[c] <= Before(c) + a + 1
      BY <1>1, <1>2, <1>3, <2>3 DEF CountAt, Asked
    <3>2. Before(c) \in Nat /\ Before(c)' = Before(c) /\ Asked(c)' = 0
      BY <1>1, <1>2, BreakerAssumption DEF Before, Asked
    <3>3. dockerOps'[c] <= Before(c)' + attempt'[c][1] + Asked(c)'
      BY <1>1, <1>2, <2>1, <3>1, <3>2
    <3> QED BY <1>1, <1>3, <2>3, <3>3 DEF CountAt, Depth
  <2> QED BY <2>2, <2>3
<1>4. CASE level[c] = 2
  <2>1. attempt'[c][1] = a /\ attempt'[c][2] = b + 1
    BY <1>1, <1>4, 1 \in 1..2, 2 \in 1..2
  <2>2. dockerOps[c] <= a * MaxAttempts + b + 1
    BY <1>1, <1>2, <1>4 DEF CountAt, Asked
  <2> QED BY <1>1, <1>2, <1>4, <2>1, <2>2 DEF CountAt, Depth, Asked
<1> QED BY <1>1, <1>3, <1>4

\* Every step keeps the count of every caller.
LEMMA StepCount == CallTypes /\ AttemptTypes /\ CountInv /\ [Next]_vars => CountInv'
<1> SUFFICES ASSUME CallTypes, AttemptTypes, CountInv, [Next]_vars, NEW d \in Callers PROVE CountAt(d)'
  BY DEF CountInv
<1> USE DEF CallTypes, AttemptTypes
<1>0. CountAt(d)
  BY DEF CountInv
<1>1. ASSUME NEW c \in Callers, UseDocker(c) \/ WithRetry(c), c # d PROVE CountAt(d)'
  <2>1. UNCHANGED <<call[d], level[d], step[d], attempt[d], dockerOps[d]>>
    <3>1. CASE UseDocker(c)
      BY <1>1, <3>1 DEF UseDocker, Call, Continue, PullImageIfNotExisted, PullImage, Enter,
              GetNetworkIdByName, GetImageIdFromName, RemoveImage
    <3>2. CASE Admitted(c)
      BY <1>1, <3>2 DEF Admitted, GoTo, history
    <3>3. CASE WithRetry(c) /\ ~Admitted(c)
      BY <1>1, <3>3 DEF WithRetry, Refused, Operate, Succeed, Fail, Backoff, Retry, Cancel, Return, GoTo, history
    <3> QED BY <1>1, <3>1, <3>2, <3>3
  <2> QED BY <1>0, <2>1, OthersKept
<1>2. ASSUME Refused(d) \/ Cancel(d) \/ Succeed(d) \/ Fail(d) PROVE CountAt(d)'
  <2>1. /\ level[d] > 0 /\ UNCHANGED dockerOps /\ \E outcome \in Outcomes : Return(d, outcome)
        /\ Asked(d) = 1 \/ step[d] = "check"
    BY <1>2 DEF Refused, Cancel, Succeed, Fail, In, history, Asked, Outcomes
  <2> QED BY <1>0, <2>1, ReturnCount
<1>3. ASSUME UseDocker(d) \/ WithRetry(d) PROVE CountAt(d)'
  BY <1>0, <1>2, <1>3, EnterCount, AdmittedCount, OperateCount, BackoffCount, RetryCount DEF WithRetry
<1>4. CASE Cool \/ UNCHANGED vars
  BY <1>0, <1>4, OthersKept DEF Cool, vars, callVars, history
<1> QED BY <1>1, <1>3, <1>4 DEF Next

-----------------------------------------------------------------------------
\* The inductive invariant of the breaker and its callers.
THEOREM BreakerInvariant == Spec => []IInv
<1>1. IInv /\ [Next]_vars => IInv'
  <2> SUFFICES ASSUME IInv, [Next]_vars PROVE IInv'
    OBVIOUS
  <2>1. BreakerTypes /\ CallTypes /\ AttemptTypes
    BY Types DEF IInv
  <2>2. BreakerTypes' /\ CallTypes' /\ AttemptTypes'
    BY <2>1, StepBreakerTypes, StepCallTypes, StepAttemptTypes DEF IInv
  <2>3. TypeOK'
    BY <2>2 DEF TypeOK, BreakerTypes, CallTypes, AttemptTypes
  <2>4. CountInv' /\ LateInv' /\ OpenInv'
    BY <2>1, StepCount, StepLate, StepOpen DEF IInv
  <2> QED BY <2>3, <2>4 DEF IInv
<1> QED BY <1>1, InitInvariant, PTL DEF Spec

\* Types, for any number of callers, any threshold and any number of attempts.
THEOREM TypeCorrect == Spec => []TypeOK
<1>1. IInv => TypeOK
  BY DEF IInv
<1> QED BY <1>1, BreakerInvariant, PTL

\* CanAttempt: an open breaker lets through only what was admitted before it opened, one
\* request a goroutine.
THEOREM NoRetryStorm == Spec => []OneLateRequest
<1>1. IInv => OneLateRequest
  <2> SUFFICES ASSUME IInv, state = "open", NEW c \in Callers PROVE late[c] <= 1
    BY DEF OneLateRequest
  <2>1. late[c] \in Nat /\ late[c] + (IF In(c, "operate") THEN 1 ELSE 0) <= 1
    BY Types DEF IInv, LateInv, CallTypes
  <2> QED BY <2>1
<1> QED BY <1>1, BreakerInvariant, PTL

\* WithRetry: nested and consecutive calls stay within the product and the sum of their
\* attempts.
THEOREM CallsGiveUp == Spec => []RequestsAreBounded
<1>1. IInv => RequestsAreBounded
  <2> SUFFICES ASSUME IInv, NEW c \in Callers PROVE dockerOps[c] <= MaxOps(c)
    BY DEF RequestsAreBounded
  <2>0. CountAt(c) /\ CallTypes /\ AttemptTypes
    BY Types DEF IInv, CountInv
  <2> DEFINE a == attempt[c][1]
             b == attempt[c][2]
  <2>1. /\ a \in 0 .. MaxAttempts - 1 /\ b \in 0 .. MaxAttempts - 1 /\ MaxAttempts \in Nat \ {0}
        /\ Asked(c) \in 0..1 /\ dockerOps[c] \in Nat /\ level[c] \in 0..2 /\ call[c] \in Purposes
    BY <2>0, BreakerAssumption, 1 \in 1..2, 2 \in 1..2 DEF Asked, CallTypes, AttemptTypes
  <2>2. /\ a * MaxAttempts \in Nat /\ MaxAttempts * MaxAttempts \in Nat
        /\ (a + 1) * MaxAttempts = a * MaxAttempts + MaxAttempts
        /\ (a + 1) * MaxAttempts <= MaxAttempts * MaxAttempts
    BY <2>1, Product
  <2>3. CASE level[c] = 0
    BY <2>0, <2>3 DEF CountAt
  <2>4. CASE level[c] = 1 /\ call[c] # "check"
    BY <2>0, <2>1, <2>2, <2>4 DEF CountAt, MaxOps, Before, Purposes
  <2>5. CASE level[c] = 1 /\ call[c] = "check"
    <3>1. Asked(c) = 0 \/ Asked(c) = 1
      BY <2>1
    <3>2. dockerOps[c] <= (a + 1) * MaxAttempts
      BY <2>0, <2>1, <2>2, <2>5, <3>1 DEF CountAt
    <3> QED BY <2>1, <2>2, <2>5, <3>2 DEF MaxOps
  <2>6. CASE level[c] = 2
    <3>1. call[c] = "check" /\ dockerOps[c] <= a * MaxAttempts + b + Asked(c)
      BY <2>0, <2>6 DEF CountAt, Depth
    <3> QED BY <2>1, <2>2, <3>1 DEF MaxOps
  <2> QED BY <2>1, <2>3, <2>4, <2>5, <2>6
<1> QED BY <1>1, BreakerInvariant, PTL

\* RecordFailure: a failed probe reopens the breaker, as the failures that opened it are
\* still counted.
THEOREM ProbeReopens == Spec => FailedProbeReopens
<1>1. ASSUME IInv, NEW c \in Callers, Fail(c), state = "half-open", ~eased PROVE state' = "open"
  <2>1. failureCount = Threshold /\ Threshold \in Nat
    BY <1>1, BreakerAssumption DEF IInv, OpenInv
  <2> QED BY <1>1, <2>1 DEF Fail, RecordFailure
<1>2. IInv /\ [Next]_vars =>
         [(\E c \in Callers : Fail(c)) /\ state = "half-open" /\ ~eased => state' = "open"]_vars
  BY <1>1
<1> QED BY <1>2, BreakerInvariant, PTL DEF Spec, FailedProbeReopens
=============================================================================
