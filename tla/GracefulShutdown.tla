--------------------------- MODULE GracefulShutdown ---------------------------
(***************************************************************************)
(* What the shutdown package promises to the code that uses it, without    *)
(* locks, goroutines or a state word: handlers are accepted while the      *)
(* registry is open, then invoked once each in priority order, and done is *)
(* announced when all have been invoked or the timeout has passed.         *)
(***************************************************************************)
EXTENDS Integers

CONSTANTS Handlers, Priority

VARIABLES
    phase,     \* "open", "draining", "closed"
    accepted,  \* the handlers that were registered
    ran,       \* the handlers that have been invoked
    late       \* the timeout has passed

promiseVars == <<phase, accepted, ran, late>>

Init ==
    /\ phase = "open"
    /\ accepted = {}
    /\ ran = {}
    /\ late = FALSE

Waiting == accepted \ ran

Accept(h) ==
    /\ phase = "open"
    /\ accepted' = accepted \cup {h}
    /\ UNCHANGED <<phase, ran, late>>

Drain ==
    /\ phase = "open"
    /\ phase' = "draining"
    /\ UNCHANGED <<accepted, ran, late>>

Invoke(h) ==
    /\ phase = "draining"
    /\ ~late
    /\ h \in Waiting
    /\ \A g \in Waiting : Priority[h] <= Priority[g]
    /\ ran' = ran \cup {h}
    /\ UNCHANGED <<phase, accepted, late>>

TimeOut ==
    /\ phase # "closed"
    /\ late' = TRUE
    /\ UNCHANGED <<phase, accepted, ran>>

Announce ==
    /\ phase = "draining"
    /\ Waiting = {} \/ late
    /\ phase' = "closed"
    /\ UNCHANGED <<accepted, ran, late>>

Next ==
    \/ \E h \in Handlers : Accept(h) \/ Invoke(h)
    \/ Drain
    \/ TimeOut
    \/ Announce

Spec == Init /\ [][Next]_promiseVars
=============================================================================
