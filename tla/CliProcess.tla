----------------------------- MODULE CliProcess ------------------------------
(***************************************************************************)
(* cmd/ctl/root.go: a stamusctl process, whose main goroutine runs one     *)
(* command of StamusStore while another goroutine handles signals.  That   *)
(* goroutine runs the whole shutdown itself, so the signals that arrive    *)
(* meanwhile wait; and nothing ends the command but its own end, the       *)
(* runner's refusal of further compose commands, or a forced quit.         *)
(***************************************************************************)
EXTENDS StamusStore, Sequences

CONSTANTS Signalled,   \* the processes whose user sends signals
          MaxSignals   \* bound on the signals sent to one process

ASSUME CliAssumption == Signalled \subseteq Procs /\ MaxSignals \in Nat

SIGINT  == "SIGINT"
SIGTERM == "SIGTERM"

VARIABLES
    cli,  \* of each process: the signal goroutine and what it has set
    cut   \* history: what the user had done when signals cut a write of config.json short

cliVars == <<storeVars, cli, cut>>

\* shutdown.Init and setupCLISignalHandler.  For the bound and the properties, sent
\* counts the signals, ints the SIGINTs taken, and row those taken in a row, each
\* less than 2 s after the one before.
Started == [sigChan |-> <<>>, triggering |-> FALSE, shutting |-> FALSE,
            interruptCount |-> 0, interrupted |-> FALSE, sent |-> 0, ints |-> 0, row |-> 0]

Handlers == [sigChan : Seq({SIGINT, SIGTERM}), triggering : BOOLEAN, shutting : BOOLEAN,
             interruptCount : Nat, interrupted : BOOLEAN, sent : 0 .. MaxSignals,
             ints : Nat, row : Nat]

CliTypeOK ==
    /\ TypeOK
    /\ cli \in [Procs -> Handlers]
    /\ cut \subseteq {"insisted", "unasked"}

CliInit ==
    /\ Init
    /\ cli = [p \in Procs |-> Started]
    /\ cut = {}

-----------------------------------------------------------------------------
Running(p) == pc[p] # "idle"

\* signal.Notify drops a signal when the channel is full.
SignalArrives(p, sig) ==
    /\ Running(p) /\ cli[p].sent < MaxSignals
    /\ cli' = [cli EXCEPT ![p].sent = @ + 1,
                          ![p].sigChan = IF Len(@) < 2 THEN Append(@, sig) ELSE @]
    /\ UNCHANGED <<storeVars, cut>>

\* soon: less than 2 s since the signal before, of either kind, was taken.
Count(p, soon) == IF soon THEN cli[p].interruptCount + 1 ELSE 0

\* Mutant: the time between the signals is not looked at.
ForcesQuitAnytime(p, sig, soon) == sig = SIGINT /\ cli[p].interrupted

ForcesQuit(p, sig, soon) == sig = SIGINT /\ Count(p, soon) >= 2

\* The SIGINTs in a row, with one more signal.
Row(p, sig, soon) == IF sig = SIGTERM THEN 0 ELSE IF soon THEN cli[p].row + 1 ELSE 1

\* The loop takes a signal; it begins the shutdown unless one is under way.
TakeSignal(p, soon) ==
    /\ Running(p) /\ ~cli[p].triggering
    /\ cli[p].sigChan # <<>>
    /\ soon => cli[p].interrupted
    /\ LET sig == Head(cli[p].sigChan) IN
          /\ ~ForcesQuit(p, sig, soon)
          /\ cli' = [cli EXCEPT ![p].sigChan = Tail(@),
                                ![p].interrupted = TRUE,
                                ![p].interruptCount = IF sig = SIGINT THEN Count(p, soon) ELSE @,
                                ![p].ints = IF sig = SIGINT THEN @ + 1 ELSE @,
                                ![p].row = Row(p, sig, soon),
                                ![p].triggering = ~cli[p].shutting,
                                ![p].shutting = TRUE]
    /\ UNCHANGED <<storeVars, cut>>

\* os.Exit, wherever the command is.  The user has insisted with a SIGINT that is not
\* the first one and comes less than 2 s after another signal.
ForceQuit(p, soon) ==
    /\ Running(p) /\ ~cli[p].triggering
    /\ cli[p].sigChan # <<>>
    /\ soon => cli[p].interrupted
    /\ ForcesQuit(p, Head(cli[p].sigChan), soon)
    /\ Stop(p)
    /\ cut' = IF ~Writing(p) THEN cut
              ELSE cut \cup {IF soon /\ cli[p].ints > 0 THEN "insisted" ELSE "unasked"}
    /\ cli' = [cli EXCEPT ![p] = Started]

\* TriggerShutdown waits for the compose command in flight, or its timeout.
ShutdownDone(p) ==
    /\ cli[p].triggering
    /\ cli' = [cli EXCEPT ![p].triggering = FALSE]
    /\ UNCHANGED <<storeVars, cut>>

\* The runner refuses a compose command once the shutdown has begun, and the
\* command that wanted it ends with its error.
DownRefused(p) ==
    /\ pc[p] = "down" /\ cli[p].shutting
    /\ Return(p)
    /\ cli' = [cli EXCEPT ![p] = Started]
    /\ UNCHANGED <<file, folders, due, hurt, stray, cut>>

\* The main goroutine goes on; at the end of the command the process exits.
CommandStep(p) ==
    /\ cli[p].shutting => ~(pc[p] = "down")
    /\ Command(p) \/ Stop(p)
    /\ cli' = IF pc'[p] = "idle" THEN [cli EXCEPT ![p] = Started] ELSE cli
    /\ UNCHANGED cut

CliNext ==
    \/ \E p \in Procs : CommandStep(p)
    \/ \E p \in Signalled :
          \/ \E sig \in {SIGINT, SIGTERM} : SignalArrives(p, sig)
          \/ \E soon \in BOOLEAN : TakeSignal(p, soon) \/ ForceQuit(p, soon)
          \/ ShutdownDone(p) \/ DownRefused(p)

CliSpec == CliInit /\ [][CliNext]_cliVars

-----------------------------------------------------------------------------
\* Signals end a process in the middle of a write of config.json only when the user
\* insists: one Ctrl-C, any SIGTERMs, and Ctrl-Cs that are 2 s apart let it finish, in
\* every interleaving of signals and writes.
InterruptsLetWritesFinish == "unasked" \notin cut

\* "First SIGINT begins graceful shutdown, second SIGINT within 2 seconds forces exit":
\* a process that has taken the second does not go on (cmd/ctl/root.go).
SecondInterruptForces == \A p \in Procs : Running(p) => cli[p].row < 2
=============================================================================
