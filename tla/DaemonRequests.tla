--------------------------- MODULE DaemonRequests ----------------------------
(***************************************************************************)
(* cmd/daemon/run: the REST API.  Every request has a goroutine of its own *)
(* and nothing serializes those that work on the same configuration:       *)
(* setting and reading values.yaml, `docker compose up` and `down` on the  *)
(* rendered files, and the restart of single containers, each of which has *)
(* a goroutine as well.  The daemon may be killed; what is on disk and what *)
(* runs in Docker stays.  A request that is refused (token, rate, names)   *)
(* reaches none of this and is not modelled.                               *)
(***************************************************************************)
EXTENDS FiniteSets, Naturals

CONSTANTS Requests,
          Keys, Values,
          Containers,
          Defaults,    \* what values.yaml holds at first
          MaxRequests, \* that are sent
          Nil, NoFile, Empty

Config == [Keys -> Values \cup {Nil}]

ASSUME RequestsAssumption ==
    /\ Nil \notin Values /\ Defaults \in Config /\ MaxRequests \in Nat
    /\ {NoFile, Empty} \cap Config = {}

VARIABLES
    file,      \* values.yaml: NoFile, Empty or what it holds
    rendered,  \* the values the compose files were rendered with
    stack,     \* those of the running services, or Nil when they are down
    req,       \* what each goroutine of a request is doing
    restart,   \* for each request its containers: "no", "running", "done" or "failed"
    sent,      \* requests so far
    kept,      \* history: key -> the value last set by an answered request, or Nil
    raced,     \* history: keys that overlapping or unanswered requests have set
    alone,     \* history: the requests that no other change has overlapped
    cut        \* history: a request failed or was killed while values.yaml was empty

vars == <<file, rendered, stack, req, restart, sent, kept, raced, alone, cut>>
disk == <<file, rendered>>
history == <<kept, raced, alone, cut>>

NoRequest == [kind |-> "none", step |-> "idle", key |-> Nil, value |-> Nil, apply |-> FALSE,
              conf |-> Nil, base |-> Nil]

Request(kind, step) == [NoRequest EXCEPT !.kind = kind, !.step = step]
SetRequest(k, v, apply) == [Request("set", "load") EXCEPT !.key = k, !.value = v, !.apply = apply]

Init ==
    /\ file = Defaults /\ rendered = Defaults /\ stack = Nil
    /\ req = [r \in Requests |-> NoRequest]
    /\ restart = [r \in Requests |-> [c \in Containers |-> "no"]]
    /\ sent = 0
    /\ kept = [k \in Keys |-> Nil] /\ raced = {} /\ alone = Requests /\ cut = FALSE

At(r, step)  == req[r].step = step
Goto(r, step) == req' = [req EXCEPT ![r].step = step]
Override(f, g) == [k \in Keys |-> IF g[k] # Nil THEN g[k] ELSE f[k]]

Changes == {"set", "up", "down", "restart"}
Setting(r) == req[r].kind = "set" /\ ~At(r, "idle")

-----------------------------------------------------------------------------
\* Requests that change something and are there at the same time are not alone.
Overlap(r, kind) ==
    LET others == {s \in Requests : req[s].kind \in Changes}
    IN  alone' = IF kind \in Changes /\ others # {} THEN alone \ (others \cup {r}) ELSE alone

Receive(r, kind, step) ==
    /\ At(r, "idle") /\ sent < MaxRequests
    /\ sent' = sent + 1
    /\ req' = [req EXCEPT ![r] = Request(kind, step)]
    /\ Overlap(r, kind)
    /\ UNCHANGED <<disk, stack, restart, kept, raced, cut>>

getHandler(r)               == Receive(r, "get", "load")
upHandler(r)                == Receive(r, "up", "up")
downHandler(r)              == Receive(r, "down", "down")
restartConfigHandler(r)     == Receive(r, "restart", "down")
restartContainersHandler(r) == Receive(r, "containers", "spawn")

setHandler(r) ==
    /\ At(r, "idle") /\ sent < MaxRequests
    /\ sent' = sent + 1
    /\ \E k \in Keys, v \in Values, apply \in BOOLEAN :
          /\ req' = [req EXCEPT ![r] = SetRequest(k, v, apply)]
          /\ raced' = raced \cup (IF \E s \in Requests : Setting(s) THEN {k} ELSE {})
                            \cup {req[s].key : s \in {t \in Requests : Setting(t)}}
    /\ Overlap(r, "set")
    /\ UNCHANGED <<disk, stack, restart, kept, cut>>

End(r) ==
    /\ req' = [req EXCEPT ![r] = NoRequest]
    /\ alone' = alone \cup {r}

Interrupted(r) == At(r, "open") \/ At(r, "write")

\* Reading values.yaml, rendering, Docker: any of them may fail, which is answered
\* by 500.
Fail(r) ==
    /\ req[r].step \in {"load", "render", "truncate", "open", "write", "up", "compose", "down"}
    /\ End(r)
    /\ cut' = (cut \/ Interrupted(r))
    /\ raced' = raced \cup IF Setting(r) THEN {req[r].key} ELSE {}
    /\ UNCHANGED <<disk, stack, restart, sent, kept>>

\* 200.
Answer(r) ==
    /\ At(r, "answer")
    /\ End(r)
    /\ UNCHANGED <<disk, stack, restart, sent, kept, raced, cut>>

-----------------------------------------------------------------------------
(***************************************************************************)
(* SetHandler and GetGroupedConfig.                                        *)
(***************************************************************************)
\* Mutant: the values of the template, with the one that is set.
NewValuesDefault(r) == [Defaults EXCEPT ![req[r].key] = req[r].value]

NewValues(r) == [file EXCEPT ![req[r].key] = req[r].value]

Read(r, kind) == At(r, "load") /\ req[r].kind = kind /\ file \notin {NoFile, Empty}

Load(r) ==
    /\ Read(r, "set")
    /\ req' = [req EXCEPT ![r].step = "render", ![r].conf = NewValues(r)]
    /\ UNCHANGED <<disk, stack, restart, sent, history>>

GetGroupedConfig(r) ==
    /\ Read(r, "get")
    /\ Goto(r, "answer")
    /\ UNCHANGED <<disk, stack, restart, sent, history>>

Render(r) ==
    /\ At(r, "render")
    /\ rendered' = req[r].conf
    /\ Goto(r, "truncate")
    /\ UNCHANGED <<file, stack, restart, sent, history>>

\* saveParamsTo removes the file, creates it ...
Truncate(r) ==
    /\ At(r, "truncate")
    /\ file' = Empty
    /\ Goto(r, "open")
    /\ UNCHANGED <<rendered, stack, restart, sent, history>>

\* ... reads what is in it by then ...
Open(r) ==
    /\ At(r, "open") /\ file # NoFile
    /\ req' = [req EXCEPT ![r].step = "write",
                          ![r].base = IF file = Empty THEN [k \in Keys |-> Nil] ELSE file]
    /\ UNCHANGED <<disk, stack, restart, sent, history>>

\* ... and writes that, overridden by its own values.
Write(r) ==
    /\ At(r, "write")
    /\ file' = Override(req[r].base, req[r].conf)
    /\ req' = [req EXCEPT ![r].step = "clean", ![r].base = Nil]
    /\ kept' = [kept EXCEPT ![req[r].key] = req[r].value]
    /\ raced' = IF r \in alone THEN raced \ {req[r].key} ELSE raced
    /\ UNCHANGED <<rendered, stack, restart, sent, alone, cut>>

deleteEmptyFiles(f) == IF f = Empty THEN NoFile ELSE f

\* Clean walks the whole folder, values.yaml included.
Clean(r) ==
    /\ At(r, "clean")
    /\ file' = deleteEmptyFiles(file)
    /\ Goto(r, IF req[r].apply THEN "up" ELSE "answer")
    /\ UNCHANGED <<rendered, stack, restart, sent, history>>

-----------------------------------------------------------------------------
(***************************************************************************)
(* HandleUp, HandleDown, HandleConfigRestart: docker compose reads the     *)
(* rendered files and then works on the containers.                        *)
(***************************************************************************)
\* GetConfigsFolder puts the folder of all configurations in front of a name.
\* HandleUp does; setHandler has done it before, and names a folder that is not there.
ComposeFileFound(r) == req[r].kind # "set"

Up(r) ==
    /\ At(r, "up") /\ ComposeFileFound(r)
    /\ req' = [req EXCEPT ![r].step = "compose", ![r].conf = rendered]
    /\ UNCHANGED <<disk, stack, restart, sent, history>>

\* Mutant: services that run are left as they are.
ComposeUpWhenDown(r) ==
    /\ At(r, "compose")
    /\ stack' = IF stack = Nil THEN req[r].conf ELSE stack
    /\ Goto(r, "answer")
    /\ UNCHANGED <<disk, restart, sent, history>>

ComposeUp(r) ==
    /\ At(r, "compose")
    /\ stack' = req[r].conf
    /\ Goto(r, "answer")
    /\ UNCHANGED <<disk, restart, sent, history>>

ComposeDown(r) ==
    /\ At(r, "down")
    /\ stack' = Nil
    /\ Goto(r, IF req[r].kind = "restart" THEN "up" ELSE "answer")
    /\ UNCHANGED <<disk, restart, sent, history>>

-----------------------------------------------------------------------------
(***************************************************************************)
(* handleContainersRestart: a goroutine per container and a WaitGroup.     *)
(***************************************************************************)
Spawn(r) ==
    /\ At(r, "spawn")
    /\ \E S \in (SUBSET Containers) \ {{}} :
          restart' = [restart EXCEPT ![r] = [c \in Containers |-> IF c \in S THEN "running" ELSE "no"]]
    /\ Goto(r, "wait")
    /\ UNCHANGED <<disk, stack, sent, history>>

Restarted(r, c) ==
    /\ At(r, "wait") /\ restart[r][c] = "running"
    /\ restart' = [restart EXCEPT ![r][c] = "done"]
    /\ UNCHANGED <<disk, stack, req, sent, history>>

\* The error is sent on a channel that is read after the wait: the goroutine stays
\* in the send and its deferred Done never runs.
RestartFails(r, c) ==
    /\ At(r, "wait") /\ restart[r][c] = "running"
    /\ restart' = [restart EXCEPT ![r][c] = "failed"]
    /\ UNCHANGED <<disk, stack, req, sent, history>>

\* Mutant: no goroutine calls Done.
PendingForever == {"running", "failed", "done"}

Pending == {"running", "failed"}

WaitDone(r) ==
    /\ At(r, "wait")
    /\ \A c \in Containers : restart[r][c] \notin Pending
    /\ Goto(r, "answer")
    /\ restart' = [restart EXCEPT ![r] = [c \in Containers |-> "no"]]
    /\ UNCHANGED <<disk, stack, sent, history>>

-----------------------------------------------------------------------------
\* The daemon is killed and started again.
Crash ==
    /\ \E r \in Requests : ~At(r, "idle")
    /\ req' = [r \in Requests |-> NoRequest]
    /\ restart' = [r \in Requests |-> [c \in Containers |-> "no"]]
    /\ cut' = (cut \/ \E r \in Requests : Interrupted(r))
    /\ raced' = raced \cup {req[r].key : r \in {s \in Requests : Setting(s)}}
    /\ alone' = Requests
    /\ UNCHANGED <<disk, stack, sent, kept>>

Handle(r) ==
    \/ Load(r) \/ GetGroupedConfig(r) \/ Render(r) \/ Truncate(r) \/ Open(r) \/ Write(r) \/ Clean(r)
    \/ Up(r) \/ ComposeUp(r) \/ ComposeDown(r)
    \/ Spawn(r) \/ (\E c \in Containers : Restarted(r, c)) \/ WaitDone(r)
    \/ Fail(r) \/ Answer(r)

Next ==
    \/ \E r \in Requests :
          \/ getHandler(r) \/ setHandler(r) \/ upHandler(r) \/ downHandler(r)
          \/ restartConfigHandler(r) \/ restartContainersHandler(r)
          \/ Handle(r)
          \/ \E c \in Containers : RestartFails(r, c)
    \/ Crash

\* Goroutines run, and Docker answers in the end.
Spec == Init /\ [][Next]_vars /\ \A r \in Requests : WF_vars(Handle(r))

-----------------------------------------------------------------------------
(***************************************************************************)
(* Properties.                                                             *)
(***************************************************************************)
\* Whatever requests ran before, values.yaml holds for each key the value last saved
\* for it, unless requests that set something overlapped or one was cut short; and it
\* is empty or gone only while one writes it or since one failed to.
SetIsKept ==
    /\ file \in {NoFile, Empty} => cut \/ \E r \in Requests : Interrupted(r)
    /\ file \notin {NoFile, Empty} =>
          \A k \in Keys \ raced : kept[k] # Nil => file[k] = kept[k]

\* When an up, or a restart of the configuration, is answered and no other request
\* changed anything meanwhile, the services run with what values.yaml records, unless
\* sets had overlapped or failed and none has come after them.
AppliedIsRunning ==
    \A r \in Requests :
        LET q == req[r]
        IN  q.kind \in {"up", "restart"} /\ q.step = "answer" /\ r \in alone /\ raced = {} =>
               stack = file

\* "Apply the new configuration, relaunch it" (pkg/deamon.go): the up that a set asks
\* for finds the compose file which that set has rendered.
SetIsApplied == \A r \in Requests : Setting(r) /\ At(r, "up") => ComposeFileFound(r)

\* Every request is answered, unless it restarts a container that does not restart:
\* then it never is.
RequestsAreAnswered ==
    \A r \in Requests :
        ~At(r, "idle") ~> At(r, "idle") \/ \E c \in Containers : restart[r][c] = "failed"
=============================================================================
