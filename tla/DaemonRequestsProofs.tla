------------------------ MODULE DaemonRequestsProofs -------------------------
(***************************************************************************)
(* Theorems about DaemonRequests, for any requests, keys, values and       *)
(* containers.                                                             *)
(***************************************************************************)
EXTENDS DaemonRequests, TLAPS

Kinds    == Changes \cup {"none", "get", "containers"}
Saving   == {"render", "truncate", "open", "write"}
Places   == Saving \cup {"idle", "load", "clean", "up", "compose", "down", "spawn", "wait", "answer"}
Jobs     == [kind : Kinds, step : Places, key : Keys \cup {Nil}, value : Values \cup {Nil},
             apply : BOOLEAN, conf : Config \cup {Nil}, base : Config \cup {Nil}]

FileTypes  == file \in Config \cup {NoFile, Empty} /\ rendered \in Config /\ kept \in Config
ReqTypes   == req \in [Requests -> Jobs]
NoteTypes  == raced \subseteq Keys /\ alone \subseteq Requests /\ cut \in BOOLEAN

\* What a request is doing follows from its kind; one that sets holds the value to be
\* set.
JobAt(q) ==
    /\ (q.kind = "none") = (q.step = "idle")
    /\ q.kind = "set" => q.key \in Keys /\ q.value \in Values
    /\ q.step \in Saving \cup {"clean"} => q.kind = "set"
    /\ q.step \in Saving => q.conf \in Config /\ q.conf[q.key] = q.value
    /\ q.step = "write" => q.base \in Config
    /\ q.step = "compose" => q.conf \in Config

JobInv == \A r \in Requests : JobAt(req[r])

\* Requests that set something at the same time have marked their keys.
RaceInv ==
    \A r, s \in Requests : r # s /\ req[r].kind = "set" /\ req[s].kind = "set" =>
        req[r].key \in raced /\ r \notin alone

\* What others have set alone, a request writes back as it is.
HeldInv ==
    \A r \in Requests : req[r].step \in Saving =>
        \A k \in Keys \ (raced \cup {req[r].key}) : kept[k] # Nil => req[r].conf[k] = kept[k]

IInv == FileTypes /\ ReqTypes /\ NoteTypes /\ JobInv /\ RaceInv /\ HeldInv /\ SetIsKept

-----------------------------------------------------------------------------
(***************************************************************************)
(* The local variables of a request.                                       *)
(***************************************************************************)
\* A request that is not there, and one that arrives.
LEMMA NoRequestType ==
    NoRequest \in Jobs /\ NoRequest.kind = "none" /\ NoRequest.step = "idle"
  BY DEF NoRequest, Jobs, Kinds, Places

\* A request of any other kind.
LEMMA RequestType ==
    ASSUME NEW kind \in Kinds, NEW step \in Places
    PROVE  /\ Request(kind, step) \in Jobs
           /\ Request(kind, step).kind = kind /\ Request(kind, step).step = step
  BY DEF NoRequest, Request, Jobs

\* A request that sets a value.
LEMMA SetRequestType ==
    ASSUME NEW k \in Keys, NEW v \in Values, NEW apply \in BOOLEAN
    PROVE  LET q == SetRequest(k, v, apply)
           IN  q \in Jobs /\ q.kind = "set" /\ q.step = "load" /\ q.key = k /\ q.value = v
  BY DEF NoRequest, Request, SetRequest, Jobs, Kinds, Changes, Places

\* A step that only moves on keeps the other local variables.
LEMMA Moved ==
    ASSUME ReqTypes, NEW r \in Requests, NEW step \in Places, req' = [req EXCEPT ![r].step = step]
    PROVE  /\ ReqTypes' /\ \A s \in Requests \ {r} : req'[s] = req[s]
           /\ req'[r].step = step /\ req'[r].kind = req[r].kind /\ req'[r].key = req[r].key
           /\ req'[r].value = req[r].value /\ req'[r].conf = req[r].conf /\ req'[r].base = req[r].base
  BY DEF ReqTypes, Jobs

\* A step that also reads the values to be written.
LEMMA MovedConf ==
    ASSUME ReqTypes, NEW r \in Requests, NEW step \in Places, NEW conf \in Config,
           req' = [req EXCEPT ![r].step = step, ![r].conf = conf]
    PROVE  /\ ReqTypes' /\ \A s \in Requests \ {r} : req'[s] = req[s]
           /\ req'[r].step = step /\ req'[r].kind = req[r].kind /\ req'[r].key = req[r].key
           /\ req'[r].value = req[r].value /\ req'[r].conf = conf
  BY DEF ReqTypes, Jobs

\* A step that also reads the file it will write over.
LEMMA MovedBase ==
    ASSUME ReqTypes, NEW r \in Requests, NEW step \in Places, NEW base \in Config \cup {Nil},
           req' = [req EXCEPT ![r].step = step, ![r].base = base]
    PROVE  /\ ReqTypes' /\ \A s \in Requests \ {r} : req'[s] = req[s]
           /\ req'[r].step = step /\ req'[r].kind = req[r].kind /\ req'[r].key = req[r].key
           /\ req'[r].value = req[r].value /\ req'[r].conf = req[r].conf /\ req'[r].base = base
  BY DEF ReqTypes, Jobs

\* A request that begins or ends.
LEMMA Replaced ==
    ASSUME ReqTypes, NEW r \in Requests, NEW q \in Jobs, req' = [req EXCEPT ![r] = q]
    PROVE  ReqTypes' /\ req'[r] = q /\ \A s \in Requests \ {r} : req'[s] = req[s]
  BY DEF ReqTypes

\* values.yaml never looks like a file that is not there, or empty.
LEMMA ConfigTypes ==
    /\ \A f \in Config : f \notin {NoFile, Empty}
    /\ [k \in Keys |-> Nil] \in Config
  BY RequestsAssumption DEF Config

\* Values that are given prevail.
LEMMA OverrideType ==
    ASSUME NEW f \in Config, NEW g \in Config
    PROVE  /\ Override(f, g) \in Config
           /\ \A k \in Keys : g[k] # Nil => Override(f, g)[k] = g[k]
  BY DEF Config, Override

\* Setting one value leaves the others.
LEMMA UpdateType ==
    ASSUME NEW f \in Config, NEW k \in Keys, NEW v \in Values
    PROVE  /\ [f EXCEPT ![k] = v] \in Config /\ [f EXCEPT ![k] = v][k] = v
           /\ \A j \in Keys \ {k} : [f EXCEPT ![k] = v][j] = f[j]
  BY DEF Config

-----------------------------------------------------------------------------
(***************************************************************************)
(* The steps.                                                              *)
(***************************************************************************)
\* The daemon starts with the values of the file and no request.
LEMMA InitInvariant == Init => IInv
<1> SUFFICES ASSUME Init PROVE IInv
  OBVIOUS
<1>0. \A r \in Requests : req[r] = NoRequest
  BY DEF Init
<1>1. ReqTypes
  BY NoRequestType DEF Init, ReqTypes
<1>2. FileTypes /\ NoteTypes
  BY RequestsAssumption, ConfigTypes DEF Init, FileTypes, NoteTypes
<1>3. JobInv /\ RaceInv /\ HeldInv
  BY <1>0, NoRequestType DEF JobInv, JobAt, RaceInv, HeldInv, Saving
<1>4. SetIsKept
  BY RequestsAssumption, ConfigTypes DEF Init, SetIsKept
<1> QED BY <1>1, <1>2, <1>3, <1>4 DEF IInv

\* One request goes on; nothing that is set changes.
Proceeds(r) ==
    /\ ReqTypes' /\ \A s \in Requests \ {r} : req'[s] = req[s]
    /\ req'[r].kind = req[r].kind /\ req'[r].key = req[r].key
    /\ UNCHANGED <<kept, raced, alone, cut>>

\* Such a step keeps the invariant if its own request keeps its part.
LEMMA Proceeding ==
    ASSUME IInv, NEW r \in Requests, Proceeds(r), FileTypes', JobAt(req'[r]),
           req'[r].step \in Saving =>
              \/ req[r].step \in Saving /\ req'[r].conf = req[r].conf
              \/ \A k \in Keys \ (raced \cup {req[r].key}) : kept[k] # Nil => req'[r].conf[k] = kept[k]
    PROVE  FileTypes' /\ ReqTypes' /\ NoteTypes' /\ JobInv' /\ RaceInv' /\ HeldInv'
<1>1. NoteTypes'
  BY DEF IInv, NoteTypes, Proceeds
<1>2. JobInv'
  BY DEF IInv, JobInv, JobAt, Proceeds
<1>3. RaceInv'
  BY DEF IInv, RaceInv, Proceeds
<1>4. HeldInv'
  BY DEF IInv, HeldInv, Proceeds
<1> QED BY <1>1, <1>2, <1>3, <1>4 DEF Proceeds

\* The file and the writers are left as they are.
LEMMA FileKept ==
    ASSUME IInv, NEW r \in Requests, Proceeds(r), file' = file, ~Interrupted(r)
    PROVE  SetIsKept'
  BY DEF IInv, SetIsKept, Proceeds, Interrupted, At

\* The values are those of the file, with the one that is set.
LEMMA LoadKeeps ==
    ASSUME IInv, NEW r \in Requests, Load(r)
    PROVE  IInv'
<1> DEFINE conf == NewValues(r)
<1>1. req[r].kind = "set" /\ req[r].step = "load" /\ file \in Config /\ JobAt(req[r])
  BY DEF Load, Read, At, IInv, FileTypes, JobInv
<1>2. req[r].key \in Keys /\ req[r].value \in Values
  BY <1>1 DEF JobAt
<1>3. /\ conf \in Config /\ conf[req[r].key] = req[r].value
      /\ \A j \in Keys \ {req[r].key} : conf[j] = file[j]
  BY <1>1, <1>2, UpdateType DEF NewValues
<1> HIDE DEF conf
<1>4. req' = [req EXCEPT ![r].step = "render", ![r].conf = conf]
  BY DEF Load, conf
<1>5. UNCHANGED <<file, rendered, kept, raced, alone, cut>>
  BY DEF Load, disk, history
<1>6. /\ ReqTypes' /\ \A s \in Requests \ {r} : req'[s] = req[s]
      /\ req'[r].step = "render" /\ req'[r].kind = "set" /\ req'[r].key = req[r].key
      /\ req'[r].value = req[r].value /\ req'[r].conf = conf
  <2>1. ReqTypes /\ "render" \in Places /\ conf \in Config
    BY <1>3 DEF IInv, Places, Saving
  <2>2. \A c \in Config : req' = [req EXCEPT ![r].step = "render", ![r].conf = c] =>
           /\ ReqTypes' /\ \A s \in Requests \ {r} : req'[s] = req[s]
           /\ req'[r].step = "render" /\ req'[r].kind = req[r].kind /\ req'[r].key = req[r].key
           /\ req'[r].value = req[r].value /\ req'[r].conf = c
    BY <2>1, MovedConf
  <2> QED BY <1>1, <1>4, <2>1, <2>2
<1>7. Proceeds(r)
  BY <1>1, <1>5, <1>6 DEF Proceeds
<1>8. JobAt(req'[r])
  BY <1>2, <1>3, <1>6 DEF JobAt, Saving
<1>9. \A k \in Keys \ (raced \cup {req[r].key}) : kept[k] # Nil => req'[r].conf[k] = kept[k]
  BY <1>1, <1>3, <1>6, ConfigTypes DEF IInv, SetIsKept
<1>10. FileTypes'
  BY <1>5 DEF IInv, FileTypes
<1>11. SetIsKept'
  BY <1>1, <1>5, <1>7, FileKept DEF Interrupted, At
<1> QED BY <1>7, <1>8, <1>9, <1>10, <1>11, Proceeding DEF IInv

\* The steps that only move on.
Moves(r) ==
    \/ GetGroupedConfig(r) \/ Render(r) \/ ComposeUp(r) \/ ComposeDown(r) \/ Spawn(r) \/ WaitDone(r)

\* They write nothing, but for the rendered files.
LEMMA MovesKeep ==
    ASSUME IInv, NEW r \in Requests, Moves(r)
    PROVE  IInv'
<1> USE DEF Goto, At
<1>0. req[r] \in Jobs /\ JobAt(req[r])
  BY DEF IInv, ReqTypes, JobInv
<1>1. PICK step \in Places : /\ req' = [req EXCEPT ![r].step = step]
                             /\ step \in {"answer", "truncate", "up", "wait"}
                             /\ step = "truncate" => req[r].step = "render"
  BY DEF Moves, GetGroupedConfig, Render, ComposeUp, ComposeDown, Spawn, WaitDone, Places, Saving
<1>2. /\ ReqTypes' /\ \A s \in Requests \ {r} : req'[s] = req[s]
      /\ req'[r].step = step /\ req'[r].kind = req[r].kind /\ req'[r].key = req[r].key
      /\ req'[r].value = req[r].value /\ req'[r].conf = req[r].conf
  BY <1>1, Moved DEF IInv
<1>3. UNCHANGED <<file, kept, raced, alone, cut>> /\ req[r].step \notin {"idle", "open", "write"}
  BY DEF Moves, GetGroupedConfig, Render, ComposeUp, ComposeDown, Spawn, WaitDone, disk, history, Read
<1>4. Proceeds(r)
  BY <1>2, <1>3 DEF Proceeds
<1>5. JobAt(req'[r])
  BY <1>0, <1>1, <1>2, <1>3 DEF JobAt, Saving
<1>6. FileTypes'
  <2>1. rendered' = rendered \/ (req[r].step = "render" /\ rendered' = req[r].conf)
    BY DEF Moves, GetGroupedConfig, Render, ComposeUp, ComposeDown, Spawn, WaitDone, disk, Read
  <2>2. rendered' \in Config
    BY <1>0, <2>1 DEF IInv, FileTypes, JobAt, Saving
  <2> QED BY <1>3, <2>2 DEF IInv, FileTypes
<1>7. SetIsKept'
  BY <1>3, <1>4, FileKept DEF Interrupted
<1>8. req'[r].step \in Saving => req[r].step \in Saving /\ req'[r].conf = req[r].conf
  BY <1>1, <1>2 DEF Saving
<1> QED BY <1>4, <1>5, <1>6, <1>7, <1>8, Proceeding DEF IInv

\* Docker compose reads the rendered files.
LEMMA UpKeeps ==
    ASSUME IInv, NEW r \in Requests, Up(r)
    PROVE  IInv'
<1>1. req[r].step = "up" /\ JobAt(req[r]) /\ ReqTypes /\ rendered \in Config
  BY DEF Up, At, IInv, FileTypes, JobInv
<1>2. /\ ReqTypes' /\ \A s \in Requests \ {r} : req'[s] = req[s]
      /\ req'[r].step = "compose" /\ req'[r].kind = req[r].kind /\ req'[r].key = req[r].key
      /\ req'[r].value = req[r].value /\ req'[r].conf = rendered
  <2>1. "compose" \in Places /\ req' = [req EXCEPT ![r].step = "compose", ![r].conf = rendered]
    BY DEF Up, Places
  <2> QED BY <1>1, <2>1, MovedConf
<1>3. UNCHANGED <<file, rendered, kept, raced, alone, cut>>
  BY DEF Up, disk, history
<1>4. Proceeds(r)
  BY <1>2, <1>3 DEF Proceeds
<1>5. JobAt(req'[r])
  BY <1>1, <1>2 DEF JobAt, Saving
<1>6. FileTypes'
  BY <1>3 DEF IInv, FileTypes
<1>7. SetIsKept'
  BY <1>1, <1>3, <1>4, FileKept DEF Interrupted, At
<1> QED BY <1>2, <1>4, <1>5, <1>6, <1>7, Proceeding DEF IInv, Saving

\* The file is empty, and a request about to write it is there.
LEMMA TruncateKeeps ==
    ASSUME IInv, NEW r \in Requests, Truncate(r)
    PROVE  IInv'
<1>1. req[r].step = "truncate" /\ JobAt(req[r]) /\ ReqTypes
  BY DEF Truncate, At, IInv, JobInv
<1>2. /\ ReqTypes' /\ \A s \in Requests \ {r} : req'[s] = req[s]
      /\ req'[r].step = "open" /\ req'[r].kind = req[r].kind /\ req'[r].key = req[r].key
      /\ req'[r].value = req[r].value /\ req'[r].conf = req[r].conf
  <2>1. "open" \in Places /\ req' = [req EXCEPT ![r].step = "open"]
    BY DEF Truncate, Goto, Places, Saving
  <2> QED BY <1>1, <2>1, Moved
<1>3. file' = Empty /\ UNCHANGED <<rendered, kept, raced, alone, cut>>
  BY DEF Truncate, history
<1>4. Proceeds(r)
  BY <1>2, <1>3 DEF Proceeds
<1>5. JobAt(req'[r])
  BY <1>1, <1>2 DEF JobAt, Saving
<1>6. FileTypes'
  BY <1>3 DEF IInv, FileTypes
<1>7. SetIsKept'
  BY <1>2, <1>3 DEF SetIsKept, Interrupted, At
<1> QED BY <1>1, <1>2, <1>4, <1>5, <1>6, <1>7, Proceeding DEF IInv, Saving

\* What is read of the file is overridden by what the request holds.
LEMMA OpenKeeps ==
    ASSUME IInv, NEW r \in Requests, Open(r)
    PROVE  IInv'
<1> DEFINE base == IF file = Empty THEN [k \in Keys |-> Nil] ELSE file
<1>1. req[r].step = "open" /\ JobAt(req[r]) /\ ReqTypes
  BY DEF Open, At, IInv, JobInv
<1>2. base \in Config
  BY ConfigTypes DEF Open, IInv, FileTypes
<1>3. /\ ReqTypes' /\ \A s \in Requests \ {r} : req'[s] = req[s]
      /\ req'[r].step = "write" /\ req'[r].kind = req[r].kind /\ req'[r].key = req[r].key
      /\ req'[r].value = req[r].value /\ req'[r].conf = req[r].conf /\ req'[r].base = base
  <2>1. "write" \in Places /\ req' = [req EXCEPT ![r].step = "write", ![r].base = base]
    BY DEF Open, Places, Saving
  <2> HIDE DEF base
  <2> QED BY <1>1, <1>2, <2>1, MovedBase
<1> HIDE DEF base
<1>4. UNCHANGED <<file, rendered, kept, raced, alone, cut>>
  BY DEF Open, disk, history
<1>5. Proceeds(r)
  BY <1>3, <1>4 DEF Proceeds
<1>6. JobAt(req'[r])
  BY <1>1, <1>2, <1>3 DEF JobAt, Saving
<1>7. FileTypes'
  BY <1>4 DEF IInv, FileTypes
<1>8. SetIsKept'
  BY <1>3, <1>4 DEF IInv, SetIsKept, Interrupted, At
<1> QED BY <1>1, <1>3, <1>5, <1>6, <1>7, <1>8, Proceeding DEF IInv, Saving

\* An empty file that is removed is another request's.
LEMMA CleanKeeps ==
    ASSUME IInv, NEW r \in Requests, Clean(r)
    PROVE  IInv'
<1>1. req[r].step = "clean" /\ JobAt(req[r]) /\ ReqTypes
  BY DEF Clean, At, IInv, JobInv
<1>2. PICK step \in {"up", "answer"} : req' = [req EXCEPT ![r].step = step]
  BY DEF Clean, Goto
<1>3. /\ ReqTypes' /\ \A s \in Requests \ {r} : req'[s] = req[s]
      /\ req'[r].step = step /\ req'[r].kind = req[r].kind /\ req'[r].key = req[r].key
      /\ req'[r].value = req[r].value /\ req'[r].conf = req[r].conf
  <2>1. step \in Places
    BY DEF Places
  <2> QED BY <1>1, <1>2, <2>1, Moved
<1>4. /\ UNCHANGED <<rendered, kept, raced, alone, cut>>
      /\ file' = IF file = Empty THEN NoFile ELSE file
  BY DEF Clean, deleteEmptyFiles, history
<1>5. Proceeds(r)
  BY <1>3, <1>4 DEF Proceeds
<1>6. JobAt(req'[r])
  BY <1>1, <1>3 DEF JobAt, Saving
<1>7. FileTypes'
  BY <1>4 DEF IInv, FileTypes
<1>8. SetIsKept'
  BY <1>1, <1>3, <1>4 DEF IInv, SetIsKept, Interrupted, At
<1> QED BY <1>3, <1>5, <1>6, <1>7, <1>8, Proceeding DEF IInv, Saving

\* The write of a request that no other set has overlapped is the one that counts; the
\* others have marked their keys.
LEMMA WriteKeeps ==
    ASSUME IInv, NEW r \in Requests, Write(r)
    PROVE  IInv'
<1> DEFINE new == Override(req[r].base, req[r].conf)
           key == req[r].key
<1>1. req[r].step = "write" /\ JobAt(req[r]) /\ ReqTypes
  BY DEF Write, At, IInv, JobInv
<1>2. /\ req[r].kind = "set" /\ key \in Keys /\ req[r].value \in Values /\ req[r].base \in Config
      /\ req[r].conf \in Config /\ req[r].conf[key] = req[r].value
  BY <1>1 DEF JobAt, Saving
<1>3. new \in Config /\ \A k \in Keys : req[r].conf[k] # Nil => new[k] = req[r].conf[k]
  BY <1>2, OverrideType
<1>4. /\ file' = new /\ kept' = [kept EXCEPT ![key] = req[r].value]
      /\ raced' = (IF r \in alone THEN raced \ {key} ELSE raced)
      /\ UNCHANGED <<rendered, alone, cut>>
  BY DEF Write
<1> HIDE DEF new
<1>5. /\ ReqTypes' /\ \A s \in Requests \ {r} : req'[s] = req[s]
      /\ req'[r].step = "clean" /\ req'[r].kind = "set" /\ req'[r].key = key
      /\ req'[r].value = req[r].value /\ req'[r].conf = req[r].conf
  <2>1. "clean" \in Places /\ req' = [req EXCEPT ![r].step = "clean", ![r].base = Nil]
    BY DEF Write, Places
  <2> QED BY <1>1, <1>2, <2>1, MovedBase
<1>6. /\ kept \in Config /\ kept' \in Config /\ kept'[key] = req[r].value
      /\ \A j \in Keys \ {key} : kept'[j] = kept[j]
  <2>1. kept \in Config
    BY DEF IInv, FileTypes
  <2>2. /\ [kept EXCEPT ![key] = req[r].value] \in Config
        /\ [kept EXCEPT ![key] = req[r].value][key] = req[r].value
        /\ \A j \in Keys \ {key} : [kept EXCEPT ![key] = req[r].value][j] = kept[j]
    BY <1>2, <2>1, UpdateType
  <2> QED BY <1>4, <2>1, <2>2
<1>7. FileTypes' /\ NoteTypes'
  BY <1>3, <1>4, <1>6 DEF IInv, FileTypes, NoteTypes
<1>8. JobInv'
  BY <1>2, <1>5 DEF IInv, JobInv, JobAt, Saving
<1>9. ASSUME NEW s \in Requests \ {r}, req[s].kind = "set" PROVE key \in raced /\ raced' = raced
  BY <1>2, <1>4, <1>9 DEF IInv, RaceInv
<1>10. RaceInv'
  BY <1>2, <1>4, <1>5, <1>9 DEF IInv, RaceInv
<1>11. HeldInv'
  <2> SUFFICES ASSUME NEW s \in Requests, req'[s].step \in Saving,
                      NEW k \in Keys \ (raced' \cup {req'[s].key}), kept'[k] # Nil
               PROVE  req'[s].conf[k] = kept'[k]
    BY DEF HeldInv
  <2>1. s # r /\ req'[s] = req[s]
    BY <1>5 DEF Saving
  <2>2. req[s].kind = "set"
    BY <2>1 DEF IInv, JobInv, JobAt
  <2>3. key \in raced /\ raced' = raced
    BY <1>9, <2>1, <2>2
  <2>4. k # key /\ kept'[k] = kept[k]
    BY <1>6, <2>3
  <2> QED BY <2>1, <2>3, <2>4 DEF IInv, HeldInv
<1>12. SetIsKept'
  <2> SUFFICES ASSUME NEW k \in Keys \ raced', kept'[k] # Nil PROVE new[k] = kept'[k]
    BY <1>3, <1>4, ConfigTypes DEF SetIsKept
  <2>1. CASE k = key
    BY <1>2, <1>3, <1>6, <2>1
  <2>2. CASE k # key
    <3>1. k \notin raced /\ kept'[k] = kept[k]
      BY <1>4, <1>6, <2>2
    <3>2. req[r].conf[k] = kept[k]
      BY <1>1, <2>2, <3>1 DEF IInv, HeldInv, Saving
    <3> QED BY <1>3, <3>1, <3>2
  <2> QED BY <2>1, <2>2
<1> QED BY <1>5, <1>7, <1>8, <1>10, <1>11, <1>12 DEF IInv

\* A request that ends unanswered marks its key; in the middle of a save it leaves cut.
LEMMA EndKeeps ==
    ASSUME IInv, NEW r \in Requests, Fail(r) \/ Answer(r)
    PROVE  IInv'
<1>1. /\ req' = [req EXCEPT ![r] = NoRequest] /\ alone' = alone \cup {r}
      /\ UNCHANGED <<file, rendered, kept>>
      /\ req[r].step # "idle"
  BY DEF Fail, Answer, End, disk, At
<1>2. ReqTypes' /\ req'[r] = NoRequest /\ \A s \in Requests \ {r} : req'[s] = req[s]
  BY <1>1, NoRequestType, Replaced DEF IInv
<1>3. /\ raced \subseteq raced' /\ raced' \subseteq Keys /\ cut' \in BOOLEAN
      /\ cut \/ Interrupted(r) => cut'
  BY DEF Fail, Answer, Interrupted, At, Setting, IInv, JobInv, JobAt, NoteTypes
<1>4. FileTypes' /\ NoteTypes'
  BY <1>1, <1>3 DEF IInv, FileTypes, NoteTypes
<1>5. JobInv'
  BY <1>2, NoRequestType DEF IInv, JobInv, JobAt, Saving
<1>6. RaceInv'
  BY <1>1, <1>2, <1>3, NoRequestType DEF IInv, RaceInv
<1>7. HeldInv'
  BY <1>1, <1>2, <1>3, NoRequestType DEF IInv, HeldInv, Saving
<1>8. SetIsKept'
  BY <1>1, <1>2, <1>3 DEF IInv, SetIsKept, Interrupted, At
<1> QED BY <1>2, <1>4, <1>5, <1>6, <1>7, <1>8 DEF IInv

\* A request that sets nothing may end the solitude of others, and no more.
LEMMA ArrivalKeeps ==
    ASSUME IInv, NEW r \in Requests, NEW kind \in Kinds \ {"none", "set"},
           NEW step \in {"load", "up", "down", "spawn"}, Receive(r, kind, step)
    PROVE  IInv'
<1>1. /\ req[r].step = "idle" /\ req' = [req EXCEPT ![r] = Request(kind, step)]
      /\ alone' \subseteq alone /\ UNCHANGED <<file, rendered, kept, raced, cut>>
  BY DEF Receive, Overlap, At, disk
<1>2. /\ ReqTypes' /\ \A s \in Requests \ {r} : req'[s] = req[s]
      /\ req'[r].kind = kind /\ req'[r].step = step
  <2>1. step \in Places /\ kind \in Kinds
    BY DEF Places
  <2> DEFINE q == Request(kind, step)
  <2>2. q \in Jobs /\ q.kind = kind /\ q.step = step
    BY <2>1, RequestType
  <2> HIDE DEF q
  <2>3. ReqTypes /\ req' = [req EXCEPT ![r] = q]
    BY <1>1 DEF IInv, q
  <2>4. ReqTypes' /\ req'[r] = q /\ \A s \in Requests \ {r} : req'[s] = req[s]
    BY <2>2, <2>3, Replaced
  <2> QED BY <2>2, <2>4
<1>3. FileTypes' /\ NoteTypes'
  BY <1>1 DEF IInv, FileTypes, NoteTypes
<1>4. JobInv'
  BY <1>2 DEF IInv, JobInv, JobAt, Saving
<1>5. RaceInv'
  BY <1>1, <1>2 DEF IInv, RaceInv
<1>6. HeldInv'
  BY <1>1, <1>2 DEF IInv, HeldInv, Saving
<1>7. SetIsKept'
  BY <1>1, <1>2 DEF IInv, SetIsKept, Interrupted, At
<1> QED BY <1>2, <1>3, <1>4, <1>5, <1>6, <1>7 DEF IInv

\* A request that sets something while others do marks their keys and its own.
LEMMA SetArrivalKeeps ==
    ASSUME IInv, NEW r \in Requests, setHandler(r)
    PROVE  IInv'
<1>1. PICK k \in Keys, v \in Values, apply \in BOOLEAN :
        /\ req' = [req EXCEPT ![r] = SetRequest(k, v, apply)]
        /\ raced' = raced \cup (IF \E s \in Requests : Setting(s) THEN {k} ELSE {})
                          \cup {req[s].key : s \in {t \in Requests : Setting(t)}}
  BY DEF setHandler
<1>2. /\ req[r].step = "idle" /\ UNCHANGED <<file, rendered, kept, cut>>
      /\ alone' \subseteq alone
      /\ \A s \in Requests : req[s].kind = "set" => s \notin alone' /\ r \notin alone'
  BY DEF setHandler, Overlap, At, disk, Changes
<1>3. /\ ReqTypes' /\ \A s \in Requests \ {r} : req'[s] = req[s]
      /\ req'[r].kind = "set" /\ req'[r].step = "load" /\ req'[r].key = k /\ req'[r].value = v
  <2> DEFINE q == SetRequest(k, v, apply)
  <2>1. q \in Jobs /\ q.kind = "set" /\ q.step = "load" /\ q.key = k /\ q.value = v
    BY SetRequestType
  <2>2. ReqTypes /\ req' = [req EXCEPT ![r] = q]
    BY <1>1 DEF IInv
  <2> HIDE DEF q
  <2>3. ReqTypes' /\ req'[r] = q /\ \A s \in Requests \ {r} : req'[s] = req[s]
    BY <2>1, <2>2, Replaced
  <2> QED BY <2>1, <2>3
<1>4. \A s \in Requests : req[s].kind = "set" => Setting(s) /\ req[s].key \in Keys
  BY DEF IInv, JobInv, JobAt, Setting, At
<1>5. /\ raced \subseteq raced' /\ raced' \subseteq Keys
      /\ \A s \in Requests : req[s].kind = "set" => req[s].key \in raced' /\ k \in raced'
  BY <1>1, <1>4 DEF IInv, NoteTypes, Setting
<1>6. FileTypes' /\ NoteTypes'
  BY <1>2, <1>5 DEF IInv, FileTypes, NoteTypes
<1>7. JobInv'
  BY <1>3 DEF IInv, JobInv, JobAt, Saving
<1>8. RaceInv'
  BY <1>2, <1>3, <1>5 DEF IInv, RaceInv
<1>9. HeldInv'
  BY <1>2, <1>3, <1>5 DEF IInv, HeldInv, Saving
<1>10. SetIsKept'
  BY <1>2, <1>3, <1>5 DEF IInv, SetIsKept, Interrupted, At
<1> QED BY <1>3, <1>6, <1>7, <1>8, <1>9, <1>10 DEF IInv

\* A crash is the end of all requests.
LEMMA CrashKeeps == IInv /\ Crash => IInv'
<1> SUFFICES ASSUME IInv, Crash PROVE IInv'
  OBVIOUS
<1>1. /\ \A s \in Requests : req'[s] = NoRequest
      /\ UNCHANGED <<file, rendered, kept>> /\ alone' = Requests
      /\ cut' = (cut \/ \E r \in Requests : Interrupted(r))
  BY DEF Crash, disk
<1>2. ReqTypes'
  BY NoRequestType DEF Crash, ReqTypes
<1>3. raced \subseteq raced' /\ raced' \subseteq Keys
  BY DEF Crash, Setting, IInv, JobInv, JobAt, NoteTypes
<1>4. FileTypes' /\ NoteTypes'
  BY <1>1, <1>3 DEF IInv, FileTypes, NoteTypes
<1>5. JobInv' /\ RaceInv' /\ HeldInv'
  BY <1>1, NoRequestType DEF JobInv, JobAt, RaceInv, HeldInv, Saving
<1>6. SetIsKept'
  BY <1>1, <1>3 DEF IInv, SetIsKept
<1> QED BY <1>2, <1>4, <1>5, <1>6 DEF IInv

\* The restart of containers has nothing to do with the values.
LEMMA StutterKeeps == IInv /\ UNCHANGED <<req, file, rendered, kept, raced, alone, cut>> => IInv'
  BY DEF IInv, ReqTypes, FileTypes, NoteTypes, JobInv, JobAt, RaceInv, HeldInv, SetIsKept, Interrupted, At

\* All steps together.
LEMMA StepInvariant == IInv /\ [Next]_vars => IInv'
<1> SUFFICES ASSUME IInv, [Next]_vars PROVE IInv'
  OBVIOUS
<1>1. ASSUME NEW r \in Requests, getHandler(r) \/ upHandler(r) \/ downHandler(r) \/ restartConfigHandler(r)
                                 \/ restartContainersHandler(r)
      PROVE  IInv'
  BY <1>1, ArrivalKeeps DEF getHandler, upHandler, downHandler, restartConfigHandler,
              restartContainersHandler, Kinds, Changes
<1>2. ASSUME NEW r \in Requests, NEW c \in Containers, Restarted(r, c) \/ RestartFails(r, c) PROVE IInv'
  BY <1>2, StutterKeeps DEF Restarted, RestartFails, disk, history
<1>3. ASSUME NEW r \in Requests, Handle(r) PROVE IInv'
  BY <1>2, <1>3, LoadKeeps, MovesKeep, UpKeeps, TruncateKeeps, OpenKeeps, CleanKeeps, WriteKeeps, EndKeeps
     DEF Handle, Moves
<1>4. CASE UNCHANGED vars
  BY <1>4, StutterKeeps DEF vars
<1> QED BY <1>1, <1>2, <1>3, <1>4, SetArrivalKeeps, CrashKeeps DEF Next

-----------------------------------------------------------------------------
(***************************************************************************)
(* What an up applies.                                                     *)
(***************************************************************************)
Late == {"truncate", "open", "write"}

\* Where a request works tells its kind.
WorkInv ==
    \A r \in Requests :
        /\ req[r].step \in {"up", "compose"} => req[r].kind \in Changes
        /\ req[r].step = "down" => req[r].kind \in {"down", "restart"}
        /\ req[r].step \in {"spawn", "wait"} => req[r].kind = "containers"

\* A request that is alone is the only one that changes something.
AloneInv ==
    \A r, s \in Requests :
        r # s /\ req[r].kind \in Changes /\ req[s].kind \in Changes => r \notin alone

\* A set that no other has overlapped, or when none has since, has rendered what it is
\* about to write to an empty file.
SaveInv ==
    \A r \in Requests : req[r].kind = "set" /\ (raced = {} \/ r \in alone) =>
        /\ req[r].step \in Late => rendered = req[r].conf
        /\ req[r].step = "open" => file = Empty
        /\ req[r].step = "write" => req[r].base = [k \in Keys |-> Nil]

\* Otherwise the rendered files and values.yaml agree.
SameInv == raced = {} /\ (\A r \in Requests : req[r].step \notin Late) => rendered = file

\* An up that is alone works with them.
UpInv ==
    \A r \in Requests : req[r].kind \in {"up", "restart"} /\ r \in alone /\ raced = {} =>
        /\ req[r].step = "compose" => req[r].conf = rendered
        /\ req[r].step = "answer" => stack = file

ApplyInv == WorkInv /\ AloneInv /\ SaveInv /\ SameInv /\ UpInv

\* The kinds at which values.yaml is written.
LEMMA LateSets ==
    ASSUME IInv
    PROVE  /\ \A r \in Requests : req[r].step \in Saving \cup {"clean"} => req[r].kind = "set"
           /\ Late \subseteq Saving
           /\ \A r, s \in Requests : r # s /\ req[r].kind = "set" /\ req[s].kind = "set" =>
                  raced # {} /\ r \notin alone
  BY DEF IInv, JobInv, JobAt, RaceInv, Late, Saving

\* A request that goes on and leaves the files and the services is told by its own part.
LEMMA GoingOn ==
    ASSUME IInv, ApplyInv, NEW r \in Requests, Proceeds(r), UNCHANGED <<file, rendered, stack>>,
           WorkInv', req'[r].step \in Late <=> req[r].step \in Late,
           req'[r].step \in Late => req'[r].conf = req[r].conf,
           req'[r].step = "open" => req[r].step = "open",
           req'[r].step = "write" /\ req[r].step # "write" =>
               req[r].kind = "set" /\ (raced = {} \/ r \in alone => req'[r].base = [k \in Keys |-> Nil]),
           req'[r].step = "write" /\ req[r].step = "write" => req'[r].base = req[r].base,
           req'[r].step = "compose" => req'[r].conf = rendered,
           req'[r].step = "answer" => req[r].kind \notin {"up", "restart"}
    PROVE  ApplyInv'
<1>1. AloneInv'
  BY DEF ApplyInv, AloneInv, Proceeds
<1>2. SaveInv'
  BY DEF ApplyInv, SaveInv, Proceeds, Late
<1>3. SameInv'
  BY DEF ApplyInv, SameInv, Proceeds
<1>4. UpInv'
  BY DEF ApplyInv, UpInv, Proceeds
<1> QED BY <1>1, <1>2, <1>3, <1>4 DEF ApplyInv

\* Reading, and what has to do with no file.
LEMMA LoadApplies ==
    ASSUME IInv, ApplyInv, NEW r \in Requests, Load(r) \/ GetGroupedConfig(r) \/ Spawn(r) \/ WaitDone(r)
    PROVE  ApplyInv'
<1>1. PICK step \in {"render", "answer", "wait"}, conf \in Config \cup {Nil} :
         /\ \/ req' = [req EXCEPT ![r].step = step]
            \/ step = "render" /\ req' = [req EXCEPT ![r].step = step, ![r].conf = conf]
         /\ step = "wait" => req[r].kind = "containers"
         /\ step = "answer" => req[r].kind \in {"get", "containers"}
  <2>1. CASE Load(r)
    <3>1. req[r].kind = "set" /\ file \in Config /\ JobAt(req[r])
      BY <2>1 DEF Load, Read, At, IInv, FileTypes, JobInv
    <3>2. NewValues(r) \in Config
      BY <3>1, UpdateType DEF NewValues, JobAt
    <3> QED BY <2>1, <3>2 DEF Load
  <2>2. CASE GetGroupedConfig(r)
    BY <2>2 DEF GetGroupedConfig, Goto, Read
  <2>3. CASE Spawn(r) \/ WaitDone(r)
    BY <2>3 DEF Spawn, WaitDone, Goto, At, ApplyInv, WorkInv
  <2> QED BY <2>1, <2>2, <2>3
<1>2. UNCHANGED <<file, rendered, stack, kept, raced, alone, cut>> /\ req[r].step \notin Late
  BY DEF Load, GetGroupedConfig, Spawn, WaitDone, disk, history, Read, At, Late
<1>3. /\ ReqTypes' /\ \A s \in Requests \ {r} : req'[s] = req[s]
      /\ req'[r].step = step /\ req'[r].kind = req[r].kind /\ req'[r].key = req[r].key
  BY <1>1 DEF IInv, ReqTypes, Jobs, Places, Saving
<1>4. Proceeds(r) /\ step \notin Late
  BY <1>2, <1>3 DEF Proceeds, Late
<1>5. WorkInv'
  BY <1>1, <1>3 DEF ApplyInv, WorkInv
<1> QED BY <1>1, <1>2, <1>3, <1>4, <1>5, GoingOn DEF Late

\* The part of SaveInv of one request.
Saved(r) ==
    /\ req[r].step \in Late => rendered = req[r].conf
    /\ req[r].step = "open" => file = Empty
    /\ req[r].step = "write" => req[r].base = [k \in Keys |-> Nil]

\* While a request sets something, no other set is alone and no up is.
LEMMA SettingApplies ==
    ASSUME IInv, ApplyInv, NEW r \in Requests, req[r].kind = "set", req'[r].kind = "set",
           \A s \in Requests \ {r} : req'[s] = req[s],
           alone' = alone, WorkInv', raced' = raced \/ r \in alone,
           raced = {} \/ r \in alone => Saved(r)',
           raced' = {} /\ req'[r].step \notin Late => rendered' = file'
    PROVE  ApplyInv'
<1>1. AloneInv'
  BY DEF ApplyInv, AloneInv
<1>2. ASSUME NEW s \in Requests, req'[s].kind = "set", raced' = {} \/ s \in alone'
      PROVE  Saved(s)'
  <2>1. CASE s = r
    BY <1>2, <2>1
  <2>2. CASE s # r
    BY <1>2, <2>2, LateSets
  <2> QED BY <2>1, <2>2
<1>3. SaveInv'
  BY <1>2 DEF SaveInv, Saved
<1>4. SameInv'
  BY DEF SameInv
<1>5. UpInv'
  <2> SUFFICES ASSUME NEW s \in Requests, req'[s].kind \in {"up", "restart"}, s \in alone'
               PROVE  FALSE
    BY DEF UpInv
  <2>1. s # r /\ req[s].kind \in {"up", "restart"} /\ s \in alone
    OBVIOUS
  <2> QED BY <2>1 DEF ApplyInv, AloneInv, Changes
<1> QED BY <1>1, <1>3, <1>4, <1>5 DEF ApplyInv

\* Rendering, and what comes before the write.
LEMMA SaveApplies ==
    ASSUME IInv, ApplyInv, NEW r \in Requests, Render(r) \/ Truncate(r) \/ Open(r)
    PROVE  ApplyInv'
<1>1. /\ req[r].step \in {"render", "truncate", "open"} /\ req[r].kind = "set" /\ ReqTypes /\ req[r] \in Jobs
  BY LateSets DEF Render, Truncate, Open, At, Saving, IInv, ReqTypes
<1>2. UNCHANGED <<raced, alone>>
  BY DEF Render, Truncate, Open, history
<1>3. ASSUME WorkInv', req'[r].kind = "set", \A s \in Requests \ {r} : req'[s] = req[s],
             req'[r].step \in Late, raced = {} \/ r \in alone => Saved(r)'
      PROVE  ApplyInv'
  BY <1>1, <1>2, <1>3, SettingApplies
<1>4. ASSUME req'[r].kind = "set", req'[r].step \in Late, \A s \in Requests \ {r} : req'[s] = req[s]
      PROVE  WorkInv'
  BY <1>4 DEF ApplyInv, WorkInv, Late
<1>5. CASE Render(r)
  <2>1. req' = [req EXCEPT ![r].step = "truncate"] /\ rendered' = req[r].conf
    BY <1>5 DEF Render, Goto
  <2>2. /\ req'[r].step = "truncate" /\ req'[r].kind = "set" /\ req'[r].conf = req[r].conf
        /\ \A s \in Requests \ {r} : req'[s] = req[s]
    BY <1>1, <2>1 DEF ReqTypes, Jobs
  <2> QED BY <1>3, <1>4, <2>1, <2>2 DEF Saved, Late
<1>6. CASE Truncate(r)
  <2>1. req' = [req EXCEPT ![r].step = "open"] /\ rendered' = rendered /\ file' = Empty /\ req[r].step = "truncate"
    BY <1>6 DEF Truncate, Goto, At
  <2>2. /\ req'[r].step = "open" /\ req'[r].kind = "set" /\ req'[r].conf = req[r].conf
        /\ \A s \in Requests \ {r} : req'[s] = req[s]
    BY <1>1, <2>1 DEF ReqTypes, Jobs
  <2>3. raced = {} \/ r \in alone => rendered = req[r].conf
    BY <1>1, <2>1 DEF ApplyInv, SaveInv, Late
  <2> QED BY <1>3, <1>4, <2>1, <2>2, <2>3 DEF Saved, Late
<1>7. CASE Open(r)
  <2> DEFINE base == IF file = Empty THEN [k \in Keys |-> Nil] ELSE file
  <2>1. /\ req' = [req EXCEPT ![r].step = "write", ![r].base = base]
        /\ rendered' = rendered /\ req[r].step = "open"
    BY <1>7 DEF Open, At, disk
  <2>2. raced = {} \/ r \in alone => rendered = req[r].conf /\ base = [k \in Keys |-> Nil]
    BY <1>1, <2>1 DEF ApplyInv, SaveInv, Late
  <2> HIDE DEF base
  <2>3. /\ req'[r].step = "write" /\ req'[r].kind = "set" /\ req'[r].conf = req[r].conf /\ req'[r].base = base
        /\ \A s \in Requests \ {r} : req'[s] = req[s]
    BY <1>1, <2>1 DEF ReqTypes, Jobs
  <2> QED BY <1>3, <1>4, <2>1, <2>2, <2>3 DEF Saved, Late
<1> QED BY <1>5, <1>6, <1>7

\* What is written is what was rendered, and it is not empty.
LEMMA WriteApplies ==
    ASSUME IInv, ApplyInv, NEW r \in Requests, Write(r) \/ Clean(r)
    PROVE  ApplyInv'
<1>1. /\ req[r].step \in {"write", "clean"} /\ req[r].kind = "set" /\ ReqTypes /\ req[r] \in Jobs
  BY LateSets DEF Write, Clean, At, Saving, IInv, ReqTypes
<1>2. CASE Write(r)
  <2>1. /\ req' = [req EXCEPT ![r].step = "clean", ![r].base = Nil] /\ req[r].step = "write"
        /\ file' = Override(req[r].base, req[r].conf) /\ rendered' = rendered /\ alone' = alone
        /\ raced' = IF r \in alone THEN raced \ {req[r].key} ELSE raced
    BY <1>2 DEF Write, At
  <2>2. /\ req'[r].step = "clean" /\ req'[r].kind = "set"
        /\ \A s \in Requests \ {r} : req'[s] = req[s]
    BY <1>1, <2>1 DEF ReqTypes, Jobs
  <2>3. WorkInv'
    BY <2>2 DEF ApplyInv, WorkInv
  <2>4. raced' = {} => rendered' = file'
    <3> SUFFICES ASSUME raced' = {}
                 PROVE  rendered = file'
      BY <2>1
    <3>1. raced = {} \/ r \in alone
      BY <2>1
    <3>2. rendered = req[r].conf /\ req[r].base = [k \in Keys |-> Nil]
      BY <1>1, <2>1, <3>1 DEF ApplyInv, SaveInv, Late
    <3>3. req[r].conf \in Config
      BY <2>1 DEF IInv, JobInv, JobAt, Saving
    <3>4. Override([k \in Keys |-> Nil], req[r].conf) = req[r].conf
      BY <3>3 DEF Override, Config
    <3> QED BY <2>1, <3>2, <3>4
  <2> QED BY <1>1, <2>1, <2>2, <2>3, <2>4, SettingApplies DEF Saved, Late
<1>3. CASE Clean(r)
  <2>1. PICK step \in {"up", "answer"} : req' = [req EXCEPT ![r].step = step]
    BY <1>3 DEF Clean, Goto
  <2>2. /\ req'[r].step = step /\ req'[r].kind = "set"
        /\ \A s \in Requests \ {r} : req'[s] = req[s]
    BY <1>1, <2>1 DEF ReqTypes, Jobs
  <2>3. /\ file' = (IF file = Empty THEN NoFile ELSE file) /\ req[r].step = "clean"
        /\ UNCHANGED <<rendered, raced, alone>>
    BY <1>3 DEF Clean, At, deleteEmptyFiles, history
  <2>4. WorkInv'
    BY <2>2 DEF ApplyInv, WorkInv, Changes
  <2>5. raced' = {} => rendered' = file'
    <3> SUFFICES ASSUME raced = {}
                 PROVE  rendered' = file'
      BY <2>3
    <3>1. \A s \in Requests : req[s].step \notin Late
      BY <1>1, <2>3, LateSets DEF Late
    <3>2. rendered = file /\ file # Empty
      BY <3>1, ConfigTypes DEF ApplyInv, SameInv, IInv, FileTypes
    <3> QED BY <2>3, <3>2
  <2> QED BY <1>1, <2>2, <2>3, <2>4, <2>5, SettingApplies DEF Saved, Late
<1> QED BY <1>2, <1>3

\* An up that is alone reads and starts what values.yaml records.
LEMMA ComposeApplies ==
    ASSUME IInv, ApplyInv, NEW r \in Requests, Up(r) \/ ComposeUp(r) \/ ComposeDown(r)
    PROVE  ApplyInv'
<1>1. /\ req[r].step \in {"up", "compose", "down"} /\ req[r].kind \in Changes /\ ReqTypes /\ req[r] \in Jobs
      /\ req[r].step = "down" => req[r].kind \in {"down", "restart"}
  BY DEF Up, ComposeUp, ComposeDown, At, ApplyInv, WorkInv, IInv, ReqTypes, Changes
<1>2. UNCHANGED <<file, rendered, kept, raced, alone, cut>>
  BY DEF Up, ComposeUp, ComposeDown, disk, history
<1>3. CASE Up(r)
  <2>1. req' = [req EXCEPT ![r].step = "compose", ![r].conf = rendered] /\ stack' = stack
        /\ req[r].step = "up"
    BY <1>3 DEF Up, At
  <2>2. /\ req'[r].step = "compose" /\ req'[r].kind = req[r].kind /\ req'[r].conf = rendered
        /\ \A s \in Requests \ {r} : req'[s] = req[s]
    BY <1>1, <2>1 DEF ReqTypes, Jobs
  <2>3. Proceeds(r)
    <3>1. IInv'
      BY <1>3, UpKeeps
    <3>2. ReqTypes' /\ req'[r].key = req[r].key
      BY <1>1, <2>1, <3>1 DEF IInv, ReqTypes, Jobs
    <3> QED BY <1>2, <2>2, <3>2 DEF Proceeds
  <2>4. WorkInv'
    BY <1>1, <2>2 DEF ApplyInv, WorkInv
  <2> QED BY <1>2, <2>1, <2>2, <2>3, <2>4, GoingOn DEF Late
<1>4. CASE ComposeUp(r) \/ ComposeDown(r)
  <2>1. PICK step \in {"up", "answer"} :
           /\ req' = [req EXCEPT ![r].step = step]
           /\ step = "up" => req[r].kind = "restart"
           /\ req[r].step \in {"compose", "down"}
           /\ req[r].step = "compose" => stack' = req[r].conf
           /\ req[r].step = "down" /\ step = "answer" => req[r].kind = "down"
    BY <1>1, <1>4 DEF ComposeUp, ComposeDown, Goto, At
  <2>2. /\ req'[r].step = step /\ req'[r].kind = req[r].kind /\ req'[r].conf = req[r].conf
        /\ \A s \in Requests \ {r} : req'[s] = req[s]
    BY <1>1, <2>1 DEF ReqTypes, Jobs
  <2>3. WorkInv'
    BY <2>1, <2>2 DEF ApplyInv, WorkInv, Changes
  <2>4. AloneInv'
    BY <1>2, <2>2 DEF ApplyInv, AloneInv
  <2>5. SaveInv' /\ SameInv'
    BY <1>2, <2>1, <2>2 DEF ApplyInv, SaveInv, SameInv, Late
  <2>6. UpInv'
    <3> SUFFICES ASSUME NEW s \in Requests, req'[s].kind \in {"up", "restart"}, s \in alone', raced' = {}
                 PROVE  /\ req'[s].step = "compose" => req'[s].conf = rendered'
                        /\ req'[s].step = "answer" => stack' = file'
      BY DEF UpInv
    <3>1. s = r
      BY <1>1, <1>2, <2>2 DEF ApplyInv, AloneInv, Changes
    <3>2. \A p \in Requests : req[p].step \notin Late
      BY <1>1, <1>2, <3>1, LateSets DEF ApplyInv, AloneInv, Changes, Late
    <3>3. rendered = file
      BY <1>2, <3>2 DEF ApplyInv, SameInv
    <3>4. req[r].step = "compose" => req[r].conf = rendered
      BY <1>2, <2>2, <3>1 DEF ApplyInv, UpInv
    <3> QED BY <1>2, <2>1, <2>2, <3>1, <3>3, <3>4
  <2> QED BY <2>3, <2>4, <2>5, <2>6 DEF ApplyInv
<1> QED BY <1>3, <1>4

\* A set that ends unanswered marks its key.
LEMMA EndApplies ==
    ASSUME IInv, ApplyInv, NEW r \in Requests, Fail(r) \/ Answer(r)
    PROVE  ApplyInv'
<1>1. /\ req' = [req EXCEPT ![r] = NoRequest] /\ alone' = alone \cup {r} /\ raced \subseteq raced'
      /\ UNCHANGED <<file, rendered, stack>>
  BY DEF Fail, Answer, End, disk
<1>2. req'[r] = NoRequest /\ \A s \in Requests \ {r} : req'[s] = req[s]
  BY <1>1, NoRequestType, Replaced DEF IInv
<1>3. req'[r].kind = "none" /\ req'[r].step = "idle"
  BY <1>2, NoRequestType
<1>4. WorkInv' /\ AloneInv'
  BY <1>1, <1>2, <1>3 DEF ApplyInv, WorkInv, AloneInv, Changes
<1>5. SaveInv' /\ UpInv'
  BY <1>1, <1>2, <1>3 DEF ApplyInv, SaveInv, UpInv
<1>6. SameInv'
  <2> SUFFICES ASSUME raced' = {}, \A s \in Requests : req'[s].step \notin Late
               PROVE  rendered = file
    BY <1>1 DEF SameInv
  <2>1. raced = {}
    BY <1>1
  <2>2. req[r].step \notin Late
    <3> SUFFICES ASSUME req[r].step \in Late
                 PROVE  FALSE
      OBVIOUS
    <3>1. req[r].kind = "set" /\ Setting(r) /\ Fail(r)
      BY LateSets DEF Answer, At, Late, Setting, Saving
    <3> QED BY <3>1 DEF Fail
  <2> QED BY <1>2, <2>1, <2>2 DEF ApplyInv, SameInv
<1> QED BY <1>4, <1>5, <1>6 DEF ApplyInv

\* A request that arrives ends the solitude of those that change something.
LEMMA ArrivalApplies ==
    ASSUME IInv, ApplyInv, NEW r \in Requests, NEW q \in Jobs, req' = [req EXCEPT ![r] = q],
           \/ q.kind \in {"get"} /\ q.step = "load"
           \/ q.kind = "set" /\ q.step = "load"
           \/ q.kind = "up" /\ q.step = "up"
           \/ q.kind \in {"down", "restart"} /\ q.step = "down"
           \/ q.kind = "containers" /\ q.step = "spawn",
           At(r, "idle"), Overlap(r, q.kind), raced \subseteq raced',
           UNCHANGED <<file, rendered, stack>>
    PROVE  ApplyInv'
<1>1. req'[r] = q /\ \A s \in Requests \ {r} : req'[s] = req[s]
  BY Replaced DEF IInv
<1>2. alone' \subseteq alone /\ req[r].step \notin Late
  BY DEF Overlap, At, Late
<1>3. WorkInv'
  BY <1>1 DEF ApplyInv, WorkInv, Changes
<1>4. AloneInv'
  <2> SUFFICES ASSUME NEW a \in Requests, NEW b \in Requests, a # b,
                      req'[a].kind \in Changes, req'[b].kind \in Changes
               PROVE  a \notin alone'
    BY DEF AloneInv
  <2>1. CASE a # r /\ b # r
    BY <1>1, <1>2, <2>1 DEF ApplyInv, AloneInv
  <2>2. CASE a = r \/ b = r
    <3>1. PICK s \in {a, b} : s # r /\ req[s].kind \in Changes /\ q.kind \in Changes
      BY <1>1, <2>2
    <3>2. {s2 \in Requests : req[s2].kind \in Changes} # {}
      BY <3>1
    <3> QED BY <2>2, <3>1, <3>2, <1>1 DEF Overlap
  <2> QED BY <2>1, <2>2
<1>5. SaveInv' /\ SameInv' /\ UpInv'
  BY <1>1, <1>2 DEF ApplyInv, SaveInv, SameInv, UpInv, Late
<1> QED BY <1>3, <1>4, <1>5 DEF ApplyInv

\* A crash is the end of all requests.
LEMMA CrashApplies == IInv /\ ApplyInv /\ Crash => ApplyInv'
<1> SUFFICES ASSUME IInv, ApplyInv, Crash PROVE ApplyInv'
  OBVIOUS
<1>1. /\ \A s \in Requests : req'[s].kind = "none" /\ req'[s].step = "idle"
      /\ UNCHANGED <<file, rendered, stack>>
      /\ raced' = raced \cup {req[r].key : r \in {s \in Requests : Setting(s)}}
  BY NoRequestType DEF Crash, disk
<1>2. WorkInv' /\ AloneInv' /\ SaveInv' /\ UpInv'
  BY <1>1 DEF WorkInv, AloneInv, SaveInv, UpInv, Changes
<1>3. SameInv'
  <2> SUFFICES ASSUME raced' = {}
               PROVE  rendered = file
    BY <1>1 DEF SameInv
  <2>1. \A s \in Requests : ~Setting(s)
    BY <1>1
  <2>2. \A s \in Requests : req[s].step \notin Late
    BY <2>1, LateSets DEF Setting, At, Late, Saving
  <2> QED BY <1>1, <2>2 DEF ApplyInv, SameInv
<1> QED BY <1>2, <1>3 DEF ApplyInv

\* The daemon starts with files that agree and no request.
LEMMA InitApplies == Init => ApplyInv
<1> SUFFICES ASSUME Init PROVE ApplyInv
  OBVIOUS
<1>1. \A r \in Requests : req[r].kind = "none" /\ req[r].step = "idle"
  BY NoRequestType DEF Init
<1>2. rendered = file
  BY DEF Init
<1> QED BY <1>1, <1>2 DEF ApplyInv, WorkInv, AloneInv, SaveInv, SameInv, UpInv, Changes

\* The restart of a container touches neither the files nor the services.
LEMMA StutterApplies ==
    ApplyInv /\ UNCHANGED <<req, file, rendered, stack, raced, alone>> => ApplyInv'
  BY DEF ApplyInv, WorkInv, AloneInv, SaveInv, SameInv, UpInv

\* Requests of every kind arrive.
LEMMA HandlersApply ==
    ASSUME IInv, ApplyInv, NEW r \in Requests,
           \/ getHandler(r) \/ setHandler(r) \/ upHandler(r) \/ downHandler(r)
           \/ restartConfigHandler(r) \/ restartContainersHandler(r)
    PROVE  ApplyInv'
<1>1. CASE setHandler(r)
  <2>1. PICK k \in Keys, v \in Values, apply \in BOOLEAN :
          /\ req' = [req EXCEPT ![r] = SetRequest(k, v, apply)]
          /\ raced \subseteq raced'
    BY <1>1 DEF setHandler
  <2> DEFINE q == SetRequest(k, v, apply)
  <2>2. q \in Jobs /\ q.kind = "set" /\ q.step = "load"
    BY SetRequestType
  <2>3. At(r, "idle") /\ Overlap(r, "set") /\ UNCHANGED <<file, rendered, stack>>
    BY <1>1 DEF setHandler, disk
  <2>4. req' = [req EXCEPT ![r] = q]
    BY <2>1
  <2> HIDE DEF q
  <2> QED BY <2>1, <2>2, <2>3, <2>4, ArrivalApplies
<1>2. ASSUME NEW kind \in Kinds, NEW step \in Places, Receive(r, kind, step),
             \/ kind = "get" /\ step = "load"
             \/ kind = "up" /\ step = "up"
             \/ kind \in {"down", "restart"} /\ step = "down"
             \/ kind = "containers" /\ step = "spawn"
      PROVE  ApplyInv'
  <2> DEFINE q == Request(kind, step)
  <2>1. q \in Jobs /\ q.kind = kind /\ q.step = step
    BY RequestType
  <2>2. At(r, "idle") /\ Overlap(r, kind) /\ raced' = raced /\ UNCHANGED <<file, rendered, stack>>
    BY <1>2 DEF Receive, disk
  <2>3. req' = [req EXCEPT ![r] = q]
    BY <1>2 DEF Receive
  <2> HIDE DEF q
  <2> QED BY <1>2, <2>1, <2>2, <2>3, ArrivalApplies
<1>3. /\ {"get", "up", "down", "restart", "containers"} \subseteq Kinds
      /\ {"load", "up", "down", "spawn"} \subseteq Places
  BY DEF Kinds, Changes, Places
<1> QED BY <1>1, <1>2, <1>3 DEF getHandler, upHandler, downHandler, restartConfigHandler,
                                restartContainersHandler

\* All steps together.
LEMMA StepApplies == IInv /\ ApplyInv /\ [Next]_vars => ApplyInv'
<1> SUFFICES ASSUME IInv, ApplyInv, [Next]_vars PROVE ApplyInv'
  OBVIOUS
<1>1. ASSUME NEW r \in Requests, NEW c \in Containers, Restarted(r, c) \/ RestartFails(r, c)
      PROVE  ApplyInv'
  BY <1>1, StutterApplies DEF Restarted, RestartFails, disk, history
<1>2. ASSUME NEW r \in Requests, Handle(r) PROVE ApplyInv'
  BY <1>1, <1>2, LoadApplies, SaveApplies, WriteApplies, ComposeApplies, EndApplies DEF Handle
<1>3. CASE UNCHANGED vars
  BY <1>3, StutterApplies DEF vars
<1> QED BY <1>1, <1>2, <1>3, HandlersApply, CrashApplies DEF Next

-----------------------------------------------------------------------------
\* The inductive invariant of the requests.
THEOREM RequestsInvariant == Spec => []IInv
<1> QED BY InitInvariant, StepInvariant, PTL DEF Spec

\* SetHandler: a value that was saved alone stays until the next save of its key, and
\* values.yaml is empty or gone only through a save that is running or was cut short.
THEOREM SavedValuesStay == Spec => []SetIsKept
<1>1. IInv => SetIsKept
  BY DEF IInv
<1> QED BY <1>1, RequestsInvariant, PTL

\* Nor does what is rendered and started depart from it.
THEOREM ApplyInvariant == Spec => [](IInv /\ ApplyInv)
<1> QED BY InitInvariant, StepInvariant, InitApplies, StepApplies, PTL DEF Spec

\* HandleUp, HandleConfigRestart: an up that is answered and that no other change
\* has overlapped leaves the services running with what values.yaml records, unless
\* sets have overlapped or failed and none has come after them.
THEOREM AppliedRuns == Spec => []AppliedIsRunning
<1>1. ApplyInv => AppliedIsRunning
  BY DEF ApplyInv, UpInv, AppliedIsRunning
<1> QED BY <1>1, ApplyInvariant, PTL
=============================================================================
