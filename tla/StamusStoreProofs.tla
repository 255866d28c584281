-------------------------- MODULE StamusStoreProofs --------------------------
(***************************************************************************)
(* Theorems about StamusStore and CliProcess, for any processes, names, *)
(* folders and logins, any texts' lengths and any number of signals.        *)
(***************************************************************************)
EXTENDS CliProcess, TLAPS

\* An init is given a name that leads to the folder, and enters e.
Enters(e, f) == \E n \in Names : <<n, e>> \in Inits /\ Home[n] = f

\* Where a process is tells what it works on.
JobAt(place, j) ==
    /\ place \in {"down", "compose", "remove"} =>
          j.cmd = "clear" /\ j.entry \in Clears /\ j.folder = Stored[j.entry]
    /\ place = "check" => j.cmd = "list"
    /\ place = "verify" => j.cmd = "login" /\ j.entry \in Logins
    /\ place \in {"create", "fill"} => j.cmd = "pull"
    /\ place \in Changing =>
          \/ j.cmd = "login" /\ j.entry \in Logins
          \/ j.cmd \in {"init", "clear", "list"} /\ j.entry \in Names
    /\ place = "idle" => j.cmd = "none"
    /\ j.cmd = "init" => place \in Changing /\ Enters(j.entry, j.folder)
    /\ j.cmd \in {"init", "clear"} => j.entry \in Names

JobInv == \A p \in Procs : JobAt(pc[p], job[p])

\* Without a mishap one process at most is between its truncation and its write, and
\* it has read what is due; otherwise the file holds what is due.
WriterInv ==
    /\ Quiet => GetConfig = due /\ (file.whole \/ file = Absent)
    /\ \A p \in Procs : Writing(p) =>
          /\ file = Empty /\ ~Overlaps(p)
          /\ pc[p] = "write" => job[p].base = due
          /\ pc[p] = "fill" => due = {}

\* The folder of a name that is about to be removed is not there, or another init
\* has written it again.
InitOf(q, f) == job[q].cmd = "init" /\ job[q].folder = f
FolderInv ==
    /\ due \cap Names \subseteq Entered
    /\ \A f \in folders \ stray :
          (\E n \in due \cap Names : Home[n] = f) \/ \E p \in Procs : InitOf(p, f)
    /\ \A p \in Procs : job[p].cmd \in {"list", "clear"} /\ job[p].entry \in Entered =>
          /\ pc[p] \in {"read", "truncate"} => Home[job[p].entry] \notin folders
          /\ pc[p] = "write" /\ Home[job[p].entry] \in folders =>
                Home[job[p].entry] \in stray \/ \E q \in Procs : InitOf(q, Home[job[p].entry])

\* The steps that only move on, those of a listing and those that create the file.
Moves(p) == StartDown(p) \/ DownDone(p) \/ DeleteFolder(p) \/ RegistryLogin(p)
Lists(p) == StartList(p) \/ CheckInstance(p) \/ ListDone(p)
Creates(p) == FileIsMissing(p) \/ CreateFile(p) \/ FillFile(p)

IInv == TypeOK /\ JobInv /\ (hurt = NoRace => WriterInv)

\* The count of a series holds no SIGINT that was not taken.
Counts(c) == c.interruptCount <= c.ints

SignalInv == (\A p \in Procs : Counts(cli[p])) /\ InterruptsLetWritesFinish

-----------------------------------------------------------------------------
(***************************************************************************)
(* config.json.                                                            *)
(***************************************************************************)
\* What the commands store in their local variables has their types.
LEMMA JobTypes ==
    /\ NoJob \in Jobs
    /\ \A c \in Commands, e \in Entries \cup {"none"}, f \in Folders \cup {NoFolder}, t \in SUBSET Names :
          NewJob(c, e, f, t) \in Jobs
    /\ \A j \in Jobs : /\ j.cmd \in Commands \cup {"none"} /\ j.entry \in Entries \cup {"none"}
                       /\ j.base \subseteq Entries /\ j.todo \subseteq Names
                       /\ j.folder \in Folders \cup {NoFolder}
  BY DEF NewJob, NoJob, Jobs, Commands

\* The files stay within their type.
LEMMA FileTypes ==
    /\ Empty \in Texts
    /\ file \in Texts => GetConfig \subseteq Entries
  BY DEF Empty, GetConfig, Texts

\* An empty store and no jobs satisfy the invariant.
LEMMA InitInvariant == Init => IInv
<1> SUFFICES ASSUME Init PROVE IInv
  OBVIOUS
<1> USE DEF Init
<1>1. TypeOK
  BY JobTypes DEF TypeOK, Texts, Places, NoRace, Absent
<1>2. JobInv
  BY DEF JobInv, JobAt, NoJob, NewJob, Changing
<1>3. WriterInv
  BY DEF WriterInv, GetConfig, Writing, Absent
<1> QED BY <1>1, <1>2, <1>3 DEF IInv

USE DEF Goto, Begin, Return

\* A document that is written over an emptied file is whole; over another one it may not be.
LEMMA WriteAtType ==
    ASSUME file \in Texts, NEW doc \in SUBSET Entries
    PROVE  WriteAt(file, doc) \in Texts /\ WriteAt(Empty, doc) = Text(doc)
<1>1. Size[doc] \in Nat /\ Size[doc] > 0
  BY StoreAssumption
<1>2. Text(doc) \in Texts
  BY <1>1 DEF Text, Texts
<1>3. [doc |-> {}, len |-> file.len, whole |-> FALSE] \in Texts
  BY DEF Texts
<1> QED BY <1>1, <1>2, <1>3 DEF WriteAt, Empty

\* A name leads to a folder, and so does what an init is given.
LEMMA HomeTypes ==
    /\ \A n \in Names : Home[n] \in Folders
    /\ \A e, f : Enters(e, f) => f \in Folders
<1>1. \A n \in Names : Home[n] \in Folders
  <2>1. Home \in [Names -> Folders]
    BY StoreAssumption
  <2> QED BY <2>1
<1> QED BY <1>1 DEF Enters

\* Every step of a command keeps the types, and what its place says of its work.
LEMMA StepType == TypeOK /\ JobInv /\ [Next]_storeVars => TypeOK' /\ JobInv'
<1> SUFFICES ASSUME TypeOK, JobInv, [Next]_storeVars PROVE TypeOK' /\ JobInv'
  OBVIOUS
<1> USE StoreAssumption DEF TypeOK, Places, Changing, NoRace, Race, Mishap
<1>0. /\ GetConfig \subseteq Entries /\ Empty \in Texts
      /\ \A p \in Procs : job[p].cmd \in Commands \cup {"none"} /\ job[p].entry \in Entries \cup {"none"}
                          /\ job[p].base \subseteq Entries /\ job[p].todo \subseteq Names
                          /\ job[p].folder \in Folders \cup {NoFolder}
  BY JobTypes, FileTypes
<1>1. ASSUME NEW p \in Procs, NEW n \in Names, NEW e \in Names, StartInit(p, n, e) PROVE TypeOK' /\ JobInv'
  <2>1. NewJob("init", e, Home[n], {}) \in Jobs
    BY JobTypes DEF Commands, Entries
  <2>2. TypeOK'
    <3>1. folders' \subseteq Folders
      BY <1>1, HomeTypes DEF StartInit
    <3> QED BY <1>1, <2>1, <3>1 DEF StartInit
  <2>3. JobInv'
    <3>1. Enters(e, Home[n])
      BY <1>1 DEF StartInit, Enters
    <3> QED BY <1>1, <3>1 DEF StartInit, JobInv, JobAt, NewJob
  <2> QED BY <2>2, <2>3
<1>2. ASSUME NEW p \in Procs, NEW n \in Names, StartClear(p, n) PROVE TypeOK' /\ JobInv'
  <2>1. NewJob("clear", n, Stored[n], {}) \in Jobs
    BY JobTypes DEF Commands, Entries
  <2>2. TypeOK'
    BY <1>2, <2>1 DEF StartClear
  <2>3. JobInv'
    BY <1>2 DEF StartClear, JobInv, JobAt, NewJob
  <2> QED BY <2>2, <2>3
<1>3. ASSUME NEW p \in Procs, NEW l \in Logins, StartLogin(p, l) PROVE TypeOK' /\ JobInv'
  <2>1. NewJob("login", l, NoFolder, {}) \in Jobs
    BY JobTypes DEF Commands, Entries
  <2>2. TypeOK'
    BY <1>3, <2>1 DEF StartLogin
  <2>3. JobInv'
    BY <1>3 DEF StartLogin, JobInv, JobAt, NewJob
  <2> QED BY <2>2, <2>3
<1>4. ASSUME NEW p \in Procs, Moves(p) PROVE TypeOK' /\ JobInv'
  <2> USE DEF StartDown, DownDone, DeleteFolder, RegistryLogin
  <2>1. TypeOK'
    BY <1>4 DEF Moves
  <2>2. /\ job' = job /\ job[p].cmd \in {"clear", "login"}
        /\ pc' = [pc EXCEPT ![p] = IF pc[p] = "down" THEN "compose" ELSE IF pc[p] = "compose" THEN "remove" ELSE "read"]
        /\ pc[p] \in {"down", "compose", "remove", "verify"}
    BY <1>4 DEF Moves, JobInv, JobAt
  <2>3. JobInv'
    BY <2>2 DEF JobInv, JobAt
  <2> QED BY <2>1, <2>3
<1>5. ASSUME NEW p \in Procs, Lists(p) PROVE TypeOK' /\ JobInv'
  <2>1. CASE StartList(p)
    <3>1. NewJob("list", "none", NoFolder, GetConfig \cap Names) \in Jobs
      BY JobTypes DEF Commands
    <3>2. TypeOK'
      BY <2>1, <3>1 DEF StartList
    <3>3. JobInv'
      BY <2>1 DEF StartList, JobInv, JobAt, NewJob
    <3> QED BY <3>2, <3>3
  <2>2. CASE CheckInstance(p)
    <3>1. PICK n \in job[p].todo : job' = [job EXCEPT ![p] = NewJob("list", n, NoFolder, @.todo \ {n})]
      BY <2>2 DEF CheckInstance
    <3>2. n \in Names /\ n \in Entries /\ job[p].todo \ {n} \in SUBSET Names
      BY <1>0 DEF Entries
    <3>3. job' \in [Procs -> Jobs] /\ job'[p].cmd = "list" /\ job'[p].entry = n
      BY <3>1, <3>2, JobTypes DEF NewJob, Commands
    <3>4. pc' \in [Procs -> Places] /\ pc'[p] \in {"check", "read"}
      BY <2>2 DEF CheckInstance
    <3>5. TypeOK'
      BY <2>2, <3>3, <3>4 DEF CheckInstance
    <3>6. \A q \in Procs \ {p} : pc'[q] = pc[q] /\ job'[q] = job[q]
      BY <2>2, <3>1 DEF CheckInstance
    <3>7. JobAt(pc'[p], job'[p])
      BY <3>2, <3>3, <3>4 DEF JobAt
    <3>8. JobInv'
      BY <3>6, <3>7 DEF JobInv
    <3> QED BY <3>5, <3>8
  <2>3. CASE ListDone(p)
    <3>1. TypeOK'
      BY <2>3, JobTypes DEF ListDone
    <3>2. JobInv'
      BY <2>3 DEF ListDone, JobInv, JobAt, NoJob, NewJob
    <3> QED BY <3>1, <3>2
  <2> QED BY <1>5, <2>1, <2>2, <2>3 DEF Lists
<1>6. ASSUME NEW p \in Procs, Creates(p) PROVE TypeOK' /\ JobInv'
  <2>1. CASE FileIsMissing(p)
    <3>1. NewJob("pull", "none", NoFolder, {}) \in Jobs
      BY JobTypes DEF Commands
    <3>2. TypeOK'
      BY <2>1, <3>1 DEF FileIsMissing
    <3>3. JobInv'
      BY <2>1 DEF FileIsMissing, JobInv, JobAt, NewJob
    <3> QED BY <3>2, <3>3
  <2>2. CASE CreateFile(p)
    <3>1. TypeOK'
      BY <1>0, <2>2 DEF CreateFile
    <3>2. JobInv'
      BY <2>2 DEF CreateFile, JobInv, JobAt
    <3> QED BY <3>1, <3>2
  <2>3. CASE FillFile(p)
    <3>1. WriteAt(file, {}) \in Texts
      BY WriteAtType
    <3>2. TypeOK'
      BY <2>3, <3>1, JobTypes DEF FillFile
    <3>3. JobInv'
      BY <2>3 DEF FillFile, JobInv, JobAt, NoJob, NewJob
    <3> QED BY <3>2, <3>3
  <2> QED BY <1>6, <2>1, <2>2, <2>3 DEF Creates
<1>7. ASSUME NEW p \in Procs, Change(p) PROVE TypeOK' /\ JobInv'
  <2>0. /\ FinishedJob(p) \in Jobs /\ Finished(p) \in {"check", "idle"}
        /\ Finished(p) = "check" => FinishedJob(p).cmd = "list"
        /\ FinishedJob(p).cmd \in {"none", "list"}
        /\ Finished(p) = "idle" => FinishedJob(p).cmd = "none"
    BY <1>0, JobTypes DEF FinishedJob, Finished, NewJob, NoJob, Commands
  <2>1. CASE NothingToRemove(p)
    <3>1. TypeOK'
      BY <2>0, <2>1 DEF NothingToRemove
    <3>2. JobInv'
      BY <2>0, <2>1 DEF NothingToRemove, JobInv, JobAt
    <3> QED BY <3>1, <3>2
  <2>2. CASE ReadConfig(p)
    <3>1. job' = [job EXCEPT ![p].base = GetConfig] /\ job[p] \in Jobs
      BY <2>2 DEF ReadConfig
    <3>2. job' \in [Procs -> Jobs]
      BY <1>0, <3>1 DEF Jobs
    <3>3. \A q \in Procs : job'[q].cmd = job[q].cmd /\ job'[q].entry = job[q].entry
                             /\ job'[q].folder = job[q].folder
      BY <3>1 DEF Jobs
    <3>4. TypeOK'
      BY <2>2, <3>2 DEF ReadConfig
    <3>5. pc' = [pc EXCEPT ![p] = "truncate"] /\ pc[p] = "read"
      BY <2>2 DEF ReadConfig
    <3>6. JobAt(pc'[p], job'[p])
      BY <3>3, <3>5 DEF JobInv, JobAt
    <3>7. \A q \in Procs \ {p} : pc'[q] = pc[q] /\ job'[q] = job[q]
      BY <3>1, <3>5
    <3>8. JobInv'
      BY <3>6, <3>7 DEF JobInv
    <3> QED BY <3>4, <3>8
  <2>3. CASE Truncate(p)
    <3>1. TypeOK'
      BY <1>0, <2>3 DEF Truncate
    <3>2. JobInv'
      BY <2>3 DEF Truncate, JobInv, JobAt
    <3> QED BY <3>1, <3>2
  <2>4. CASE Write(p)
    <3>1. /\ job[p].entry \in Entries /\ job[p].base \in SUBSET Entries
          /\ job[p].cmd = "init" => job[p].folder \in Folders
      BY <1>0, HomeTypes, <2>4, StoreAssumption DEF Write, JobInv, JobAt, Entries
    <3>2. Changed(job[p].cmd, job[p].base, job[p].entry) \in SUBSET Entries
      BY <3>1 DEF Changed
    <3>3. file' \in Texts
      BY <2>4, <3>2, WriteAtType DEF Write
    <3>4. due' \subseteq Entries /\ stray' \subseteq Folders
      BY <2>4, <3>1 DEF Write
    <3>5. TypeOK'
      BY <2>0, <2>4, <3>3, <3>4 DEF Write
    <3>6. JobInv'
      BY <2>0, <2>4 DEF Write, JobInv, JobAt
    <3> QED BY <3>5, <3>6
  <2> QED BY <1>7, <2>1, <2>2, <2>3, <2>4 DEF Change
<1>8. ASSUME NEW p \in Procs, Stop(p) PROVE TypeOK' /\ JobInv'
  <2>1. stray' \subseteq Folders
    <3>1. job[p].cmd = "init" => job[p].folder \in Folders
      BY HomeTypes DEF JobInv, JobAt, Entries
    <3> QED BY <1>8, <3>1 DEF Stop
  <2>2. TypeOK'
    BY <1>8, <2>1, JobTypes DEF Stop
  <2>3. JobInv'
    BY <1>8 DEF Stop, JobInv, JobAt, NoJob, NewJob
  <2> QED BY <2>2, <2>3
<1>9. CASE UNCHANGED storeVars
  <2>1. TypeOK'
    BY <1>9 DEF storeVars
  <2>2. JobInv'
    BY <1>9 DEF storeVars, JobInv, JobAt
  <2> QED BY <2>1, <2>2
<1> QED
  BY <1>1, <1>2, <1>3, <1>4, <1>5, <1>6, <1>7, <1>8, <1>9
  DEF Next, Command, Moves, Lists, Creates

\* The step of one process.
Alone(p) == \A q \in Procs \ {p} : pc'[q] = pc[q] /\ job'[q] = job[q]

\* A process that does not write leaves the writers as they were.
LEMMA WriterKept ==
    ASSUME NEW p \in Procs, Alone(p), WriterInv, ~Writing(p), ~Writing(p)',
           file' = file, due' = due
    PROVE  WriterInv'
  BY DEF Alone, WriterInv, Quiet, Writing, Overlaps, GetConfig, Absent, Empty

\* What is remembered first stays.
LEMMA FirstMishap == [Next]_storeVars /\ hurt' = NoRace => hurt = NoRace
<1> SUFFICES ASSUME [Next]_storeVars, hurt' = NoRace PROVE hurt = NoRace
  OBVIOUS
<1> USE DEF NoRace, Race, Mishap
<1>1. ASSUME NEW p \in Procs, NEW n \in Names, NEW e \in Names, StartInit(p, n, e) \/ StartClear(p, n)
      PROVE  hurt = NoRace
  BY <1>1 DEF StartInit, StartClear
<1>2. ASSUME NEW p \in Procs, NEW l \in Logins, StartLogin(p, l) PROVE hurt = NoRace
  BY <1>2 DEF StartLogin
<1>3. ASSUME NEW p \in Procs, Moves(p) \/ Lists(p) \/ Creates(p) PROVE hurt = NoRace
  BY <1>3 DEF Moves, Lists, Creates, StartDown, DownDone, DeleteFolder, RegistryLogin,
              StartList, CheckInstance, ListDone, FileIsMissing, CreateFile, FillFile
<1>4. ASSUME NEW p \in Procs, Change(p) \/ Stop(p) PROVE hurt = NoRace
  BY <1>4 DEF Change, Stop, NothingToRemove, ReadConfig, Truncate, Write
<1> QED
  BY <1>1, <1>2, <1>3, <1>4 DEF Next, Command, Moves, Lists, Creates, storeVars

\* A step that is no mishap keeps the writers apart, and what is due in the file.
LEMMA StepMishap ==
    IInv /\ TypeOK' /\ JobInv' /\ [Next]_storeVars /\ hurt' = NoRace => WriterInv'
<1> SUFFICES ASSUME IInv, TypeOK', JobInv', [Next]_storeVars, hurt' = NoRace
             PROVE  WriterInv'
  OBVIOUS
<1>0. hurt = NoRace /\ TypeOK /\ JobInv /\ WriterInv
  BY FirstMishap DEF IInv
<1> USE <1>0
<1>1. ASSUME NEW p \in Procs, NEW n \in Names, NEW e \in Names, StartInit(p, n, e) PROVE WriterInv'
  BY <1>1, WriterKept DEF StartInit, Alone, Writing, TypeOK
<1>2. ASSUME NEW p \in Procs, NEW n \in Names, StartClear(p, n) PROVE WriterInv'
  BY <1>2, WriterKept DEF StartClear, Alone, Writing, TypeOK
<1>3. ASSUME NEW p \in Procs, NEW l \in Logins, StartLogin(p, l) PROVE WriterInv'
  BY <1>3, WriterKept DEF StartLogin, Alone, Writing, TypeOK
<1>4. ASSUME NEW p \in Procs, Moves(p) PROVE WriterInv'
  BY <1>4, WriterKept DEF Moves, Alone, Writing, TypeOK, StartDown, DownDone, DeleteFolder, RegistryLogin
<1>5. ASSUME NEW p \in Procs, Lists(p) PROVE WriterInv'
  BY <1>5, WriterKept DEF Lists, Alone, Writing, TypeOK, StartList, CheckInstance, ListDone
<1>6. ASSUME NEW p \in Procs, Creates(p) PROVE WriterInv'
  <2>1. Alone(p) /\ due' = due
    BY <1>6 DEF Creates, FileIsMissing, CreateFile, FillFile, Alone, TypeOK
  <2>2. CASE FileIsMissing(p)
    BY <2>1, <2>2, WriterKept DEF FileIsMissing, Writing, TypeOK
  <2>3. CASE CreateFile(p)
    <3>1. ~Overlaps(p) /\ GetConfig = {} /\ pc[p] = "create" /\ file' = Empty /\ pc' = [pc EXCEPT ![p] = "fill"]
      BY <2>3 DEF CreateFile, Mishap, NoRace, Race
    <3>2. Quiet
      BY <3>1 DEF Quiet, Overlaps, Writing
    <3>3. due = {}
      BY <3>1, <3>2 DEF WriterInv
    <3> QED BY <2>1, <3>1, <3>2, <3>3 DEF WriterInv, Quiet, Writing, Overlaps, TypeOK, Alone
  <2>4. CASE FillFile(p)
    <3>1. pc[p] = "fill" /\ pc' = [pc EXCEPT ![p] = "idle"] /\ file' = WriteAt(file, {})
      BY <2>4 DEF FillFile
    <3>2. file = Empty /\ ~Overlaps(p) /\ due = {}
      BY <3>1 DEF WriterInv, Writing
    <3>3. file' = Text({})
      BY <3>1, <3>2, WriteAtType DEF TypeOK
    <3>4. Quiet' /\ GetConfig' = due' /\ file'.whole
      BY <2>1, <3>1, <3>2, <3>3 DEF Quiet, Overlaps, Writing, GetConfig, Text, TypeOK, Alone
    <3> QED BY <3>4 DEF WriterInv, Quiet
  <2> QED BY <1>6, <2>2, <2>3, <2>4 DEF Creates
<1>7. ASSUME NEW p \in Procs, Change(p) PROVE WriterInv'
  <2>1. CASE NothingToRemove(p)
    <3>1. /\ ~Overlaps(p) /\ pc[p] = "read" /\ pc'[p] \in {"check", "idle"} /\ Alone(p)
          /\ job[p].cmd \in {"clear", "list"} /\ file' = file
      BY <2>1 DEF NothingToRemove, Mishap, NoRace, Race, Finished, FinishedJob, NoJob, NewJob, TypeOK, Alone
    <3>2. GetConfig = due
      BY <3>1 DEF WriterInv, Quiet, Overlaps, Writing
    <3>3. job[p].entry \in Names
      BY <3>1, StoreAssumption DEF JobInv, JobAt, Changing
    <3>4. due' = due
      BY <2>1, <3>2, <3>3 DEF NothingToRemove
    <3> QED BY <3>1, <3>4, WriterKept DEF Writing
  <2>2. CASE ReadConfig(p)
    <3>1. pc[p] = "read" /\ pc'[p] = "truncate" /\ Alone(p) /\ file' = file /\ due' = due
      BY <2>2 DEF ReadConfig, TypeOK, Alone
    <3> QED BY <3>1, WriterKept DEF Writing
  <2>3. CASE Truncate(p)
    <3>1. /\ ~Overlaps(p) /\ GetConfig = job[p].base /\ pc[p] = "truncate"
          /\ pc' = [pc EXCEPT ![p] = "write"] /\ Alone(p) /\ job' = job /\ file' = Empty /\ due' = due
      BY <2>3 DEF Truncate, Mishap, NoRace, Race, TypeOK, Alone
    <3>2. Quiet
      BY <3>1 DEF Quiet, Overlaps, Writing
    <3>3. due = job[p].base
      BY <3>1, <3>2 DEF WriterInv
    <3> QED BY <3>1, <3>2, <3>3 DEF WriterInv, Quiet, Writing, Overlaps, TypeOK, Alone
  <2>4. CASE Write(p)
    <3> DEFINE e == job[p].entry
               c == job[p].cmd
    <3>1. /\ pc[p] = "write" /\ pc'[p] \in {"check", "idle"} /\ Alone(p)
          /\ file' = WriteAt(file, Changed(c, job[p].base, e))
          /\ due' = IF c \in {"init", "login"} THEN due \cup {e} ELSE due \ {e}
      BY <2>4 DEF Write, Finished, FinishedJob, NoJob, NewJob, TypeOK, Alone
    <3>2. file = Empty /\ ~Overlaps(p) /\ job[p].base = due
      BY <3>1 DEF WriterInv, Writing
    <3>3. e \in Entries
      BY <3>1 DEF JobInv, JobAt, Changing, Entries
    <3>4. due' = Changed(c, due, e) /\ due' \in SUBSET Entries
      BY <3>1, <3>3 DEF Changed, TypeOK
    <3>5. file' = Text(due')
      BY <3>1, <3>2, <3>4, WriteAtType DEF TypeOK
    <3>6. \A q \in Procs \ {p} : ~Writing(q) /\ ~Writing(q)'
      BY <3>1, <3>2 DEF Overlaps, Writing, Alone
    <3> QED BY <3>1, <3>5, <3>6 DEF WriterInv, Quiet, Writing, GetConfig, Text
  <2> QED BY <1>7, <2>1, <2>2, <2>3, <2>4 DEF Change
<1>8. ASSUME NEW p \in Procs, Stop(p) PROVE WriterInv'
  <2>1. ~Writing(p) /\ Alone(p) /\ pc'[p] = "idle" /\ file' = file /\ due' = due
    BY <1>8 DEF Stop, Mishap, NoRace, Race, TypeOK, Alone
  <2> QED BY <2>1, WriterKept DEF Writing
<1>9. CASE UNCHANGED storeVars
  BY <1>9 DEF storeVars, WriterInv, Quiet, Writing, Overlaps, GetConfig
<1> QED
  BY <1>1, <1>2, <1>3, <1>4, <1>5, <1>6, <1>7, <1>8, <1>9
  DEF Next, Command, Moves, Lists, Creates

\* The inductive invariant of the store.
THEOREM StoreInvariant == Spec => []IInv
<1>1. IInv /\ [Next]_storeVars => IInv'
  BY StepType, StepMishap, FirstMishap DEF IInv
<1> QED BY <1>1, InitInvariant, PTL DEF Spec

\* config.json holds exactly what was entered and not removed under the same name,
\* unless a race or a failure has come before: whatever the names lead to.
THEOREM NothingLostUnnoticed == Spec => []LostOnlyByRaces
<1>1. IInv => LostOnlyByRaces
  BY DEF IInv, WriterInv, LostOnlyByRaces
<1> QED BY <1>1, StoreInvariant, PTL

\* config.json can be read whenever nobody writes it, unless a race or a failure has
\* come before.
THEOREM ReadableAtRest == Spec => []UnreadableHasCause
<1>1. IInv => UnreadableHasCause
  BY DEF IInv, WriterInv, UnreadableHasCause
<1> QED BY <1>1, StoreInvariant, PTL

-----------------------------------------------------------------------------
(***************************************************************************)
(* Folders and the names that list them, where the names agree.            *)
(***************************************************************************)
\* What an init enters leads to the folder it has written.
LEMMA InitEnters ==
    ASSUME NamesAgree, JobInv, NEW p \in Procs, job[p].cmd = "init"
    PROVE  job[p].entry \in Entered /\ Home[job[p].entry] = job[p].folder
  BY DEF NamesAgree, JobInv, JobAt, Enters, Entered

\* Folders stay listed as long as nothing that is due is dropped, no init forgets its
\* own, and a removal has not found the folder.
LEMMA FolderKept ==
    ASSUME NEW p \in Procs, Alone(p), FolderInv,
           folders' \subseteq folders, due \subseteq due', due' \cap Names \subseteq Entered, stray' = stray,
           \A f : InitOf(p, f) => InitOf(p, f)',
           job'[p].cmd \in {"list", "clear"} /\ pc'[p] \in Changing /\ job'[p].entry \in Entered
               => Home[job'[p].entry] \notin folders'
    PROVE  FolderInv'
<1>1. ASSUME NEW f \in folders' \ stray'
      PROVE  (\E n \in due' \cap Names : Home[n] = f) \/ \E q \in Procs : InitOf(q, f)'
  <2>1. (\E n \in due \cap Names : Home[n] = f) \/ \E q \in Procs : InitOf(q, f)
    BY <1>1 DEF FolderInv
  <2>2. CASE \E n \in due \cap Names : Home[n] = f
    BY <2>2
  <2>3. ASSUME NEW q \in Procs, InitOf(q, f)
        PROVE  (\E n \in due' \cap Names : Home[n] = f) \/ InitOf(q, f)'
    <3>1. CASE q = p
      BY <1>1, <2>3, <3>1
    <3>2. CASE q # p
      BY <2>3, <3>2 DEF Alone, InitOf
    <3> QED BY <3>1, <3>2
  <2> QED BY <2>1, <2>2, <2>3
<1>2. ASSUME NEW r \in Procs, job'[r].cmd \in {"list", "clear"}, job'[r].entry \in Entered
      PROVE  /\ pc'[r] \in {"read", "truncate"} => Home[job'[r].entry] \notin folders'
             /\ pc'[r] = "write" /\ Home[job'[r].entry] \in folders' =>
                   Home[job'[r].entry] \in stray' \/ \E q \in Procs : InitOf(q, Home[job[r].entry])'
  <2>1. CASE r = p
    BY <1>2, <2>1 DEF Changing
  <2>2. CASE r # p
    <3> DEFINE h == Home[job[r].entry]
    <3>1. pc'[r] = pc[r] /\ job'[r] = job[r]
      BY <2>2 DEF Alone
    <3>2. pc[r] \in {"read", "truncate"} => h \notin folders
      BY <1>2, <3>1 DEF FolderInv
    <3>3. pc[r] = "write" /\ h \in folders => h \in stray \/ \E q \in Procs : InitOf(q, h)
      BY <1>2, <3>1 DEF FolderInv
    <3>4. ASSUME pc[r] = "write", h \in folders, NEW q \in Procs, InitOf(q, h) PROVE InitOf(q, h)'
      <4>1. CASE q = p
        BY <3>1, <3>4, <4>1
      <4>2. CASE q # p
        <5>1. job'[q] = job[q]
          BY <4>2 DEF Alone
        <5> QED BY <3>1, <3>4, <5>1 DEF InitOf
      <4> QED BY <4>1, <4>2
    <3> QED BY <3>1, <3>2, <3>3, <3>4
  <2> QED BY <2>1, <2>2
<1> QED BY <1>1, <1>2 DEF FolderInv

\* A step that is no mishap keeps the folders listed.
LEMMA FolderStep ==
    NamesAgree /\ IInv /\ FolderInv /\ IInv' /\ [Next]_storeVars /\ hurt' = NoRace => FolderInv'
<1> SUFFICES ASSUME NamesAgree, IInv, FolderInv, IInv', [Next]_storeVars, hurt' = NoRace
             PROVE  FolderInv'
  OBVIOUS
<1>0. hurt = NoRace /\ TypeOK /\ JobInv /\ WriterInv /\ due \cap Names \subseteq Entered
  BY FirstMishap DEF IInv, FolderInv
<1> USE <1>0
<1>1. ASSUME NEW p \in Procs, NEW n \in Names, NEW e \in Names, StartInit(p, n, e) PROVE FolderInv'
  <2>1. ~\E q \in Procs : Removing(q, Home[n])
    BY <1>1 DEF StartInit, Mishap, NoRace, Race
  <2>2. /\ Alone(p) /\ folders' = folders \cup {Home[n]} /\ due' = due /\ stray' = stray
        /\ InitOf(p, Home[n])' /\ job'[p].cmd = "init" /\ \A f : ~InitOf(p, f)
    BY <1>1 DEF StartInit, Alone, TypeOK, NewJob, JobInv, JobAt, InitOf
  <2>3. ASSUME NEW f \in folders' \ stray'
        PROVE  (\E m \in due' \cap Names : Home[m] = f) \/ \E q \in Procs : InitOf(q, f)'
    BY <2>2, <2>3 DEF FolderInv, Alone, InitOf
  <2>4. ASSUME NEW r \in Procs, job'[r].cmd \in {"list", "clear"}, job'[r].entry \in Entered
        PROVE  /\ pc'[r] \in {"read", "truncate"} => Home[job'[r].entry] \notin folders'
               /\ pc'[r] = "write" /\ Home[job'[r].entry] \in folders' =>
                     Home[job'[r].entry] \in stray' \/ \E q \in Procs : InitOf(q, Home[job[r].entry])'
    <3>1. r # p /\ pc'[r] = pc[r] /\ job'[r] = job[r]
      BY <2>2, <2>4 DEF Alone
    <3>2. pc[r] \in {"read", "truncate"} => Home[job[r].entry] # Home[n]
      BY <2>1, <2>4, <3>1 DEF Removing
    <3> QED BY <2>2, <2>4, <3>1, <3>2 DEF FolderInv, Alone, InitOf
  <2> QED BY <2>2, <2>3, <2>4 DEF FolderInv
<1>2. ASSUME NEW p \in Procs, NEW n \in Names, StartClear(p, n) PROVE FolderInv'
  BY <1>2, FolderKept DEF StartClear, Alone, NewJob, TypeOK, JobInv, JobAt, Changing, InitOf
<1>3. ASSUME NEW p \in Procs, NEW l \in Logins, StartLogin(p, l) PROVE FolderInv'
  BY <1>3, FolderKept DEF StartLogin, Alone, NewJob, TypeOK, JobInv, JobAt, Changing, InitOf
<1>4. ASSUME NEW p \in Procs, Moves(p) PROVE FolderInv'
  <2>1. CASE DeleteFolder(p)
    <3>1. /\ job[p].cmd = "clear" /\ job[p].entry \in Clears /\ job[p].folder = Stored[job[p].entry]
          /\ job[p].folder # NoFolder
      BY <2>1 DEF DeleteFolder, JobInv, JobAt
    <3>2. job[p].entry \in Entered => Home[job[p].entry] \notin folders'
      BY <2>1, <3>1 DEF DeleteFolder, NamesAgree
    <3> QED BY <2>1, <3>1, <3>2, FolderKept DEF DeleteFolder, Alone, TypeOK, InitOf
  <2>2. CASE ~DeleteFolder(p)
    BY <1>4, <2>2, FolderKept
    DEF Moves, StartDown, DownDone, RegistryLogin, Alone, TypeOK, JobInv, JobAt, Changing, InitOf
  <2> QED BY <2>1, <2>2
<1>5. ASSUME NEW p \in Procs, Lists(p) PROVE FolderInv'
  BY <1>5, FolderKept
  DEF Lists, StartList, CheckInstance, ListDone, NewJob, NoJob, Alone, TypeOK, JobInv, JobAt, Changing, InitOf
<1>6. ASSUME NEW p \in Procs, Creates(p) PROVE FolderInv'
  <2> USE <1>6 DEF Creates, FileIsMissing, CreateFile, FillFile
  <2>1. /\ Alone(p) /\ folders' = folders /\ due' = due /\ stray' = stray
        /\ job[p].cmd \in {"none", "pull"} /\ job'[p].cmd \in {"none", "pull"}
    <3>1. Alone(p) /\ folders' = folders /\ due' = due /\ stray' = stray
      BY DEF Alone, TypeOK
    <3>2. pc[p] \in {"idle", "create", "fill"} /\ job[p].cmd \in {"none", "pull"}
      BY DEF JobInv, JobAt
    <3>3. CASE FileIsMissing(p)
      BY <3>1, <3>2, <3>3 DEF TypeOK, NewJob
    <3>4. CASE CreateFile(p)
      BY <3>1, <3>2, <3>4
    <3>5. CASE FillFile(p)
      BY <3>1, <3>2, <3>5 DEF TypeOK, NewJob, NoJob
    <3> QED BY <3>3, <3>4, <3>5
  <2>2. \A f : ~InitOf(p, f)
    BY <2>1 DEF InitOf
  <2> QED BY <2>1, <2>2, FolderKept
<1>7. ASSUME NEW p \in Procs, Change(p) PROVE FolderInv'
  <2>1. CASE NothingToRemove(p)
    <3>1. /\ ~Overlaps(p) /\ pc[p] = "read" /\ pc'[p] \in {"check", "idle"} /\ Alone(p)
          /\ job[p].cmd \in {"clear", "list"} /\ job'[p].cmd \in {"none", "list"}
          /\ folders' = folders /\ stray' = stray
      BY <2>1 DEF NothingToRemove, Mishap, NoRace, Race, Finished, FinishedJob, NoJob, NewJob, TypeOK, Alone
    <3>2. GetConfig = due
      BY <3>1 DEF WriterInv, Quiet, Overlaps, Writing
    <3>3. job[p].entry \in Names
      BY <3>1, StoreAssumption DEF JobInv, JobAt, Changing
    <3>4. due' = due
      BY <2>1, <3>2, <3>3 DEF NothingToRemove
    <3> QED BY <3>1, <3>4, FolderKept DEF Changing, InitOf
  <2>2. CASE ReadConfig(p)
    <3>1. /\ pc[p] = "read" /\ pc'[p] = "truncate" /\ Alone(p)
          /\ job' = [job EXCEPT ![p].base = GetConfig]
          /\ folders' = folders /\ stray' = stray /\ due' = due
      BY <2>2 DEF ReadConfig, TypeOK, Alone
    <3>2. job'[p].cmd = job[p].cmd /\ job'[p].entry = job[p].entry /\ job'[p].folder = job[p].folder
      BY <3>1 DEF TypeOK, Jobs
    <3>3. \A f : InitOf(p, f) => InitOf(p, f)'
      BY <3>2 DEF InitOf
    <3>4. job'[p].cmd \in {"list", "clear"} /\ job'[p].entry \in Entered => Home[job'[p].entry] \notin folders'
      BY <3>1, <3>2 DEF FolderInv
    <3> QED BY <3>1, <3>3, <3>4, FolderKept
  <2>3. CASE Truncate(p)
    <3>1. /\ pc[p] = "truncate" /\ Alone(p) /\ job' = job
          /\ folders' = folders /\ stray' = stray /\ due' = due
      BY <2>3 DEF Truncate, Mishap, NoRace, Race, TypeOK, Alone
    <3>2. job[p].cmd \in {"list", "clear"} /\ job[p].entry \in Entered => Home[job[p].entry] \notin folders
      BY <3>1 DEF FolderInv
    <3> QED BY <3>1, <3>2, FolderKept DEF InitOf
  <2>4. CASE Write(p)
    <3> DEFINE e == job[p].entry
               c == job[p].cmd
    <3>1. /\ pc[p] = "write" /\ pc'[p] \in {"check", "idle"} /\ Alone(p) /\ folders' = folders
          /\ job'[p].cmd \in {"none", "list"}
          /\ stray' = IF c = "init" THEN stray \ {job[p].folder} ELSE stray
          /\ due' = IF c \in {"init", "login"} THEN due \cup {e} ELSE due \ {e}
      BY <2>4 DEF Write, Finished, FinishedJob, NoJob, NewJob, TypeOK, Alone
    <3>2. \A q \in Procs \ {p} : ~Writing(q) /\ ~Writing(q)'
      BY <3>1 DEF WriterInv, Overlaps, Writing, Alone
    <3>3. ASSUME NEW r \in Procs, job'[r].cmd \in {"list", "clear"}, job'[r].entry \in Entered
          PROVE  pc'[r] # "write" /\ (pc'[r] \in {"read", "truncate"} => Home[job'[r].entry] \notin folders')
      BY <3>1, <3>2, <3>3 DEF FolderInv, Alone, Writing
    <3>4. CASE c = "init"
      <4>1. e \in Entered /\ e \in Names /\ Home[e] = job[p].folder
        BY <3>4, InitEnters DEF JobInv, JobAt
      <4>2. ASSUME NEW f \in folders' \ stray'
            PROVE  (\E n \in due' \cap Names : Home[n] = f) \/ \E q \in Procs : InitOf(q, f)'
        <5>1. CASE f = job[p].folder
          BY <3>1, <3>4, <4>1, <5>1
        <5>2. CASE f # job[p].folder
          BY <3>1, <3>4, <4>2, <5>2 DEF FolderInv, Alone, InitOf
        <5> QED BY <5>1, <5>2
      <4>3. due' \cap Names \subseteq Entered
        BY <3>1, <3>4, <4>1
      <4> QED BY <3>3, <4>2, <4>3 DEF FolderInv
    <3>5. CASE c = "login"
      <4>1. e \in Logins /\ e \notin Names
        BY <3>1, <3>5, StoreAssumption DEF JobInv, JobAt, Changing
      <4>2. ASSUME NEW f \in folders' \ stray'
            PROVE  (\E n \in due' \cap Names : Home[n] = f) \/ \E q \in Procs : InitOf(q, f)'
        BY <3>1, <3>5, <4>2 DEF FolderInv, Alone, InitOf
      <4>3. due' \cap Names \subseteq Entered
        BY <3>1, <3>5, <4>1
      <4> QED BY <3>3, <4>2, <4>3 DEF FolderInv
    <3>6. CASE c \notin {"init", "login"}
      <4>1. c \in {"list", "clear"} /\ e \in Names
        BY <3>1, <3>6 DEF JobInv, JobAt, Changing
      <4>2. ASSUME NEW f \in folders' \ stray'
            PROVE  (\E n \in due' \cap Names : Home[n] = f) \/ \E q \in Procs : InitOf(q, f)'
        <5>1. f \in folders \ stray
          BY <3>1, <3>6, <4>2
        <5>2. CASE \E q \in Procs : InitOf(q, f)
          BY <3>1, <3>6, <5>2 DEF Alone, InitOf
        <5>3. ASSUME NEW n \in due \cap Names, Home[n] = f, ~\E q \in Procs : InitOf(q, f) PROVE n \in due'
          <6>1. n = e => e \in Entered /\ Home[e] \in folders \ stray
            BY <5>1, <5>3
          <6>2. n # e
            BY <3>1, <4>1, <5>1, <5>3, <6>1 DEF FolderInv
          <6> QED BY <3>1, <3>6, <6>2
        <5> QED BY <5>1, <5>2, <5>3 DEF FolderInv
      <4>3. due' \cap Names \subseteq Entered
        BY <3>1, <3>6
      <4> QED BY <3>3, <4>2, <4>3 DEF FolderInv
    <3> QED BY <3>4, <3>5, <3>6
  <2> QED BY <1>7, <2>1, <2>2, <2>3, <2>4 DEF Change
<1>8. ASSUME NEW p \in Procs, Stop(p) PROVE FolderInv'
  <2>1. /\ Alone(p) /\ pc'[p] = "idle" /\ job'[p].cmd = "none" /\ folders' = folders /\ due' = due
        /\ stray' = IF job[p].cmd = "init" THEN stray \cup {job[p].folder} ELSE stray
    BY <1>8 DEF Stop, TypeOK, Alone, NoJob, NewJob
  <2>2. ASSUME NEW f \in folders' \ stray'
        PROVE  (\E n \in due' \cap Names : Home[n] = f) \/ \E q \in Procs : InitOf(q, f)'
    BY <2>1, <2>2 DEF FolderInv, Alone, InitOf
  <2>3. ASSUME NEW r \in Procs, job'[r].cmd \in {"list", "clear"}, job'[r].entry \in Entered
        PROVE  /\ pc'[r] \in {"read", "truncate"} => Home[job'[r].entry] \notin folders'
               /\ pc'[r] = "write" /\ Home[job'[r].entry] \in folders' =>
                     Home[job'[r].entry] \in stray' \/ \E q \in Procs : InitOf(q, Home[job[r].entry])'
    <3>1. r # p /\ pc'[r] = pc[r] /\ job'[r] = job[r]
      BY <2>1, <2>3 DEF Alone
    <3>2. ASSUME NEW q \in Procs, NEW f, InitOf(q, f) PROVE f \in stray' \/ InitOf(q, f)'
      BY <2>1, <3>2 DEF Alone, InitOf
    <3> QED BY <2>1, <2>3, <3>1, <3>2 DEF FolderInv
  <2> QED BY <2>1, <2>2, <2>3 DEF FolderInv
<1>9. CASE UNCHANGED storeVars
  BY <1>9 DEF storeVars, FolderInv, InitOf
<1> QED
  BY <1>1, <1>2, <1>3, <1>4, <1>5, <1>6, <1>7, <1>8, <1>9
  DEF Next, Command, Moves, Lists, Creates

\* Where inits enter names that lead to what they write, and clear deletes the folder
\* that a listed name leads to, a configuration on disk is listed.
THEOREM FoldersListed == ASSUME NamesAgree PROVE Spec => []FoldersAreListed
<1>1. Init => (hurt = NoRace => FolderInv)
  BY DEF Init, FolderInv, NoJob, NewJob
<1>2. (hurt = NoRace => FolderInv) /\ IInv /\ IInv' /\ [Next]_storeVars => (hurt = NoRace => FolderInv)'
  BY NamesAgree, FolderStep, FirstMishap
<1>3. (hurt = NoRace => FolderInv) => FoldersAreListed
  BY DEF FolderInv, FoldersAreListed, InitOf
<1> QED BY <1>1, <1>2, <1>3, StoreInvariant, PTL DEF Spec

-----------------------------------------------------------------------------
(***************************************************************************)
(* The process that is signalled.                                          *)
(***************************************************************************)
\* A compose command that is refused ends like one that fails: the signals add no step
\* to the store.
LEMMA StoreStep == IInv /\ [CliNext]_cliVars => [Next]_storeVars
<1> SUFFICES ASSUME IInv, [CliNext]_cliVars PROVE [Next]_storeVars
  OBVIOUS
<1>1. ASSUME NEW p \in Procs, CommandStep(p) PROVE Next
  BY <1>1 DEF CommandStep, Next
<1>2. ASSUME NEW p \in Signalled, NEW soon \in BOOLEAN, ForceQuit(p, soon) PROVE Next
  BY <1>2, CliAssumption DEF ForceQuit, Next
<1>3. ASSUME NEW p \in Signalled, DownRefused(p) PROVE Next
  <2>1. p \in Procs /\ job[p].cmd = "clear" /\ ~Writing(p)
    BY <1>3, CliAssumption DEF DownRefused, IInv, JobInv, JobAt, Writing
  <2>2. Stop(p)
    BY <1>3, <2>1 DEF DownRefused, Stop, Mishap
  <2> QED BY <2>1, <2>2 DEF Next
<1>4. ASSUME NEW p \in Signalled, NEW sig \in {SIGINT, SIGTERM}, SignalArrives(p, sig) PROVE UNCHANGED storeVars
  BY <1>4 DEF SignalArrives
<1>5. ASSUME NEW p \in Signalled, NEW soon \in BOOLEAN, TakeSignal(p, soon) PROVE UNCHANGED storeVars
  BY <1>5 DEF TakeSignal
<1>6. ASSUME NEW p \in Signalled, ShutdownDone(p) PROVE UNCHANGED storeVars
  BY <1>6 DEF ShutdownDone
<1>7. CASE UNCHANGED cliVars
  BY <1>7 DEF cliVars
<1> QED BY <1>1, <1>2, <1>3, <1>4, <1>5, <1>6, <1>7 DEF CliNext

\* Processes with their signals keep everything that is proved of the store.
THEOREM CliKeepsStore == CliSpec => Spec
<1>1. CliInit => Init
  BY DEF CliInit
<1>2. IInv /\ [CliNext]_cliVars => IInv'
  BY StoreStep, StepType, StepMishap, FirstMishap DEF IInv
<1> QED BY <1>1, <1>2, InitInvariant, StoreStep, PTL DEF CliSpec, Spec

\* What the signal goroutine sets has its types.
LEMMA HandlerTypes ==
    /\ Started \in Handlers /\ Counts(Started)
    /\ \A c \in Handlers : /\ c.sigChan \in Seq({SIGINT, SIGTERM}) /\ c.interruptCount \in Nat
                           /\ c.sent \in 0 .. MaxSignals /\ c.interrupted \in BOOLEAN
                           /\ c.ints \in Nat /\ c.row \in Nat /\ c.shutting \in BOOLEAN
<1>1. <<>> \in Seq({SIGINT, SIGTERM}) /\ 0 \in 0 .. MaxSignals
  BY CliAssumption
<1> QED BY <1>1 DEF Started, Handlers, Counts

\* A signal that arrives may be dropped when the channel is full.
LEMMA ArrivalCounts ==
    ASSUME CliTypeOK, NEW p \in Procs, NEW sig \in {SIGINT, SIGTERM}, Counts(cli[p]), SignalArrives(p, sig)
    PROVE  /\ cli' \in [Procs -> Handlers] /\ Counts(cli'[p])
           /\ \A q \in Procs \ {p} : cli'[q] = cli[q]
<1> DEFINE c == cli[p]
           chan == IF Len(c.sigChan) < 2 THEN Append(c.sigChan, sig) ELSE c.sigChan
<1>1. cli \in [Procs -> Handlers] /\ c \in Handlers
  BY DEF CliTypeOK
<1>2. chan \in Seq({SIGINT, SIGTERM}) /\ c.sent + 1 \in 0 .. MaxSignals
  BY <1>1, HandlerTypes, CliAssumption DEF SignalArrives
<1>3. cli' = [cli EXCEPT ![p].sent = c.sent + 1, ![p].sigChan = chan]
  BY DEF SignalArrives
<1> HIDE DEF chan
<1>4. cli' \in [Procs -> Handlers]
  BY <1>1, <1>2, <1>3 DEF Handlers
<1>5. cli'[p].interruptCount = c.interruptCount /\ cli'[p].ints = c.ints
  BY <1>1, <1>3 DEF Handlers
<1> QED BY <1>1, <1>3, <1>4, <1>5 DEF Counts

\* A SIGINT that is taken adds one at most to the count of its series.
LEMMA TakingCounts ==
    ASSUME CliTypeOK, NEW p \in Procs, NEW soon \in BOOLEAN, Counts(cli[p]), TakeSignal(p, soon)
    PROVE  /\ cli' \in [Procs -> Handlers] /\ Counts(cli'[p])
           /\ \A q \in Procs \ {p} : cli'[q] = cli[q]
<1> DEFINE c == cli[p]
           sig == Head(c.sigChan)
           n == IF sig = SIGINT THEN Count(p, soon) ELSE c.interruptCount
           i == IF sig = SIGINT THEN c.ints + 1 ELSE c.ints
           rw == Row(p, sig, soon)
<1>1. cli \in [Procs -> Handlers] /\ c \in Handlers
  BY DEF CliTypeOK
<1>2. /\ c.interruptCount \in Nat /\ c.ints \in Nat /\ c.row \in Nat /\ c.shutting \in BOOLEAN
      /\ Tail(c.sigChan) \in Seq({SIGINT, SIGTERM})
  <2>1. c.sigChan \in Seq({SIGINT, SIGTERM}) /\ c.sigChan # <<>>
    BY <1>1, HandlerTypes DEF TakeSignal
  <2> QED BY <1>1, <2>1, HandlerTypes
<1>3. n \in Nat /\ i \in Nat /\ rw \in Nat
  BY <1>2 DEF Count, Row
<1>4. n <= i
  BY <1>2 DEF Count, Counts
<1>5. cli' = [cli EXCEPT ![p].sigChan = Tail(c.sigChan), ![p].interrupted = TRUE,
                         ![p].interruptCount = n, ![p].ints = i, ![p].row = rw,
                         ![p].triggering = ~c.shutting, ![p].shutting = TRUE]
  BY DEF TakeSignal
<1> HIDE DEF n, i, rw, sig
<1>6. cli' \in [Procs -> Handlers]
  <2>1. [cli EXCEPT ![p].sigChan = Tail(c.sigChan)] \in [Procs -> Handlers]
    BY <1>1, <1>2 DEF Handlers
  <2>2. ASSUME NEW f \in [Procs -> Handlers]
        PROVE  [f EXCEPT ![p].interrupted = TRUE, ![p].interruptCount = n] \in [Procs -> Handlers]
    BY <1>3 DEF Handlers
  <2>3. ASSUME NEW f \in [Procs -> Handlers]
        PROVE  [f EXCEPT ![p].ints = i, ![p].row = rw] \in [Procs -> Handlers]
    BY <1>3 DEF Handlers
  <2>4. ASSUME NEW f \in [Procs -> Handlers], NEW b \in BOOLEAN
        PROVE  [f EXCEPT ![p].triggering = b, ![p].shutting = TRUE] \in [Procs -> Handlers]
    BY DEF Handlers
  <2>5. cli' = [[[[cli EXCEPT ![p].sigChan = Tail(c.sigChan)]
                      EXCEPT ![p].interrupted = TRUE, ![p].interruptCount = n]
                      EXCEPT ![p].ints = i, ![p].row = rw]
                      EXCEPT ![p].triggering = ~c.shutting, ![p].shutting = TRUE]
    BY <1>5
  <2>6. (~c.shutting) \in BOOLEAN
    OBVIOUS
  <2> HIDE DEF c
  <2> QED BY <2>1, <2>2, <2>3, <2>4, <2>5, <2>6
<1>7. Counts(cli'[p])
  <2>1. cli'[p].interruptCount = n /\ cli'[p].ints = i
    BY <1>1, <1>5 DEF Handlers
  <2> QED BY <1>4, <2>1 DEF Counts
<1> QED BY <1>5, <1>6, <1>7

\* A forced quit ends a series with a SIGINT in it.
LEMMA TheUserInsists ==
    ASSUME CliTypeOK, NEW p \in Procs, NEW soon \in BOOLEAN, Counts(cli[p]), ForceQuit(p, soon)
    PROVE  soon /\ cli[p].ints > 0
<1>1. cli[p].interruptCount \in Nat /\ cli[p].ints \in Nat
  BY HandlerTypes DEF CliTypeOK
<1>2. soon /\ cli[p].interruptCount + 1 >= 2
  BY DEF ForceQuit, ForcesQuit, Count
<1> QED BY <1>1, <1>2 DEF Counts

\* The handlers keep their types, and no write is cut that the user did not insist on.
LEMMA SignalStep ==
    CliTypeOK /\ SignalInv /\ [CliNext]_cliVars
        => cli' \in [Procs -> Handlers] /\ cut' \subseteq {"insisted", "unasked"} /\ SignalInv'
<1> SUFFICES ASSUME CliTypeOK, SignalInv, [CliNext]_cliVars
             PROVE  cli' \in [Procs -> Handlers] /\ cut' \subseteq {"insisted", "unasked"} /\ SignalInv'
  OBVIOUS
<1> DEFINE Kept == cli' \in [Procs -> Handlers] /\ (\A q \in Procs : Counts(cli'[q]))
                   /\ cut' \subseteq cut \cup {"insisted"}
<1>0. cli \in [Procs -> Handlers] /\ \A q \in Procs : Counts(cli[q])
  BY DEF CliTypeOK, SignalInv
<1>1. ASSUME NEW p \in Procs, CommandStep(p) PROVE Kept
  <2>1. cut' = cut /\ (cli' = cli \/ cli' = [cli EXCEPT ![p] = Started])
    BY <1>1 DEF CommandStep
  <2> QED BY <1>0, <2>1, HandlerTypes
<1>2. ASSUME NEW p \in Signalled, NEW sig \in {SIGINT, SIGTERM}, SignalArrives(p, sig) PROVE Kept
  <2>1. p \in Procs /\ cut' = cut
    BY <1>2, CliAssumption DEF SignalArrives
  <2> QED BY <1>0, <1>2, <2>1, ArrivalCounts
<1>3. ASSUME NEW p \in Signalled, NEW soon \in BOOLEAN, TakeSignal(p, soon) PROVE Kept
  <2>1. p \in Procs /\ cut' = cut
    BY <1>3, CliAssumption DEF TakeSignal
  <2> QED BY <1>0, <1>3, <2>1, TakingCounts
<1>4. ASSUME NEW p \in Signalled, NEW soon \in BOOLEAN, ForceQuit(p, soon) PROVE Kept
  <2>1. p \in Procs /\ cli' = [cli EXCEPT ![p] = Started]
    BY <1>4, CliAssumption DEF ForceQuit
  <2>2. soon /\ cli[p].ints > 0
    BY <1>0, <1>4, <2>1, TheUserInsists
  <2>3. cut' \subseteq cut \cup {"insisted"}
    BY <1>4, <2>2 DEF ForceQuit
  <2> QED BY <1>0, <2>1, <2>3, HandlerTypes
<1>5. ASSUME NEW p \in Signalled, ShutdownDone(p) PROVE Kept
  <2>1. cut' = cut /\ cli' = [cli EXCEPT ![p].triggering = FALSE]
    BY <1>5 DEF ShutdownDone
  <2>2. cli' \in [Procs -> Handlers]
    BY <1>0, <2>1 DEF Handlers
  <2>3. \A q \in Procs : Counts(cli'[q])
    BY <1>0, <2>1 DEF Handlers, Counts
  <2> QED BY <2>1, <2>2, <2>3
<1>6. ASSUME NEW p \in Signalled, DownRefused(p) PROVE Kept
  <2>1. p \in Procs /\ cut' = cut /\ cli' = [cli EXCEPT ![p] = Started]
    BY <1>6, CliAssumption DEF DownRefused
  <2> QED BY <1>0, <2>1, HandlerTypes
<1>7. ASSUME UNCHANGED cliVars PROVE Kept
  BY <1>0, <1>7 DEF cliVars
<1>8. Kept
  BY <1>1, <1>2, <1>3, <1>4, <1>5, <1>6, <1>7 DEF CliNext
<1> QED BY <1>8 DEF CliTypeOK, SignalInv, InterruptsLetWritesFinish

\* The signals' inductive invariant holds, with the types of both goroutines.
THEOREM CliInvariant == CliSpec => [](IInv /\ CliTypeOK /\ SignalInv)
<1>1. CliInit => IInv /\ CliTypeOK /\ SignalInv
  <2> SUFFICES ASSUME CliInit PROVE IInv /\ CliTypeOK /\ SignalInv
    OBVIOUS
  <2>1. IInv
    BY InitInvariant DEF CliInit
  <2>2. cli \in [Procs -> Handlers] /\ cut = {}
    BY HandlerTypes DEF CliInit
  <2>3. SignalInv
    BY HandlerTypes DEF CliInit, SignalInv, InterruptsLetWritesFinish
  <2> QED BY <2>1, <2>2, <2>3 DEF IInv, CliTypeOK
<1>2. IInv /\ CliTypeOK /\ SignalInv /\ [CliNext]_cliVars => (IInv /\ CliTypeOK /\ SignalInv)'
  BY StoreStep, StepType, StepMishap, FirstMishap, SignalStep DEF IInv, CliTypeOK
<1> QED BY <1>1, <1>2, PTL DEF CliSpec

\* Signals cut a write of config.json short only when the user insists, whatever the
\* number of processes and of signals.
THEOREM SignalsLetWritesFinish == CliSpec => []InterruptsLetWritesFinish
<1>1. SignalInv => InterruptsLetWritesFinish
  BY DEF SignalInv
<1> QED BY <1>1, CliInvariant, PTL
=============================================================================
