----------------------------- MODULE BackupStore -----------------------------
(***************************************************************************)
(* internal/backup/backup.go: the backups of one configuration, and        *)
(* handlers/config/clear.go, which deletes a configuration after backing   *)
(* it up.  A directory is copied and removed file by file; any step may    *)
(* fail and the process may die between any two steps.                     *)
(*                                                                         *)
(* A directory is its content, a function from file names to versions.     *)
(* The name of a backup is its kind and the second in which it was made.   *)
(***************************************************************************)
EXTENDS Integers, FiniteSets

CONSTANTS Procs,      \* the processes and request handlers that use the store
          Files,      \* the file names a configuration may contain
          Versions,   \* the contents a file may have
          Absent,     \* "no such file"; not a version
          Contents,   \* the configurations that SaveConfigTo writes
          Roles,      \* the commands each process issues
          MaxTime     \* bound on the commands that make a directory

Commands == {"save", "backup", "restore", "delete", "clear"}

Trees   == [Files -> Versions \cup {Absent}]
Nothing == [f \in Files |-> Absent]

ASSUME StoreAssumption ==
    /\ Absent \notin Versions
    /\ Contents \subseteq Trees \ {Nothing}
    /\ Contents # {}
    /\ Roles \in [Procs -> SUBSET Commands]
    /\ MaxTime \in Nat /\ MaxTime >= 1

Config   == [kind |-> "config", at |-> 0]
NoDir    == [kind |-> "none", at |-> 0]
Temp(t)  == [kind |-> "temp", at |-> t]

Types == {"auto", "manual"}                       \* BackupType
Dirs  == {Config} \cup [kind : Types \cup {"temp"}, at : 1 .. MaxTime]

VARIABLES
    dirs,     \* the directories that exist
    content,  \* what each holds; Nothing where there is no directory
    now,      \* the second in which the next such command starts
    pc,       \* where each process is
    job,      \* the local variables of each process
    taken,    \* history: the configuration each finished backup is a copy of
    deleted,  \* history: the backups somebody has begun to delete
    owed      \* history: the configurations whose destruction has begun

storeVars == <<dirs, content, now, pc, job, taken, deleted, owed>>

Copying  == {"backup", "keep", "restore", "recover", "clear backup"}
Removing == {"remove", "clean", "delete", "clear"}

NoJob == [src |-> NoDir, dst |-> NoDir, left |-> {}, target |-> NoDir,
          temp |-> NoDir, before |-> Nothing]

TypeOK ==
    /\ dirs \subseteq Dirs
    /\ content \in [Dirs -> Trees]
    /\ \A d \in Dirs \ dirs : content[d] = Nothing
    /\ now \in 1 .. MaxTime + 1
    /\ pc \in [Procs -> {"idle", "found", "down"} \cup Copying \cup Removing]
    /\ job \in [Procs -> [src : Dirs \cup {NoDir}, dst : Dirs \cup {NoDir},
                          left : SUBSET Files, target : Dirs \cup {NoDir},
                          temp : Dirs \cup {NoDir}, before : Trees]]
    /\ taken \in [Dirs -> Trees]
    /\ deleted \subseteq Dirs
    /\ owed \subseteq Trees

\* A configuration, and the backup that was made of it or an earlier one.
First == [kind |-> "manual", at |-> 1]

Init ==
    /\ dirs = {Config, First}
    /\ \E c, b \in Contents :
          /\ content = [d \in Dirs |-> CASE d = Config -> c [] d = First -> b [] OTHER -> Nothing]
          /\ taken = [d \in Dirs |-> IF d = First THEN b ELSE Nothing]
    /\ now = 2
    /\ pc = [p \in Procs |-> "idle"]
    /\ job = [p \in Procs |-> NoJob]
    /\ deleted = {}
    /\ owed = {}

Present(d) == {f \in Files : content[d][f] # Absent}

\* ListBackups shows directories named <date>_<time>_<type>; "temp_..." has no
\* type in its third field and is skipped.
ListBackups == {d \in dirs : d.kind \in Types}

\* The backup with the timestamp.
Find(t) == {d \in ListBackups : d.at = t}

-----------------------------------------------------------------------------
Starts(p, command) ==
    /\ pc[p] = "idle"
    /\ command \in Roles[p]

\* Commands that name a directory after the clock, whose resolution is one
\* second: each is assumed to start in a second of its own.
StartsNow(p, command) ==
    /\ Starts(p, command)
    /\ now <= MaxTime
    /\ now' = now + 1

\* cp.Copy: make the destination, list the source, then copy file by file.
\* A destination that exists already is merged into.
BeginCopy(p, src, dst, j, label) ==
    /\ src \in dirs
    /\ dirs' = dirs \cup {dst}
    /\ job' = [job EXCEPT ![p] = [j EXCEPT !.src = src, !.dst = dst, !.left = Present(src)]]
    /\ pc' = [pc EXCEPT ![p] = label]

CopyFile(p) ==
    /\ pc[p] \in Copying
    /\ job[p].dst \in dirs
    /\ \E f \in job[p].left \cap Present(job[p].src) :
          /\ content' = [content EXCEPT ![job[p].dst][f] = content[job[p].src][f]]
          /\ job' = [job EXCEPT ![p].left = @ \ {f}]
    /\ UNCHANGED <<dirs, now, pc, taken, deleted, owed>>

Copied(p, label) == pc[p] = label /\ job[p].left = {}

\* os.RemoveAll: the files one by one, at last the directory.
RemoveFile(p) ==
    /\ pc[p] \in Removing
    /\ \E f \in Present(job[p].dst) : content' = [content EXCEPT ![job[p].dst][f] = Absent]
    /\ UNCHANGED <<dirs, now, pc, job, taken, deleted, owed>>

\* Mutant: the directory goes from the list with files in it.
RemovedEarly(p, label) ==
    /\ pc[p] = label
    /\ dirs' = dirs \ {job[p].dst}

Removed(p, label) ==
    /\ pc[p] = label
    /\ Present(job[p].dst) = {}
    /\ dirs' = dirs \ {job[p].dst}

Goto(p, label) == pc' = [pc EXCEPT ![p] = label]
Return(p) ==
    /\ Goto(p, "idle")
    /\ job' = [job EXCEPT ![p] = NoJob]

-----------------------------------------------------------------------------
(***************************************************************************)
(* SaveConfigTo, by "compose init", "config set", an editor: here one step.*)
(***************************************************************************)
SaveConfig(p) ==
    /\ Starts(p, "save")
    /\ dirs' = dirs \cup {Config}
    /\ \E c \in Contents : content' = [content EXCEPT ![Config] = c]
    /\ UNCHANGED <<now, pc, job, taken, deleted, owed>>

(***************************************************************************)
(* CreateBackup, by "backup create"; Clear makes an automatic one.         *)
(***************************************************************************)
StartCreate(p) ==
    /\ StartsNow(p, "backup")
    /\ BeginCopy(p, Config, [kind |-> "manual", at |-> now],
                 [NoJob EXCEPT !.before = content[Config]], "backup")
    /\ UNCHANGED <<content, taken, deleted, owed>>

CreateDone(p) ==
    /\ Copied(p, "backup")
    /\ taken' = [taken EXCEPT ![job[p].dst] = job[p].before]
    /\ Return(p)
    /\ UNCHANGED <<dirs, content, now, deleted, owed>>

(***************************************************************************)
(* RestoreBackup.                                                          *)
(***************************************************************************)
StartRestore(p) ==
    /\ StartsNow(p, "restore")
    /\ \E t \in 1 .. MaxTime : \E target \in Find(t) :
          LET j == [NoJob EXCEPT !.target = target, !.before = content[Config]]
          IN  IF Config \in dirs
              THEN BeginCopy(p, Config, Temp(now), [j EXCEPT !.temp = Temp(now)], "keep")
              ELSE /\ job' = [job EXCEPT ![p] = j]
                   /\ Goto(p, "found")
                   /\ UNCHANGED dirs
    /\ UNCHANGED <<content, taken, deleted, owed>>

\* Mutant: the removal does not wait for the temporary copy.
RemoveCurrentEarly(p) ==
    /\ pc[p] = "keep"
    /\ Goto(p, "remove")
    /\ job' = [job EXCEPT ![p].dst = Config]
    /\ owed' = owed \cup {job[p].before}
    /\ UNCHANGED <<dirs, content, now, taken, deleted>>

\* From here on the configuration is in the temporary copy only.
RemoveCurrent(p) ==
    /\ Copied(p, "keep")
    /\ Goto(p, "remove")
    /\ job' = [job EXCEPT ![p].dst = Config]
    /\ owed' = owed \cup {job[p].before}
    /\ UNCHANGED <<dirs, content, now, taken, deleted>>

\* Mutant: the backup is merged into the current configuration.
CurrentKept(p) ==
    /\ pc[p] = "remove"
    /\ Goto(p, "found")
    /\ UNCHANGED <<dirs, content, now, job, taken, deleted, owed>>

CurrentRemoved(p) ==
    /\ Removed(p, "remove")
    /\ Goto(p, "found")
    /\ UNCHANGED <<content, now, job, taken, deleted, owed>>

CopyTarget(p) ==
    /\ pc[p] = "found"
    /\ BeginCopy(p, job[p].target, Config, job[p], "restore")
    /\ UNCHANGED <<content, now, taken, deleted, owed>>

\* Mutant: the restored backup is cleaned up instead of the temporary copy.
TargetCopiedAndGone(p) ==
    /\ Copied(p, "restore")
    /\ owed' = owed \ {job[p].before}
    /\ Goto(p, "clean")
    /\ job' = [job EXCEPT ![p].dst = job[p].target]
    /\ UNCHANGED <<dirs, content, now, taken, deleted>>

TargetCopied(p) ==
    /\ Copied(p, "restore")
    /\ owed' = owed \ {job[p].before}
    /\ IF job[p].temp = NoDir
       THEN Return(p)
       ELSE /\ Goto(p, "clean")
            /\ job' = [job EXCEPT ![p].dst = job[p].temp]
    /\ UNCHANGED <<dirs, content, now, taken, deleted>>

TempRemoved(p) ==
    /\ Removed(p, "clean")
    /\ Return(p)
    /\ UNCHANGED <<content, now, taken, deleted, owed>>

\* The copy of the backup failed: copy the temporary copy back.
Recover(p) ==
    /\ pc[p] \in {"found", "restore"}
    /\ job[p].temp # NoDir
    /\ BeginCopy(p, job[p].temp, Config, job[p], "recover")
    /\ UNCHANGED <<content, now, taken, deleted, owed>>

\* It is left behind, also when everything has been copied back.
Recovered(p) ==
    /\ Copied(p, "recover")
    /\ Return(p)
    /\ UNCHANGED <<dirs, content, now, taken, deleted, owed>>

(***************************************************************************)
(* DeleteBackup.                                                           *)
(***************************************************************************)
StartDelete(p) ==
    /\ Starts(p, "delete")
    /\ \E t \in 1 .. MaxTime : \E target \in Find(t) :
          /\ job' = [job EXCEPT ![p] = [NoJob EXCEPT !.target = target, !.dst = target]]
          /\ deleted' = deleted \cup {target}
          /\ owed' = owed \ {content[target]}
    /\ Goto(p, "delete")
    /\ UNCHANGED <<dirs, content, now, taken>>

DeleteDone(p) ==
    /\ Removed(p, "delete")
    /\ Return(p)
    /\ UNCHANGED <<content, now, taken, deleted, owed>>

(***************************************************************************)
(* Clear: automatic backup, "compose down", delete the folder.             *)
(***************************************************************************)
StartClear(p) ==
    /\ StartsNow(p, "clear")
    /\ BeginCopy(p, Config, [kind |-> "auto", at |-> now],
                 [NoJob EXCEPT !.before = content[Config], !.target = [kind |-> "auto", at |-> now]],
                 "clear backup")
    /\ UNCHANGED <<content, taken, deleted, owed>>

ClearBackedUp(p) ==
    /\ Copied(p, "clear backup")
    /\ taken' = [taken EXCEPT ![job[p].dst] = job[p].before]
    /\ Goto(p, "down")
    /\ UNCHANGED <<dirs, content, now, job, deleted, owed>>

\* A backup that failed does not stop Clear: nothing is owed then, nor when
\* somebody is deleting the backup already.
DeleteFolder(p) ==
    /\ pc[p] = "down"
    /\ Goto(p, "clear")
    /\ job' = [job EXCEPT ![p].dst = Config]
    /\ owed' = IF job[p].target \in deleted \cup {NoDir}
               THEN owed
               ELSE owed \cup {job[p].before}
    /\ UNCHANGED <<dirs, content, now, taken, deleted>>

ClearDone(p) ==
    /\ Removed(p, "clear")
    /\ Return(p)
    /\ UNCHANGED <<content, now, taken, deleted, owed>>

ClearBackupFails(p) ==
    /\ pc[p] = "clear backup"
    /\ Goto(p, "down")
    /\ job' = [job EXCEPT ![p].target = NoDir]
    /\ UNCHANGED <<dirs, content, now, taken, deleted, owed>>

\* A step fails and the command returns its error, or the process dies.
Stop(p) ==
    /\ pc[p] # "idle"
    /\ Return(p)
    /\ UNCHANGED <<dirs, content, now, taken, deleted, owed>>

-----------------------------------------------------------------------------
CreateBackup(p)  == StartCreate(p) \/ CreateDone(p)
RestoreBackup(p) ==
    \/ StartRestore(p) \/ RemoveCurrent(p) \/ CurrentRemoved(p) \/ CopyTarget(p)
    \/ TargetCopied(p) \/ TempRemoved(p) \/ Recover(p) \/ Recovered(p)
DeleteBackup(p)  == StartDelete(p) \/ DeleteDone(p)
Clear(p) ==
    \/ StartClear(p) \/ ClearBackedUp(p) \/ ClearBackupFails(p)
    \/ DeleteFolder(p) \/ ClearDone(p)

Next ==
    \E p \in Procs :
        \/ SaveConfig(p) \/ CreateBackup(p) \/ RestoreBackup(p) \/ DeleteBackup(p)
        \/ Clear(p) \/ CopyFile(p) \/ RemoveFile(p) \/ Stop(p)

Spec == Init /\ [][Next]_storeVars

-----------------------------------------------------------------------------
(***************************************************************************)
(* Properties.                                                             *)
(***************************************************************************)
\* A configuration that RestoreBackup or Clear has begun to remove is not lost,
\* whatever step fails and wherever the process dies: it is there, complete, in
\* the configuration folder, a temporary copy or a backup.
NothingLost == \A c \in owed : \E d \in dirs : content[d] = c

\* Finished, and nobody has asked for its deletion.
Sound(d) == d \in Dirs /\ taken[d] # Nothing /\ d \notin deleted

\* What a successful RestoreBackup leaves is the configuration that was backed
\* up and nothing else: no file of the previous configuration or of an
\* interrupted attempt survives.
RestoreIsExact ==
    \A p \in Procs : Copied(p, "restore") /\ Sound(job[p].target) =>
        content[Config] = taken[job[p].target]

\* A backup that was reported as created is, until it is deleted, the
\* configuration it was made from: no later command writes into it.
BackupsAreFrozen == \A d \in Dirs : Sound(d) => content[d] = taken[d]

\* "Restore failed, attempting to restore previous configuration"
\* (RestoreBackup): once the temporary copy is copied back, the configuration
\* is what it was before.
FailedRestoreIsUndone ==
    \A p \in Procs : Copied(p, "recover") => content[Config] = job[p].before
=============================================================================
