-------------------------- MODULE BackupStoreProofs ---------------------------
(***************************************************************************)
(* Theorems about BackupStore, for any files, contents and times, any      *)
(* number of processes that delete backups, and one that does everything.  *)
(* (Two that copy at the same time make backups of what neither wrote.)    *)
(***************************************************************************)
EXTENDS BackupStore, TLAPS

\* The others only delete backups.
OneUser(u) == \A p \in Procs \ {u} : Roles[p] \subseteq {"delete"}

-----------------------------------------------------------------------------
(***************************************************************************)
(* The inductive invariant.                                                *)
(***************************************************************************)
StoreTypes ==
    /\ dirs \subseteq Dirs
    /\ content \in [Dirs -> Trees] /\ taken \in [Dirs -> Trees]
    /\ \A d \in Dirs \ dirs : content[d] = Nothing
    /\ now \in Nat \ {0}
    /\ DOMAIN pc = Procs /\ DOMAIN job = Procs
    /\ \A p \in Procs : DOMAIN job[p] = DOMAIN NoJob
    /\ deleted \subseteq Dirs

\* No name is used before its second.
Fresh == \A d \in Dirs : d.at >= now => d \notin dirs /\ d \notin deleted /\ taken[d] = Nothing

\* Only backups are finished, or deleted.
OnlyBackups == \A d \in Dirs : taken[d] # Nothing \/ d \in deleted => d.kind \in Types

\* A finished backup stays where it is and what it is until somebody deletes it.
Frozen == \A d \in Dirs : Sound(d) => d \in dirs /\ content[d] = taken[d]

Deleters == \A p \in Procs : pc[p] = "delete" => job[p].dst \in deleted

\* What has been copied, but for the files that are left.
Partial(tree, whole, left) == \A f \in Files : tree[f] = IF f \in left THEN Absent ELSE whole[f]

\* What the user's command knows of the folder and of its copies, at each step s.
BackupInv(s, j) ==
    s \in {"backup", "clear backup"} =>
       /\ j.dst \in Dirs /\ j.dst.kind \in Types /\ j.dst.at < now
       /\ taken[j.dst] = Nothing
       /\ j.src = Config /\ j.before = content[Config]
       /\ s = "clear backup" => j.target = j.dst
       /\ j.dst \in deleted \/ (j.dst \in dirs /\ Partial(content[j.dst], j.before, j.left))

ClearInv(s, j) ==
    /\ s = "down" =>
          \/ j.target = NoDir
          \/ /\ j.target \in Dirs /\ j.target.kind \in Types
             /\ j.target \in deleted \/ (j.target \in dirs /\ content[j.target] = j.before)
    /\ s = "clear" => j.dst = Config

KeepInv(s, j) ==
    /\ s = "keep" => /\ j.dst = j.temp /\ j.temp \in dirs /\ j.temp.kind = "temp"
                     /\ j.src = Config /\ j.before = content[Config]
                     /\ Partial(content[j.temp], j.before, j.left)
    /\ s \in {"remove", "found", "restore"} /\ j.temp # NoDir =>
          j.temp \in dirs /\ j.temp.kind = "temp" /\ content[j.temp] = j.before
    /\ s = "remove" => j.dst = Config
    /\ s = "clean" => j.dst \in dirs /\ j.dst.kind = "temp"

RestoreInv(s, j) ==
    /\ s = "found" => Config \notin dirs
    /\ s = "restore" => /\ j.dst = Config /\ j.src = j.target /\ j.src \in Dirs
                        /\ Sound(j.target) => Partial(content[Config], taken[j.target], j.left)
    /\ s = "recover" => j.dst = Config /\ j.src \in Dirs

UserInv(s, j) == BackupInv(s, j) /\ ClearInv(s, j) /\ KeepInv(s, j) /\ RestoreInv(s, j)

\* A directory that holds a configuration somebody began to remove, and that nobody
\* is changing.
Keeper(u, d, c) ==
    /\ d \in dirs \ deleted /\ d # Config /\ content[d] = c
    /\ pc[u] \in Copying \cup Removing => job[u].dst # d

Kept(u) == \A c \in owed : \E d \in dirs : Keeper(u, d, c)

Others(u) == \A p \in Procs \ {u} : pc[p] \in {"idle", "delete"}

IInv(u) ==
    /\ StoreTypes /\ Fresh /\ OnlyBackups /\ Frozen /\ Deleters /\ Others(u)
    /\ UserInv(pc[u], job[u]) /\ Kept(u)

-----------------------------------------------------------------------------
(***************************************************************************)
(* Names, and the local variables of a command.                            *)
(***************************************************************************)
\* The configuration, the backups and the temporary copies have different names.
LEMMA Names ==
    /\ Config \in Dirs /\ Config.kind = "config" /\ Config.at = 0 /\ NoDir \notin Dirs
    /\ \A d \in Dirs : d.at \in Nat
    /\ \A t \in 1 .. MaxTime :
          /\ Temp(t) \in Dirs /\ Temp(t).kind = "temp" /\ Temp(t).at = t /\ Temp(t) # NoDir
          /\ \A k \in Types : /\ [kind |-> k, at |-> t] \in Dirs /\ [kind |-> k, at |-> t] # NoDir
                              /\ [kind |-> k, at |-> t].kind = k /\ [kind |-> k, at |-> t].at = t
    /\ "config" \notin Types /\ "temp" \notin Types /\ {"auto", "manual"} = Types
  BY DEF Config, NoDir, Temp, Dirs, Types

Fields == {"src", "dst", "left", "target", "temp", "before"}

\* The fields of the local variables, whatever they hold.
LEMMA NoJobShape ==
    /\ DOMAIN NoJob = Fields
    /\ NoJob.target = NoDir /\ NoJob.temp = NoDir
  BY DEF NoJob, Fields

\* What a copy starts with.
LEMMA CopyJob ==
    ASSUME NEW j, DOMAIN j = Fields, NEW src, NEW dst
    PROVE  LET k == [j EXCEPT !.src = src, !.dst = dst, !.left = Present(src)]
           IN  /\ DOMAIN k = Fields
               /\ k.src = src /\ k.dst = dst /\ k.left = Present(src)
               /\ k.target = j.target /\ k.temp = j.temp /\ k.before = j.before
  BY DEF Fields

\* What a removal starts with.
LEMMA RemoveJob ==
    ASSUME NEW j, DOMAIN j = Fields, NEW dst
    PROVE  LET k == [j EXCEPT !.dst = dst]
           IN  /\ DOMAIN k = Fields /\ k.dst = dst
               /\ k.src = j.src /\ k.left = j.left
               /\ k.target = j.target /\ k.temp = j.temp /\ k.before = j.before
  BY DEF Fields

\* A tree with nothing left to copy is whole, and one with everything left is empty.
LEMMA PartialTrees ==
    ASSUME NEW a \in Trees, NEW b \in Trees
    PROVE  /\ Partial(a, b, {}) => a = b
           /\ Partial(Nothing, b, {f \in Files : b[f] # Absent})
  BY DEF Partial, Trees, Nothing

\* A command of the user moves on: the others do not notice.
LEMMA UserMoves ==
    ASSUME NEW u \in Procs, StoreTypes, Others(u), Deleters, NEW s, NEW j, DOMAIN j = Fields,
           pc' = [pc EXCEPT ![u] = s], job' = [job EXCEPT ![u] = j],
           deleted \subseteq deleted', s = "delete" => j.dst \in deleted'
    PROVE  /\ pc'[u] = s /\ job'[u] = j
           /\ DOMAIN pc' = Procs /\ DOMAIN job' = Procs
           /\ \A p \in Procs : DOMAIN job'[p] = DOMAIN NoJob
           /\ Others(u)' /\ Deleters'
<1> USE NoJobShape
<1>1. /\ pc'[u] = s /\ job'[u] = j
      /\ DOMAIN pc' = Procs /\ DOMAIN job' = Procs
      /\ \A p \in Procs \ {u} : pc'[p] = pc[p] /\ job'[p] = job[p]
  BY DEF StoreTypes
<1> QED BY <1>1 DEF StoreTypes, Others, Deleters

-----------------------------------------------------------------------------
(***************************************************************************)
(* Steps that leave the directories alone.                                 *)
(***************************************************************************)
\* The store itself, without what its users know of it.
StoreInv(u) == StoreTypes /\ Fresh /\ OnlyBackups /\ Frozen /\ Deleters /\ Others(u)

LEMMA SameStore ==
    ASSUME NEW u \in Procs, StoreInv(u), NEW s, s # "delete", NEW j, DOMAIN j = Fields,
           pc' = [pc EXCEPT ![u] = s], job' = [job EXCEPT ![u] = j],
           UNCHANGED <<dirs, content, now, taken, deleted>>
    PROVE  StoreInv(u)' /\ pc'[u] = s /\ job'[u] = j
<1>1. /\ pc'[u] = s /\ job'[u] = j /\ DOMAIN pc' = Procs /\ DOMAIN job' = Procs
      /\ \A p \in Procs : DOMAIN job'[p] = DOMAIN NoJob
      /\ Others(u)' /\ Deleters'
  BY UserMoves DEF StoreInv
<1>2. StoreTypes' /\ Fresh' /\ OnlyBackups' /\ Frozen'
  BY <1>1 DEF StoreInv, StoreTypes, Fresh, OnlyBackups, Frozen, Sound
<1> QED BY <1>1, <1>2 DEF StoreInv

\* What is owed and kept, stays kept when neither the copies nor the user's hand are
\* put on them.
LEMMA StillKept ==
    ASSUME NEW u \in Procs, Kept(u), owed' \subseteq owed,
           dirs' = dirs, deleted' = deleted, content' = content,
           pc'[u] \in Copying \cup Removing => job'[u].dst = Config
    PROVE  Kept(u)'
  BY DEF Kept, Keeper

\* A command that is over, or has failed, or was killed.
LEMMA ReturnKeeps ==
    ASSUME NEW u \in Procs, IInv(u), Stop(u) \/ Recovered(u)
    PROVE  IInv(u)'
<1>1. /\ pc' = [pc EXCEPT ![u] = "idle"] /\ job' = [job EXCEPT ![u] = NoJob]
      /\ UNCHANGED <<dirs, content, now, taken, deleted>> /\ owed' = owed
  BY DEF Stop, Recovered, Return, Goto
<1>2. StoreInv(u)' /\ pc'[u] = "idle"
  BY <1>1, SameStore, NoJobShape DEF IInv, StoreInv
<1>3. Kept(u)'
  BY <1>1, <1>2, StillKept DEF IInv, Copying, Removing
<1> QED BY <1>2, <1>3 DEF IInv, StoreInv, UserInv, BackupInv, ClearInv, KeepInv, RestoreInv

\* RestoreBackup: the temporary copy is complete when the folder begins to go.
LEMMA RemoveCurrentKeeps ==
    ASSUME NEW u \in Procs, IInv(u), RemoveCurrent(u)
    PROVE  IInv(u)'
<1> DEFINE j == [job[u] EXCEPT !.dst = Config]
<1>1. pc[u] = "keep" /\ job[u].left = {} /\ owed' = owed \cup {job[u].before}
      /\ UNCHANGED <<dirs, content, now, taken, deleted>>
  BY DEF RemoveCurrent, Copied
<1>2. DOMAIN job[u] = Fields
  BY NoJobShape DEF IInv, StoreTypes
<1>3. pc' = [pc EXCEPT ![u] = "remove"] /\ job' = [job EXCEPT ![u] = j]
  BY DEF RemoveCurrent, Goto, IInv, StoreTypes
<1>4. DOMAIN j = Fields /\ j.dst = Config /\ j.temp = job[u].temp /\ j.before = job[u].before
  BY <1>2, RemoveJob
<1> HIDE DEF j
<1>5. StoreInv(u)' /\ pc'[u] = "remove" /\ job'[u] = j
  BY <1>1, <1>3, <1>4, SameStore DEF IInv, StoreInv
<1>6. /\ job[u].temp \in dirs \ deleted /\ job[u].temp.kind = "temp"
      /\ content[job[u].temp] = job[u].before
  <2>1. /\ job[u].temp \in dirs /\ job[u].temp.kind = "temp" /\ job[u].before = content[Config]
        /\ Partial(content[job[u].temp], job[u].before, {})
    BY <1>1 DEF IInv, UserInv, KeepInv
  <2>2. content[job[u].temp] \in Trees /\ content[Config] \in Trees
    BY <2>1, Names DEF IInv, StoreTypes
  <2> QED BY <2>1, <2>2, PartialTrees, Names DEF IInv, OnlyBackups, StoreTypes
<1>7. UserInv(pc[u], job[u])'
  BY <1>1, <1>4, <1>5, <1>6 DEF UserInv, BackupInv, ClearInv, KeepInv, RestoreInv
<1>8. Kept(u)'
  <2>1. ASSUME NEW d, d = job[u].temp, NEW c, c = job[u].before
        PROVE  Keeper(u, d, c)'
    BY <2>1, <1>1, <1>4, <1>5, <1>6, Names DEF Keeper
  <2>2. \A c \in owed, d \in dirs : Keeper(u, d, c) => Keeper(u, d, c)'
    BY <1>1, <1>4, <1>5 DEF Keeper
  <2> QED BY <1>1, <1>6, <2>1, <2>2 DEF IInv, Kept
<1> QED BY <1>5, <1>7, <1>8 DEF IInv, StoreInv

\* RestoreBackup: the backup is copied, and the temporary copy is no longer needed.
LEMMA TargetCopiedKeeps ==
    ASSUME NEW u \in Procs, IInv(u), TargetCopied(u)
    PROVE  IInv(u)'
<1>1. pc[u] = "restore" /\ owed' = owed \ {job[u].before}
      /\ UNCHANGED <<dirs, content, now, taken, deleted>>
  BY DEF TargetCopied, Copied
<1>2. CASE job[u].temp = NoDir
  <2>1. pc' = [pc EXCEPT ![u] = "idle"] /\ job' = [job EXCEPT ![u] = NoJob]
    BY <1>2 DEF TargetCopied, Return, Goto
  <2>2. StoreInv(u)' /\ pc'[u] = "idle"
    BY <1>1, <2>1, SameStore, NoJobShape DEF IInv, StoreInv
  <2>3. Kept(u)'
    BY <1>1, <2>2, StillKept DEF IInv, Copying, Removing
  <2> QED BY <2>2, <2>3 DEF IInv, StoreInv, UserInv, BackupInv, ClearInv, KeepInv, RestoreInv
<1>3. CASE job[u].temp # NoDir
  <2> DEFINE j == [job[u] EXCEPT !.dst = job[u].temp]
  <2>1. DOMAIN job[u] = Fields
    BY NoJobShape DEF IInv, StoreTypes
  <2>2. pc' = [pc EXCEPT ![u] = "clean"] /\ job' = [job EXCEPT ![u] = j]
    BY <1>3 DEF TargetCopied, Goto, IInv, StoreTypes
  <2>3. DOMAIN j = Fields /\ j.dst = job[u].temp
    BY <2>1, RemoveJob
  <2> HIDE DEF j
  <2>4. StoreInv(u)' /\ pc'[u] = "clean" /\ job'[u] = j
    BY <1>1, <2>2, <2>3, SameStore DEF IInv, StoreInv
  <2>5. /\ job[u].temp \in dirs /\ job[u].temp.kind = "temp" /\ content[job[u].temp] = job[u].before
    BY <1>1, <1>3 DEF IInv, UserInv, KeepInv
  <2>6. UserInv(pc[u], job[u])'
    BY <1>1, <2>3, <2>4, <2>5 DEF UserInv, BackupInv, ClearInv, KeepInv, RestoreInv
  <2>7. Kept(u)'
    <3>1. \A c \in owed', d \in dirs : Keeper(u, d, c) => Keeper(u, d, c)'
      BY <1>1, <2>3, <2>4, <2>5 DEF Keeper
    <3> QED BY <1>1, <3>1 DEF IInv, Kept
  <2> QED BY <2>4, <2>6, <2>7 DEF IInv, StoreInv
<1> QED BY <1>2, <1>3

\* Clear: the backup failed.
LEMMA ClearBackupFailsKeeps ==
    ASSUME NEW u \in Procs, IInv(u), ClearBackupFails(u)
    PROVE  IInv(u)'
<1> DEFINE j == [job[u] EXCEPT !.target = NoDir]
<1>1. pc[u] = "clear backup" /\ UNCHANGED <<dirs, content, now, taken, deleted>> /\ owed' = owed
  BY DEF ClearBackupFails
<1>2. DOMAIN job[u] = Fields
  BY NoJobShape DEF IInv, StoreTypes
<1>3. pc' = [pc EXCEPT ![u] = "down"] /\ job' = [job EXCEPT ![u] = j]
  BY DEF ClearBackupFails, Goto, IInv, StoreTypes
<1>4. DOMAIN j = Fields /\ j.target = NoDir
  BY <1>2 DEF Fields
<1> HIDE DEF j
<1>5. StoreInv(u)' /\ pc'[u] = "down" /\ job'[u] = j
  BY <1>1, <1>3, <1>4, SameStore DEF IInv, StoreInv
<1>6. Kept(u)'
  BY <1>1, <1>5, StillKept DEF IInv, Copying, Removing
<1> QED BY <1>4, <1>5, <1>6 DEF IInv, StoreInv, UserInv, BackupInv, ClearInv, KeepInv, RestoreInv

\* Clear: the folder begins to go, and the backup holds it, unless there is none.
LEMMA DeleteFolderKeeps ==
    ASSUME NEW u \in Procs, IInv(u), DeleteFolder(u)
    PROVE  IInv(u)'
<1> DEFINE j == [job[u] EXCEPT !.dst = Config]
<1>1. pc[u] = "down" /\ UNCHANGED <<dirs, content, now, taken, deleted>>
      /\ owed' = IF job[u].target \in deleted \cup {NoDir} THEN owed ELSE owed \cup {job[u].before}
  BY DEF DeleteFolder
<1>2. DOMAIN job[u] = Fields
  BY NoJobShape DEF IInv, StoreTypes
<1>3. pc' = [pc EXCEPT ![u] = "clear"] /\ job' = [job EXCEPT ![u] = j]
  BY DEF DeleteFolder, Goto, IInv, StoreTypes
<1>4. DOMAIN j = Fields /\ j.dst = Config
  BY <1>2, RemoveJob
<1> HIDE DEF j
<1>5. StoreInv(u)' /\ pc'[u] = "clear" /\ job'[u] = j
  BY <1>1, <1>3, <1>4, SameStore DEF IInv, StoreInv
<1>6. UserInv(pc[u], job[u])'
  BY <1>4, <1>5 DEF UserInv, BackupInv, ClearInv, KeepInv, RestoreInv
<1>7. Kept(u)'
  <2>1. \A c \in owed, d \in dirs : Keeper(u, d, c) => Keeper(u, d, c)'
    BY <1>1, <1>4, <1>5 DEF Keeper
  <2>2. ASSUME job[u].target \notin deleted \cup {NoDir},
               NEW d, d = job[u].target, NEW c, c = job[u].before
        PROVE  d \in dirs /\ Keeper(u, d, c)'
    BY <2>2, <1>1, <1>4, <1>5, Names DEF IInv, UserInv, ClearInv, Keeper
  <2> QED BY <1>1, <2>1, <2>2 DEF IInv, Kept
<1> QED BY <1>5, <1>6, <1>7 DEF IInv, StoreInv

-----------------------------------------------------------------------------
(***************************************************************************)
(* Copies begin.                                                           *)
(***************************************************************************)
\* The clock of the commands that make a directory.
Tick == now' = now + 1

\* A name that is given now.
New(dst) == dst \in Dirs /\ dst.at = now /\ dst.kind # "config"

\* A directory that is named after the clock is new.
LEMMA FreshCopy ==
    ASSUME NEW u \in Procs, IInv(u), Tick, NEW dst, New(dst),
           NEW s, s # "delete", NEW j, DOMAIN j = Fields, j.dst = dst,
           pc' = [pc EXCEPT ![u] = s], job' = [job EXCEPT ![u] = j],
           dirs' = dirs \cup {dst}, UNCHANGED <<content, taken, deleted, owed>>
    PROVE  StoreInv(u)' /\ Kept(u)'
<1>1. /\ pc'[u] = s /\ job'[u] = j /\ DOMAIN pc' = Procs /\ DOMAIN job' = Procs
      /\ \A p \in Procs : DOMAIN job'[p] = DOMAIN NoJob
      /\ Others(u)' /\ Deleters'
  BY UserMoves DEF IInv
<1>2. now \in Nat \ {0} /\ now' \in Nat \ {0} /\ \A d \in Dirs : d.at >= now' => d.at >= now /\ d # dst
  BY Names DEF IInv, StoreTypes, Tick, New
<1>3. dst \notin dirs /\ dst \notin deleted /\ content[dst] = Nothing /\ taken[dst] = Nothing
  BY <1>2 DEF IInv, Fresh, StoreTypes, New
<1>4. StoreTypes'
  BY <1>1, <1>2 DEF IInv, StoreTypes, New
<1>5. Fresh' /\ OnlyBackups'
  BY <1>2 DEF IInv, Fresh, OnlyBackups, New
<1>6. Frozen'
  BY DEF IInv, Frozen, Sound
<1>7. Kept(u)'
  BY <1>1, <1>3 DEF IInv, Kept, Keeper, New
<1> QED BY <1>1, <1>3, <1>4, <1>5, <1>6, <1>7 DEF StoreInv

\* How it begins.
Began(u, dst, j, s) ==
    /\ pc'[u] = s /\ dst \in dirs' /\ taken[dst] = Nothing
    /\ job'[u].src = Config /\ job'[u].dst = dst
    /\ job'[u].target = j.target /\ job'[u].temp = j.temp /\ job'[u].before = j.before
    /\ Partial(content[dst], content[Config], job'[u].left)

\* The copy of the configuration into it begins.
LEMMA BeginFresh ==
    ASSUME NEW u \in Procs, IInv(u), Tick, NEW dst, New(dst),
           NEW s, s # "delete", NEW j, DOMAIN j = Fields, BeginCopy(u, Config, dst, j, s),
           UNCHANGED <<content, taken, deleted, owed>>
    PROVE  StoreInv(u)' /\ Kept(u)' /\ Began(u, dst, j, s)
<1> DEFINE k == [j EXCEPT !.src = Config, !.dst = dst, !.left = Present(Config)]
<1>1. /\ DOMAIN k = Fields /\ k.src = Config /\ k.dst = dst /\ k.left = Present(Config)
      /\ k.target = j.target /\ k.temp = j.temp /\ k.before = j.before
  BY CopyJob
<1>2. dirs' = dirs \cup {dst} /\ pc' = [pc EXCEPT ![u] = s] /\ job' = [job EXCEPT ![u] = k]
  BY DEF BeginCopy
<1> HIDE DEF k
<1>3. PICK l : l = k
  OBVIOUS
<1>8. DOMAIN l = Fields /\ l.dst = dst /\ job' = [job EXCEPT ![u] = l]
  BY <1>1, <1>2, <1>3
<1>4. StoreInv(u)' /\ Kept(u)'
  BY <1>2, <1>8, FreshCopy
<1>6. content[dst] = Nothing /\ taken[dst] = Nothing
  BY DEF IInv, Fresh, StoreTypes, New
<1>7. pc'[u] = s /\ job'[u] = l
  BY <1>2, <1>8 DEF IInv, StoreTypes
<1>5. Partial(Nothing, content[Config], Present(Config))
  BY DEF Partial, Present, Nothing
<1> QED BY <1>1, <1>2, <1>3, <1>4, <1>5, <1>6, <1>7 DEF Began

\* Time is a second of its own.
LEMMA ItsOwnSecond ==
    ASSUME NEW p \in Procs, NEW command, StoreTypes, StartsNow(p, command)
    PROVE  now \in 1 .. MaxTime /\ Tick /\ now < now'
  BY StoreAssumption DEF StartsNow, StoreTypes, Tick

\* CreateBackup and Clear: a new backup holds nothing yet of what is to be copied.
LEMMA BackupBegins ==
    ASSUME NEW u \in Procs, IInv(u), NEW command, StartsNow(u, command), NEW kind \in Types,
           NEW dst, dst = [kind |-> kind, at |-> now],
           NEW s \in {"backup", "clear backup"}, NEW j, DOMAIN j = Fields,
           j.before = content[Config], s = "clear backup" => j.target = dst,
           BeginCopy(u, Config, dst, j, s), UNCHANGED <<content, taken, deleted, owed>>
    PROVE  IInv(u)'
<1>1. now \in 1 .. MaxTime /\ Tick /\ now < now'
  BY ItsOwnSecond DEF IInv
<1>2. dst \in Dirs /\ dst.kind = kind /\ dst.at = now /\ New(dst)
  BY <1>1, Names DEF New
<1>3. StoreInv(u)' /\ Kept(u)' /\ Began(u, dst, j, s)
  BY <1>1, <1>2, BeginFresh
<1>4. BackupInv(pc[u], job[u])'
  BY <1>1, <1>2, <1>3 DEF BackupInv, Began
<1> QED BY <1>3, <1>4 DEF IInv, StoreInv, Began, UserInv, ClearInv, KeepInv, RestoreInv

\* CreateBackup begins.
LEMMA StartCreateKeeps ==
    ASSUME NEW u \in Procs, IInv(u), StartCreate(u)
    PROVE  IInv(u)'
<1>1. PICK j : j = [NoJob EXCEPT !.before = content[Config]]
  OBVIOUS
<1>2. DOMAIN j = Fields /\ j.before = content[Config]
  BY <1>1 DEF NoJob, Fields
<1>3. PICK dst : dst = [kind |-> "manual", at |-> now]
  OBVIOUS
<1>4. StartsNow(u, "backup") /\ BeginCopy(u, Config, dst, j, "backup")
      /\ UNCHANGED <<content, taken, deleted, owed>>
  BY <1>1, <1>3 DEF StartCreate
<1>5. "manual" \in Types /\ "backup" \in {"backup", "clear backup"} /\ "backup" # "clear backup"
  BY Names
<1> QED BY <1>2, <1>3, <1>4, <1>5, BackupBegins, Zenon

\* Clear begins.
LEMMA StartClearKeeps ==
    ASSUME NEW u \in Procs, IInv(u), StartClear(u)
    PROVE  IInv(u)'
<1>1. PICK dst : dst = [kind |-> "auto", at |-> now]
  OBVIOUS
<1>2. PICK j : j = [NoJob EXCEPT !.before = content[Config], !.target = dst]
  OBVIOUS
<1>3. DOMAIN j = Fields /\ j.before = content[Config] /\ j.target = dst
  BY <1>2 DEF NoJob, Fields
<1>4. StartsNow(u, "clear") /\ BeginCopy(u, Config, dst, j, "clear backup")
      /\ UNCHANGED <<content, taken, deleted, owed>>
  BY <1>1, <1>2 DEF StartClear
<1>5. "auto" \in Types /\ "clear backup" \in {"backup", "clear backup"}
  BY Names
<1> QED BY <1>1, <1>3, <1>4, <1>5, BackupBegins, Zenon

\* RestoreBackup: the temporary copy begins, unless there is no configuration.
LEMMA StartRestoreKeeps ==
    ASSUME NEW u \in Procs, IInv(u), StartRestore(u)
    PROVE  IInv(u)'
<1> PICK target \in ListBackups :
       LET j == [NoJob EXCEPT !.target = target, !.before = content[Config]]
       IN  IF Config \in dirs
           THEN BeginCopy(u, Config, Temp(now), [j EXCEPT !.temp = Temp(now)], "keep")
           ELSE /\ job' = [job EXCEPT ![u] = j]
                /\ Goto(u, "found")
                /\ UNCHANGED dirs
  BY DEF StartRestore, Find
<1>1. /\ now \in 1 .. MaxTime /\ Tick
      /\ UNCHANGED <<content, taken, deleted, owed>>
  BY ItsOwnSecond DEF StartRestore, IInv
<1>2. CASE Config \in dirs
  <2>1. PICK temp : temp = Temp(now)
    OBVIOUS
  <2>2. temp \in Dirs /\ temp.kind = "temp" /\ temp.at = now /\ New(temp)
    BY <1>1, <2>1, Names DEF New
  <2>3. PICK j : j = [[NoJob EXCEPT !.target = target, !.before = content[Config]] EXCEPT !.temp = temp]
    OBVIOUS
  <2>4. DOMAIN j = Fields /\ j.before = content[Config] /\ j.temp = temp
    BY <2>3 DEF NoJob, Fields
  <2>5. BeginCopy(u, Config, temp, j, "keep")
    BY <1>2, <2>1, <2>3
  <2>6. StoreInv(u)' /\ Kept(u)' /\ Began(u, temp, j, "keep")
    BY <1>1, <2>2, <2>4, <2>5, BeginFresh
  <2>7. KeepInv(pc[u], job[u])'
    BY <1>1, <2>2, <2>4, <2>6 DEF KeepInv, Began
  <2> QED BY <2>6, <2>7 DEF IInv, StoreInv, Began, UserInv, BackupInv, ClearInv, RestoreInv
<1>3. CASE Config \notin dirs
  <2> DEFINE j == [NoJob EXCEPT !.target = target, !.before = content[Config]]
  <2>1. DOMAIN j = Fields /\ j.temp = NoDir
    BY DEF NoJob, Fields
  <2>2. pc' = [pc EXCEPT ![u] = "found"] /\ job' = [job EXCEPT ![u] = j] /\ dirs' = dirs
    BY <1>3 DEF Goto
  <2> HIDE DEF j
  <2>3. /\ pc'[u] = "found" /\ job'[u] = j
        /\ DOMAIN pc' = Procs /\ DOMAIN job' = Procs
        /\ \A p \in Procs : DOMAIN job'[p] = DOMAIN NoJob
        /\ Others(u)' /\ Deleters'
    BY <1>1, <2>1, <2>2, UserMoves DEF IInv
  <2>4. now \in Nat \ {0} /\ now' \in Nat \ {0} /\ \A d \in Dirs : d.at >= now' => d.at >= now
    BY <1>1, Names DEF Tick
  <2>5. StoreTypes' /\ OnlyBackups' /\ Frozen' /\ Fresh'
    BY <1>1, <2>2, <2>3, <2>4 DEF IInv, StoreTypes, OnlyBackups, Frozen, Sound, Fresh
  <2>6. UserInv(pc[u], job[u])'
    BY <1>3, <2>1, <2>2, <2>3 DEF UserInv, BackupInv, ClearInv, KeepInv, RestoreInv
  <2>7. Kept(u)'
    BY <1>1, <2>2, <2>3, StillKept DEF IInv, Copying, Removing
  <2> QED BY <2>3, <2>5, <2>6, <2>7 DEF IInv
<1> QED BY <1>2, <1>3

\* A copy into the configuration folder.
LEMMA IntoFolder ==
    ASSUME NEW u \in Procs, IInv(u), NEW s, s # "delete", NEW j, DOMAIN j = Fields, j.dst = Config,
           pc' = [pc EXCEPT ![u] = s], job' = [job EXCEPT ![u] = j],
           dirs' = dirs \cup {Config}, UNCHANGED <<content, now, taken, deleted, owed>>
    PROVE  StoreInv(u)' /\ Kept(u)' /\ pc'[u] = s /\ job'[u] = j
<1>1. /\ pc'[u] = s /\ job'[u] = j /\ DOMAIN pc' = Procs /\ DOMAIN job' = Procs
      /\ \A p \in Procs : DOMAIN job'[p] = DOMAIN NoJob
      /\ Others(u)' /\ Deleters'
  BY UserMoves DEF IInv
<1>2. StoreTypes' /\ OnlyBackups' /\ Frozen'
  BY <1>1, Names DEF IInv, StoreTypes, OnlyBackups, Frozen, Sound
<1>3. Fresh'
  BY Names DEF IInv, Fresh, StoreTypes
<1>4. Kept(u)'
  BY <1>1 DEF IInv, Kept, Keeper
<1> QED BY <1>1, <1>2, <1>3, <1>4 DEF StoreInv

\* RestoreBackup: the folder is empty when the backup is copied into it.
LEMMA CopyTargetKeeps ==
    ASSUME NEW u \in Procs, IInv(u), CopyTarget(u)
    PROVE  IInv(u)'
<1> DEFINE k == [job[u] EXCEPT !.src = job[u].target, !.dst = Config, !.left = Present(job[u].target)]
<1>1. /\ pc[u] = "found" /\ job[u].target \in dirs /\ dirs' = dirs \cup {Config}
      /\ UNCHANGED <<content, now, taken, deleted, owed>>
      /\ pc' = [pc EXCEPT ![u] = "restore"] /\ job' = [job EXCEPT ![u] = k]
  BY DEF CopyTarget, BeginCopy
<1>2. DOMAIN job[u] = Fields
  BY NoJobShape DEF IInv, StoreTypes
<1>3. /\ DOMAIN k = Fields /\ k.src = job[u].target /\ k.dst = Config /\ k.left = Present(job[u].target)
      /\ k.target = job[u].target /\ k.temp = job[u].temp /\ k.before = job[u].before
  BY <1>2, CopyJob
<1> HIDE DEF k
<1>4. StoreInv(u)' /\ Kept(u)' /\ pc'[u] = "restore" /\ job'[u] = k
  BY <1>1, <1>3, IntoFolder
<1>5. Sound(job[u].target) => Partial(content[Config], taken[job[u].target], Present(job[u].target))
  <2>1. content[Config] = Nothing
    BY <1>1, Names DEF IInv, UserInv, RestoreInv, StoreTypes
  <2>2. Sound(job[u].target) => taken[job[u].target] = content[job[u].target]
    BY <1>1 DEF IInv, Frozen, StoreTypes
  <2> QED BY <2>1, <2>2 DEF Partial, Present, Nothing
<1>6. UserInv(pc[u], job[u])'
  <2>1. KeepInv(pc[u], job[u])'
    BY <1>1, <1>3, <1>4 DEF IInv, UserInv, KeepInv
  <2>2. RestoreInv(pc[u], job[u])'
    BY <1>1, <1>3, <1>4, <1>5 DEF IInv, StoreTypes, RestoreInv, Sound
  <2> QED BY <1>4, <2>1, <2>2 DEF UserInv, BackupInv, ClearInv
<1> QED BY <1>4, <1>6 DEF IInv, StoreInv

\* RestoreBackup: the temporary copy is copied back.
LEMMA RecoverKeeps ==
    ASSUME NEW u \in Procs, IInv(u), Recover(u)
    PROVE  IInv(u)'
<1> DEFINE k == [job[u] EXCEPT !.src = job[u].temp, !.dst = Config, !.left = Present(job[u].temp)]
<1>1. /\ job[u].temp \in dirs /\ dirs' = dirs \cup {Config}
      /\ UNCHANGED <<content, now, taken, deleted, owed>>
      /\ pc' = [pc EXCEPT ![u] = "recover"] /\ job' = [job EXCEPT ![u] = k]
  BY DEF Recover, BeginCopy
<1>2. DOMAIN job[u] = Fields
  BY NoJobShape DEF IInv, StoreTypes
<1>3. DOMAIN k = Fields /\ k.src = job[u].temp /\ k.dst = Config
  BY <1>2, CopyJob
<1> HIDE DEF k
<1>4. StoreInv(u)' /\ Kept(u)' /\ pc'[u] = "recover" /\ job'[u] = k
  BY <1>1, <1>3, IntoFolder
<1>5. UserInv(pc[u], job[u])'
  BY <1>1, <1>3, <1>4 DEF IInv, StoreTypes, UserInv, BackupInv, ClearInv, KeepInv, RestoreInv
<1> QED BY <1>4, <1>5 DEF IInv, StoreInv

-----------------------------------------------------------------------------
(***************************************************************************)
(* Files are copied and removed, and what is finished is recorded.         *)
(***************************************************************************)
\* Only the user copies.
LEMMA OnlyUserCopies ==
    ASSUME NEW u \in Procs, NEW p \in Procs, IInv(u), pc[p] \notin {"idle", "delete"}
    PROVE  p = u
  BY DEF IInv, Others

\* One more file of a copy.
LEMMA PartialStep ==
    ASSUME NEW a \in Trees, NEW b \in Trees, NEW left, NEW f \in left, f \in Files, Partial(a, b, left)
    PROVE  Partial([a EXCEPT ![f] = b[f]], b, left \ {f})
  BY DEF Partial, Trees

\* What the user is copying to or removing is no backup that is finished, unless
\* somebody is deleting it, and is no name of later.
LEMMA UnsoundTarget ==
    ASSUME NEW u \in Procs, IInv(u), pc[u] \in Copying \cup Removing,
           pc[u] \in Copying => job[u].dst \in dirs
    PROVE  job[u].dst \in Dirs /\ ~Sound(job[u].dst)
<1>1. CASE pc[u] \in {"backup", "clear backup"}
  BY <1>1 DEF IInv, UserInv, BackupInv, Sound
<1>2. CASE pc[u] \in {"keep", "clean"}
  BY <1>2, Names DEF IInv, UserInv, KeepInv, Sound, OnlyBackups, StoreTypes
<1>3. CASE pc[u] \in {"restore", "recover", "remove", "clear"}
  BY <1>3, Names DEF IInv, UserInv, KeepInv, RestoreInv, ClearInv, Sound, OnlyBackups, StoreTypes
<1>4. CASE pc[u] = "delete"
  BY <1>4 DEF IInv, Deleters, Sound, StoreTypes
<1> QED BY <1>1, <1>2, <1>3, <1>4 DEF Copying, Removing

\* A file of one directory changes.
Change(d, f, v)  == content' = [content EXCEPT ![d][f] = v]
Changed(d, f, v) ==
    /\ content'[d] = [content[d] EXCEPT ![f] = v]
    /\ \A e \in Dirs \ {d} : content'[e] = content[e]

LEMMA OneFile ==
    ASSUME NEW u \in Procs, StoreInv(u), NEW d \in dirs, ~Sound(d), NEW f \in Files,
           NEW v \in Versions \cup {Absent}, Change(d, f, v),
           UNCHANGED <<dirs, now, pc, taken, deleted>>, DOMAIN job' = Procs,
           \A p \in Procs : DOMAIN job'[p] = DOMAIN NoJob /\ job'[p].dst = job[p].dst
    PROVE  StoreInv(u)' /\ Changed(d, f, v)
<1>1. d \in Dirs /\ content \in [Dirs -> Trees] /\ content[d] \in Trees
  BY DEF StoreInv, StoreTypes
<1>2. content'[d] = [content[d] EXCEPT ![f] = v] /\ \A e \in Dirs \ {d} : content'[e] = content[e]
  BY <1>1 DEF Change
<1>3. [content[d] EXCEPT ![f] = v] \in Trees
  BY <1>1 DEF Trees
<1>4. content' \in [Dirs -> Trees]
  BY <1>1, <1>3 DEF Change
<1>5. StoreTypes'
  BY <1>2, <1>4 DEF StoreInv, StoreTypes
<1>6. Fresh' /\ OnlyBackups' /\ Deleters' /\ Others(u)'
  BY DEF StoreInv, Fresh, OnlyBackups, Deleters, Others
<1>7. Frozen'
  BY <1>2 DEF StoreInv, Frozen, Sound
<1> QED BY <1>2, <1>5, <1>6, <1>7 DEF StoreInv, Changed

\* cp.Copy: one more file.
LEMMA CopyFileKeeps ==
    ASSUME NEW u \in Procs, IInv(u), CopyFile(u)
    PROVE  IInv(u)'
<1>1. PICK f \in job[u].left \cap Present(job[u].src) :
         /\ content' = [content EXCEPT ![job[u].dst][f] = content[job[u].src][f]]
         /\ job' = [job EXCEPT ![u].left = @ \ {f}]
  BY DEF CopyFile
<1>2. pc[u] \in Copying /\ job[u].dst \in dirs /\ UNCHANGED <<dirs, now, pc, taken, deleted, owed>>
  BY DEF CopyFile
<1>3. /\ job'[u].src = job[u].src /\ job'[u].dst = job[u].dst /\ job'[u].left = job[u].left \ {f}
      /\ job'[u].target = job[u].target /\ job'[u].temp = job[u].temp /\ job'[u].before = job[u].before
      /\ DOMAIN job' = Procs /\ \A p \in Procs : DOMAIN job'[p] = DOMAIN NoJob
      /\ \A p \in Procs \ {u} : job'[p] = job[p]
  <2>1. DOMAIN job = Procs /\ \A p \in Procs : DOMAIN job[p] = Fields
    BY NoJobShape DEF IInv, StoreTypes
  <2> QED BY <1>1, <2>1, NoJobShape DEF Fields
<1>4. PICK dst, src, left, before :
         dst = job[u].dst /\ src = job[u].src /\ left = job[u].left /\ before = job[u].before
  OBVIOUS
<1>5. src \in Dirs
  BY <1>2, <1>4, Names DEF IInv, UserInv, BackupInv, KeepInv, RestoreInv, Copying
<1>6. f \in Files /\ content[src] \in Trees /\ content[src][f] \in Versions \cup {Absent}
  BY <1>1, <1>4, <1>5 DEF Present, IInv, StoreTypes, Trees
<1>7. dst \in Dirs /\ dst \in dirs /\ ~Sound(dst)
  BY <1>2, <1>4, UnsoundTarget
<1>8. PICK v \in Versions \cup {Absent} : v = content[src][f]
  BY <1>6
<1>9. /\ StoreInv(u)'
      /\ content'[dst] = [content[dst] EXCEPT ![f] = content[src][f]]
      /\ \A e \in Dirs \ {dst} : content'[e] = content[e]
  <2>1. StoreInv(u) /\ Change(dst, f, v)
    BY <1>1, <1>4, <1>8 DEF IInv, StoreInv, Change
  <2>2. \A p \in Procs : DOMAIN job'[p] = DOMAIN NoJob /\ job'[p].dst = job[p].dst
    BY <1>3
  <2>3. StoreInv(u)' /\ Changed(dst, f, v)
    BY <1>2, <1>3, <1>6, <1>7, <2>1, <2>2, OneFile
  <2> QED BY <1>8, <2>3 DEF Changed
<1>10. ASSUME NEW b \in Trees, b[f] = content[src][f], Partial(content[dst], b, left)
       PROVE  Partial(content'[dst], b, left \ {f})
  <2>1. content[dst] \in Trees /\ f \in left
    BY <1>1, <1>4, <1>7 DEF IInv, StoreTypes
  <2>2. Partial([content[dst] EXCEPT ![f] = b[f]], b, left \ {f})
    BY <1>6, <1>10, <2>1, PartialStep
  <2> QED BY <1>9, <1>10, <2>2
<1>11. UserInv(pc[u], job[u])'
  <2>1. CASE pc[u] \in {"backup", "clear backup"}
    <3>1. /\ src = Config /\ before = content[Config] /\ dst.kind \in Types /\ dst # Config
          /\ dst.at < now /\ taken[dst] = Nothing
          /\ pc[u] = "clear backup" => job[u].target = dst
          /\ dst \in deleted \/ Partial(content[dst], before, left)
      BY <1>4, <2>1, Names DEF IInv, UserInv, BackupInv
    <3>2. content'[Config] = content[Config]
      <4>1. Config \in Dirs \ {dst}
        BY <3>1, Names
      <4> QED BY <1>9, <4>1
    <3>3. dst \in deleted \/ Partial(content'[dst], before, left \ {f})
      BY <1>6, <1>10, <3>1
    <3>4. BackupInv(pc[u], job[u])'
      BY <1>2, <1>3, <1>4, <1>7, <3>1, <3>2, <3>3 DEF BackupInv
    <3> QED BY <1>2, <2>1, <3>4 DEF UserInv, ClearInv, KeepInv, RestoreInv
  <2>2. CASE pc[u] = "keep"
    <3>1. /\ src = Config /\ before = content[Config] /\ dst = job[u].temp /\ dst.kind = "temp" /\ dst # Config
          /\ Partial(content[dst], before, left)
      BY <1>4, <2>2, Names DEF IInv, UserInv, KeepInv
    <3>2. content'[Config] = content[Config]
      BY <1>9, <3>1, Names
    <3>3. Partial(content'[dst], before, left \ {f})
      BY <1>6, <1>10, <3>1
    <3>4. KeepInv(pc[u], job[u])'
      BY <1>2, <1>3, <1>4, <1>7, <2>2, <3>1, <3>2, <3>3 DEF KeepInv
    <3> QED BY <1>2, <2>2, <3>4 DEF UserInv, BackupInv, ClearInv, RestoreInv
  <2>3. CASE pc[u] = "restore"
    <3>1. dst = Config /\ src = job[u].target
      BY <1>4, <2>3 DEF IInv, UserInv, RestoreInv
    <3>2. Sound(src) => Partial(content'[dst], taken[src], left \ {f})
      <4>1. Sound(src) => Partial(content[dst], taken[src], left) /\ taken[src] = content[src]
        BY <1>4, <2>3, <3>1 DEF IInv, UserInv, RestoreInv, Frozen, Sound
      <4> QED BY <1>6, <1>10, <4>1
    <3>3. RestoreInv(pc[u], job[u])'
      BY <1>2, <1>3, <1>4, <1>5, <2>3, <3>1, <3>2 DEF RestoreInv, Sound
    <3>4. job[u].temp # NoDir => content'[job[u].temp] = content[job[u].temp]
      BY <1>9, <2>3, <3>1, Names DEF IInv, UserInv, KeepInv, StoreTypes
    <3>5. KeepInv(pc[u], job[u])'
      BY <1>2, <1>3, <2>3, <3>4 DEF IInv, UserInv, KeepInv
    <3> QED BY <1>2, <2>3, <3>3, <3>5 DEF UserInv, BackupInv, ClearInv
  <2>4. CASE pc[u] = "recover"
    BY <1>2, <1>3, <2>4 DEF IInv, UserInv, BackupInv, ClearInv, KeepInv, RestoreInv
  <2> QED BY <1>2, <2>1, <2>2, <2>3, <2>4 DEF Copying
<1>12. Kept(u)'
  BY <1>2, <1>3, <1>4, <1>9 DEF IInv, StoreTypes, Kept, Keeper
<1> QED BY <1>9, <1>11, <1>12 DEF IInv, StoreInv

\* os.RemoveAll, by the user: one file less.
LEMMA RemoveFileKeeps ==
    ASSUME NEW u \in Procs, IInv(u), RemoveFile(u)
    PROVE  IInv(u)'
<1>1. PICK f \in Present(job[u].dst) : content' = [content EXCEPT ![job[u].dst][f] = Absent]
  BY DEF RemoveFile
<1>2. pc[u] \in Removing /\ UNCHANGED <<dirs, now, pc, job, taken, deleted, owed>>
  BY DEF RemoveFile
<1>3. PICK dst : dst = job[u].dst
  OBVIOUS
<1>4. dst \in Dirs /\ ~Sound(dst)
  BY <1>2, <1>3, UnsoundTarget DEF Copying, Removing
<1>5. dst \in dirs /\ f \in Files
  <2>1. f \in Files /\ content[dst][f] # Absent
    BY <1>1, <1>3 DEF Present
  <2> QED BY <1>4, <2>1 DEF IInv, StoreTypes, Nothing
<1>6. StoreInv(u)' /\ Changed(dst, f, Absent)
  <2>1. StoreInv(u) /\ Change(dst, f, Absent) /\ Absent \in Versions \cup {Absent}
    BY <1>1, <1>3 DEF IInv, StoreInv, Change
  <2>2. DOMAIN job' = Procs /\ \A p \in Procs : DOMAIN job'[p] = DOMAIN NoJob /\ job'[p].dst = job[p].dst
    BY <1>2 DEF IInv, StoreTypes
  <2> QED BY <1>2, <1>4, <1>5, <2>1, <2>2, OneFile
<1>7. \A e \in Dirs \ {dst} : content'[e] = content[e]
  BY <1>6 DEF Changed
<1>8. UserInv(pc[u], job[u])'
  <2>1. CASE pc[u] = "remove"
    <3>1. dst = Config
      BY <1>3, <2>1 DEF IInv, UserInv, KeepInv
    <3>2. job[u].temp # NoDir => content'[job[u].temp] = content[job[u].temp]
      BY <1>7, <2>1, <3>1, Names DEF IInv, UserInv, KeepInv, StoreTypes
    <3> QED BY <1>2, <2>1, <3>2 DEF IInv, UserInv, BackupInv, ClearInv, KeepInv, RestoreInv
  <2>2. CASE pc[u] \in {"clean", "clear", "delete"}
    BY <1>2, <2>2 DEF IInv, UserInv, BackupInv, ClearInv, KeepInv, RestoreInv
  <2> QED BY <1>2, <2>1, <2>2 DEF Removing
<1>9. Kept(u)'
  BY <1>2, <1>3, <1>7 DEF IInv, StoreTypes, Kept, Keeper
<1> QED BY <1>6, <1>8, <1>9 DEF IInv, StoreInv

\* A directory that is removed when it is empty: its content is what an absent one has.
LEMMA EmptyTree ==
    ASSUME NEW d \in Dirs, StoreTypes, Present(d) = {}
    PROVE  content[d] = Nothing
<1>1. content[d] \in Trees
  BY DEF StoreTypes
<1> QED BY <1>1 DEF Present, Trees, Nothing

\* What remains of the store without a directory that nobody counts on.
LEMMA WithoutDirectory ==
    ASSUME NEW u \in Procs, StoreInv(u), NEW d \in Dirs, ~Sound(d), Present(d) = {},
           dirs' = dirs \ {d}, UNCHANGED <<content, now, taken, deleted>>,
           DOMAIN pc' = Procs, DOMAIN job' = Procs,
           \A p \in Procs : DOMAIN job'[p] = DOMAIN NoJob, Others(u)', Deleters'
    PROVE  StoreInv(u)'
<1>1. content[d] = Nothing
  BY EmptyTree DEF StoreInv
<1>2. StoreTypes'
  BY <1>1 DEF StoreInv, StoreTypes
<1>3. Fresh' /\ OnlyBackups' /\ Frozen'
  BY DEF StoreInv, Fresh, OnlyBackups, Frozen, Sound
<1> QED BY <1>2, <1>3 DEF StoreInv

\* os.RemoveAll, by the user, is done.
LEMMA RemovedKeeps ==
    ASSUME NEW u \in Procs, IInv(u), CurrentRemoved(u) \/ TempRemoved(u) \/ ClearDone(u) \/ DeleteDone(u)
    PROVE  IInv(u)'
<1>1. /\ pc[u] \in Removing /\ Present(job[u].dst) = {} /\ dirs' = dirs \ {job[u].dst}
      /\ UNCHANGED <<content, now, taken, deleted, owed>>
  BY DEF CurrentRemoved, TempRemoved, ClearDone, DeleteDone, Removed, Removing
<1>2. job[u].dst \in Dirs /\ ~Sound(job[u].dst)
  BY <1>1, UnsoundTarget DEF Copying, Removing
<1>3. CASE CurrentRemoved(u)
  <2>1. pc[u] = "remove" /\ pc' = [pc EXCEPT ![u] = "found"] /\ job' = job
    BY <1>3 DEF CurrentRemoved, Removed, Goto
  <2>2. job[u].dst = Config
    BY <2>1 DEF IInv, UserInv, KeepInv
  <2>3. /\ pc'[u] = "found" /\ DOMAIN pc' = Procs /\ DOMAIN job' = Procs
        /\ \A p \in Procs : DOMAIN job'[p] = DOMAIN NoJob
        /\ Others(u)' /\ Deleters'
    BY <1>1, <2>1 DEF IInv, StoreTypes, Others, Deleters
  <2>4. StoreInv(u)'
    BY <1>1, <1>2, <2>3, WithoutDirectory DEF IInv, StoreInv
  <2>5. UserInv(pc[u], job[u])'
    BY <1>1, <2>1, <2>2, <2>3, Names DEF IInv, UserInv, BackupInv, ClearInv, KeepInv, RestoreInv
  <2>6. Kept(u)'
    BY <1>1, <2>1, <2>3 DEF IInv, Kept, Keeper, Copying, Removing
  <2> QED BY <2>4, <2>5, <2>6 DEF IInv, StoreInv
<1>4. CASE TempRemoved(u) \/ ClearDone(u) \/ DeleteDone(u)
  <2>1. pc' = [pc EXCEPT ![u] = "idle"] /\ job' = [job EXCEPT ![u] = NoJob]
    BY <1>4 DEF TempRemoved, ClearDone, DeleteDone, Return, Goto
  <2>2. /\ pc'[u] = "idle" /\ DOMAIN pc' = Procs /\ DOMAIN job' = Procs
        /\ \A p \in Procs : DOMAIN job'[p] = DOMAIN NoJob
        /\ Others(u)' /\ Deleters'
    BY <1>1, <2>1, NoJobShape, UserMoves DEF IInv
  <2>3. StoreInv(u)'
    BY <1>1, <1>2, <2>2, WithoutDirectory DEF IInv, StoreInv
  <2>4. Kept(u)'
    BY <1>1, <2>2 DEF IInv, Kept, Keeper, Copying, Removing
  <2> QED BY <2>2, <2>3, <2>4 DEF IInv, StoreInv, UserInv, BackupInv, ClearInv, KeepInv, RestoreInv
<1> QED BY <1>3, <1>4

\* What is earlier is not later.
LEMMA Earlier == \A m, n \in Nat : m < n => ~(m >= n)
  OBVIOUS

\* A backup is finished.
LEMMA Recorded ==
    ASSUME NEW u \in Procs, IInv(u), pc[u] \in {"backup", "clear backup"}, job[u].left = {},
           taken' = [taken EXCEPT ![job[u].dst] = job[u].before],
           UNCHANGED <<dirs, content, now, deleted>>,
           DOMAIN pc' = Procs, DOMAIN job' = Procs,
           \A p \in Procs : DOMAIN job'[p] = DOMAIN NoJob, Others(u)', Deleters'
    PROVE  StoreInv(u)'
<1>1. PICK dst, before : dst = job[u].dst /\ before = job[u].before
  OBVIOUS
<1>2. /\ dst \in Dirs /\ dst.kind \in Types /\ dst.at < now /\ before = content[Config]
      /\ dst \in deleted \/ (dst \in dirs /\ Partial(content[dst], before, {}))
  BY <1>1 DEF IInv, UserInv, BackupInv
<1>3. before \in Trees /\ content[dst] \in Trees
  BY <1>2, Names DEF IInv, StoreTypes
<1>4. dst \in deleted \/ (dst \in dirs /\ content[dst] = before)
  BY <1>2, <1>3, PartialTrees
<1>5. StoreTypes'
  BY <1>1, <1>3 DEF IInv, StoreTypes
<1>6. taken'[dst] = before /\ \A d \in Dirs \ {dst} : taken'[d] = taken[d]
  BY <1>1, <1>2 DEF IInv, StoreTypes
<1>7. \A d \in Dirs : d.at >= now => d # dst
  <2>1. now \in Nat /\ dst.at \in Nat /\ dst.at < now
    BY <1>2, Names DEF IInv, StoreTypes
  <2>2. ~(dst.at >= now)
    BY <2>1, Earlier, Zenon
  <2> QED BY <2>2, Zenon
<1>8. Fresh' /\ OnlyBackups'
  BY <1>2, <1>6, <1>7 DEF IInv, Fresh, OnlyBackups
<1>9. Frozen'
  BY <1>4, <1>6 DEF IInv, Frozen, Sound
<1> QED BY <1>5, <1>8, <1>9 DEF StoreInv

\* CreateBackup is done.
LEMMA CreateDoneKeeps ==
    ASSUME NEW u \in Procs, IInv(u), CreateDone(u)
    PROVE  IInv(u)'
<1>1. /\ pc[u] \in {"backup", "clear backup"} /\ job[u].left = {}
      /\ taken' = [taken EXCEPT ![job[u].dst] = job[u].before]
      /\ pc' = [pc EXCEPT ![u] = "idle"] /\ job' = [job EXCEPT ![u] = NoJob]
      /\ UNCHANGED <<dirs, content, now, deleted, owed>>
  BY DEF CreateDone, Copied, Return, Goto
<1>2. /\ pc'[u] = "idle" /\ DOMAIN pc' = Procs /\ DOMAIN job' = Procs
      /\ \A p \in Procs : DOMAIN job'[p] = DOMAIN NoJob
      /\ Others(u)' /\ Deleters'
  BY <1>1, NoJobShape, UserMoves DEF IInv
<1>3. StoreInv(u)'
  BY <1>1, <1>2, Recorded
<1>4. Kept(u)'
  BY <1>1, <1>2, StillKept DEF IInv, Copying, Removing
<1> QED BY <1>2, <1>3, <1>4 DEF IInv, StoreInv, UserInv, BackupInv, ClearInv, KeepInv, RestoreInv

\* The backup of Clear is done.
LEMMA ClearBackedUpKeeps ==
    ASSUME NEW u \in Procs, IInv(u), ClearBackedUp(u)
    PROVE  IInv(u)'
<1>1. /\ pc[u] \in {"backup", "clear backup"} /\ pc[u] = "clear backup" /\ job[u].left = {}
      /\ taken' = [taken EXCEPT ![job[u].dst] = job[u].before]
      /\ pc' = [pc EXCEPT ![u] = "down"] /\ job' = job
      /\ UNCHANGED <<dirs, content, now, deleted, owed>>
  BY DEF ClearBackedUp, Copied, Goto
<1>2. /\ DOMAIN pc' = Procs /\ DOMAIN job' = Procs
      /\ \A p \in Procs : DOMAIN job'[p] = DOMAIN NoJob
      /\ Others(u)' /\ Deleters'
  BY <1>1 DEF IInv, StoreTypes, Others, Deleters
<1>3. StoreInv(u)'
  BY <1>1, <1>2, Recorded
<1>4. pc'[u] = "down" /\ job'[u] = job[u]
  BY <1>1 DEF IInv, StoreTypes
<1>5. ClearInv(pc[u], job[u])'
  <2>1. /\ job[u].target = job[u].dst /\ job[u].dst \in Dirs /\ job[u].dst.kind \in Types
        /\ job[u].before = content[Config]
        /\ job[u].dst \in deleted \/ (job[u].dst \in dirs /\ Partial(content[job[u].dst], job[u].before, {}))
    BY <1>1 DEF IInv, UserInv, BackupInv
  <2>2. content[job[u].dst] \in Trees /\ job[u].before \in Trees
    BY <2>1, Names DEF IInv, StoreTypes
  <2>3. job[u].dst \in deleted \/ (job[u].dst \in dirs /\ content[job[u].dst] = job[u].before)
    BY <2>1, <2>2, PartialTrees
  <2> QED BY <1>1, <1>4, <2>1, <2>3 DEF ClearInv
<1>6. Kept(u)'
  BY <1>1, <1>4, StillKept DEF IInv, Copying, Removing
<1> QED BY <1>3, <1>4, <1>5, <1>6 DEF IInv, StoreInv, UserInv, BackupInv, KeepInv, RestoreInv

\* SaveConfigTo writes the configuration folder only.
LEMMA SaveConfigKeeps ==
    ASSUME NEW u \in Procs, IInv(u), SaveConfig(u)
    PROVE  IInv(u)'
<1>1. PICK c \in Contents : content' = [content EXCEPT ![Config] = c]
  BY DEF SaveConfig
<1>2. pc[u] = "idle" /\ dirs' = dirs \cup {Config} /\ UNCHANGED <<now, pc, job, taken, deleted, owed>>
  BY DEF SaveConfig, Starts
<1>3. c \in Trees
  BY StoreAssumption
<1>4. content' \in [Dirs -> Trees] /\ \A d \in Dirs \ {Config} : content'[d] = content[d]
  BY <1>1, <1>3, Names DEF IInv, StoreTypes
<1>5. StoreTypes'
  BY <1>2, <1>4, Names DEF IInv, StoreTypes
<1>6. Fresh'
  BY <1>2, Names DEF IInv, StoreTypes, Fresh
<1>7. OnlyBackups' /\ Frozen' /\ Deleters' /\ Others(u)'
  BY <1>2, <1>4, Names DEF IInv, OnlyBackups, Frozen, Sound, Deleters, Others
<1>8. Kept(u)'
  BY <1>2, <1>4 DEF IInv, StoreTypes, Kept, Keeper
<1> QED BY <1>2, <1>5, <1>6, <1>7, <1>8 DEF IInv, UserInv, BackupInv, ClearInv, KeepInv, RestoreInv

-----------------------------------------------------------------------------
(***************************************************************************)
(* Backups are deleted, by anybody and meanwhile.                          *)
(***************************************************************************)
\* Whatever is not deleted stays what it is, and what is owed is kept elsewhere.
Deletion(u) ==
    /\ deleted \subseteq deleted' /\ taken' = taken /\ now' = now
    /\ \A d \in Dirs \ deleted' : content'[d] = content[d] /\ (d \in dirs' <=> d \in dirs)
    /\ owed' \subseteq owed
    /\ \A c \in owed', d \in dirs : Keeper(u, d, c) => d \notin deleted'

\* DeleteBackup finds the backup.
LEMMA StartDeleteDeletes ==
    ASSUME NEW u \in Procs, NEW p \in Procs, IInv(u), StartDelete(p)
    PROVE  /\ StoreInv(u)' /\ Deletion(u) /\ pc'[p] = "delete" /\ job'[p].dst \in deleted'
           /\ \A q \in Procs \ {p} : pc'[q] = pc[q] /\ job'[q] = job[q]
<1>1. PICK target \in ListBackups :
         /\ job' = [job EXCEPT ![p] = [NoJob EXCEPT !.target = target, !.dst = target]]
         /\ deleted' = deleted \cup {target}
         /\ owed' = owed \ {content[target]}
  BY DEF StartDelete, Find
<1>2. pc' = [pc EXCEPT ![p] = "delete"] /\ UNCHANGED <<dirs, content, now, taken>>
  BY DEF StartDelete, Goto
<1>3. target \in dirs /\ target \in Dirs /\ target.kind \in Types
  BY <1>1 DEF ListBackups, IInv, StoreTypes
<1>4. PICK j : j = [NoJob EXCEPT !.target = target, !.dst = target]
  OBVIOUS
<1>5. DOMAIN j = Fields /\ j.dst = target
  BY <1>4 DEF NoJob, Fields
<1>6. /\ pc'[p] = "delete" /\ job'[p] = j /\ DOMAIN pc' = Procs /\ DOMAIN job' = Procs
      /\ \A q \in Procs \ {p} : pc'[q] = pc[q] /\ job'[q] = job[q]
  BY <1>1, <1>2, <1>4 DEF IInv, StoreTypes
<1>7. StoreTypes'
  BY <1>1, <1>2, <1>3, <1>5, <1>6, NoJobShape DEF IInv, StoreTypes
<1>8. Fresh' /\ OnlyBackups' /\ Frozen'
  BY <1>1, <1>2, <1>3 DEF IInv, Fresh, OnlyBackups, Frozen, Sound
<1>9. Others(u)' /\ Deleters'
  BY <1>1, <1>5, <1>6 DEF IInv, Others, Deleters
<1>10. Deletion(u)
  BY <1>1, <1>2 DEF Deletion, Keeper
<1> QED BY <1>1, <1>5, <1>6, <1>7, <1>8, <1>9, <1>10 DEF StoreInv

\* DeleteBackup by another: its files go.
LEMMA RemoveDeletes ==
    ASSUME NEW u \in Procs, NEW p \in Procs, IInv(u), pc[p] = "delete", RemoveFile(p)
    PROVE  StoreInv(u)' /\ Deletion(u) /\ UNCHANGED <<pc, job>>
<1>1. PICK f \in Present(job[p].dst) : content' = [content EXCEPT ![job[p].dst][f] = Absent]
  BY DEF RemoveFile
<1>2. UNCHANGED <<dirs, now, pc, job, taken, deleted, owed>>
  BY DEF RemoveFile
<1>3. PICK dst : dst = job[p].dst
  OBVIOUS
<1>4. dst \in Dirs /\ dst \in deleted /\ ~Sound(dst)
  BY <1>3 DEF IInv, Deleters, Sound, StoreTypes
<1>5. dst \in dirs /\ f \in Files
  <2>1. f \in Files /\ content[dst][f] # Absent
    BY <1>1, <1>3 DEF Present
  <2> QED BY <1>4, <2>1 DEF IInv, StoreTypes, Nothing
<1>6. StoreInv(u)' /\ Changed(dst, f, Absent)
  <2>1. StoreInv(u) /\ Change(dst, f, Absent) /\ Absent \in Versions \cup {Absent}
    BY <1>1, <1>3 DEF IInv, StoreInv, Change
  <2>2. DOMAIN job' = Procs /\ \A q \in Procs : DOMAIN job'[q] = DOMAIN NoJob /\ job'[q].dst = job[q].dst
    BY <1>2 DEF IInv, StoreTypes
  <2> QED BY <1>2, <1>4, <1>5, <2>1, <2>2, OneFile
<1>7. Deletion(u)
  BY <1>2, <1>4, <1>6 DEF Deletion, Changed, Keeper
<1> QED BY <1>2, <1>6, <1>7

\* DeleteBackup by another is done.
LEMMA DoneDeletes ==
    ASSUME NEW u \in Procs, NEW p \in Procs, IInv(u), DeleteDone(p)
    PROVE  StoreInv(u)' /\ Deletion(u) /\ \A q \in Procs \ {p} : pc'[q] = pc[q] /\ job'[q] = job[q]
<1>1. /\ pc[p] = "delete" /\ Present(job[p].dst) = {} /\ dirs' = dirs \ {job[p].dst}
      /\ pc' = [pc EXCEPT ![p] = "idle"] /\ job' = [job EXCEPT ![p] = NoJob]
      /\ UNCHANGED <<content, now, taken, deleted, owed>>
  BY DEF DeleteDone, Removed, Return, Goto
<1>2. job[p].dst \in Dirs /\ job[p].dst \in deleted /\ ~Sound(job[p].dst)
  BY <1>1 DEF IInv, Deleters, Sound, StoreTypes
<1>3. /\ pc'[p] = "idle" /\ job'[p] = NoJob /\ DOMAIN pc' = Procs /\ DOMAIN job' = Procs
      /\ \A q \in Procs \ {p} : pc'[q] = pc[q] /\ job'[q] = job[q]
  BY <1>1 DEF IInv, StoreTypes
<1>4. (\A q \in Procs : DOMAIN job'[q] = DOMAIN NoJob) /\ Others(u)' /\ Deleters'
  BY <1>1, <1>3 DEF IInv, StoreTypes, Others, Deleters
<1>5. StoreInv(u)'
  BY <1>1, <1>2, <1>3, <1>4, WithoutDirectory DEF IInv, StoreInv
<1>6. Deletion(u)
  BY <1>1, <1>2 DEF Deletion, Keeper
<1> QED BY <1>3, <1>5, <1>6

\* DeleteBackup by another fails, or the other is killed.
LEMMA StopDeletes ==
    ASSUME NEW u \in Procs, NEW p \in Procs, IInv(u), Stop(p)
    PROVE  StoreInv(u)' /\ Deletion(u) /\ \A q \in Procs \ {p} : pc'[q] = pc[q] /\ job'[q] = job[q]
<1>1. /\ pc' = [pc EXCEPT ![p] = "idle"] /\ job' = [job EXCEPT ![p] = NoJob]
      /\ UNCHANGED <<dirs, content, now, taken, deleted, owed>>
  BY DEF Stop, Return, Goto
<1>2. /\ pc'[p] = "idle" /\ job'[p] = NoJob /\ DOMAIN pc' = Procs /\ DOMAIN job' = Procs
      /\ \A q \in Procs \ {p} : pc'[q] = pc[q] /\ job'[q] = job[q]
  BY <1>1 DEF IInv, StoreTypes
<1>3. (\A q \in Procs : DOMAIN job'[q] = DOMAIN NoJob) /\ Others(u)' /\ Deleters'
  BY <1>1, <1>2 DEF IInv, StoreTypes, Others, Deleters
<1>4. StoreTypes' /\ Fresh' /\ OnlyBackups' /\ Frozen'
  BY <1>1, <1>2, <1>3 DEF IInv, StoreTypes, Fresh, OnlyBackups, Frozen, Sound
<1>5. Deletion(u)
  BY <1>1 DEF Deletion, Keeper
<1> QED BY <1>2, <1>3, <1>4, <1>5 DEF StoreInv

\* What somebody else deletes is not what the user's command relies on.
LEMMA DeletionKeepsUser ==
    ASSUME NEW u \in Procs, IInv(u), StoreInv(u)', Deletion(u), pc'[u] = pc[u], job'[u] = job[u]
    PROVE  IInv(u)'
<1>1. /\ \A d \in Dirs \ deleted' : content'[d] = content[d] /\ (d \in dirs' <=> d \in dirs)
      /\ deleted \subseteq deleted' /\ taken' = taken /\ now' = now
  BY DEF Deletion
<1>2. \A d \in Dirs : d.kind \notin Types => d \notin deleted'
  BY DEF StoreInv, OnlyBackups
<1>3. Config \notin deleted' /\ content'[Config] = content[Config] /\ (Config \in dirs' <=> Config \in dirs)
  BY <1>1, <1>2, Names
<1>4. BackupInv(pc[u], job[u])'
  <2> SUFFICES ASSUME pc[u] \in {"backup", "clear backup"}
               PROVE  BackupInv(pc[u], job[u])'
    BY DEF BackupInv
  <2>1. /\ job[u].dst \in Dirs /\ job[u].dst.kind \in Types /\ job[u].dst.at < now
        /\ taken[job[u].dst] = Nothing
        /\ job[u].src = Config /\ job[u].before = content[Config]
        /\ pc[u] = "clear backup" => job[u].target = job[u].dst
        /\ job[u].dst \in deleted
           \/ (job[u].dst \in dirs /\ Partial(content[job[u].dst], job[u].before, job[u].left))
    BY DEF IInv, UserInv, BackupInv
  <2> QED BY <1>1, <1>3, <2>1 DEF BackupInv
<1>5. ClearInv(pc[u], job[u])'
  BY <1>1 DEF IInv, UserInv, ClearInv
<1>6. KeepInv(pc[u], job[u])'
  <2>1. \A d \in dirs : d.kind = "temp" => d \in dirs' /\ content'[d] = content[d]
    BY <1>1, <1>2, Names DEF IInv, StoreTypes
  <2> QED BY <1>3, <2>1 DEF IInv, UserInv, KeepInv
<1>7. RestoreInv(pc[u], job[u])'
  BY <1>1, <1>3 DEF IInv, UserInv, RestoreInv, Sound
<1>8. Kept(u)'
  <2>1. ASSUME NEW c \in owed', NEW d \in dirs, Keeper(u, d, c)
        PROVE  d \in dirs' /\ Keeper(u, d, c)'
    BY <1>1, <2>1 DEF Deletion, Keeper, IInv, StoreTypes
  <2> QED BY <2>1 DEF Deletion, IInv, Kept
<1> QED BY <1>4, <1>5, <1>6, <1>7, <1>8 DEF IInv, StoreInv, UserInv

\* The user deletes a backup.
LEMMA StartDeleteKeeps ==
    ASSUME NEW u \in Procs, IInv(u), StartDelete(u)
    PROVE  IInv(u)'
<1>1. StoreInv(u)' /\ Deletion(u) /\ pc'[u] = "delete" /\ job'[u].dst \in deleted'
  BY StartDeleteDeletes
<1>2. Kept(u)'
  <2>1. ASSUME NEW c \in owed', NEW d \in dirs, Keeper(u, d, c)
        PROVE  d \in dirs' /\ Keeper(u, d, c)'
    BY <1>1, <2>1 DEF Deletion, Keeper, IInv, StoreTypes
  <2> QED BY <2>1, <1>1 DEF Deletion, IInv, Kept
<1> QED BY <1>1, <1>2 DEF IInv, StoreInv, UserInv, BackupInv, ClearInv, KeepInv, RestoreInv

\* The others.
LEMMA OtherKeeps ==
    ASSUME NEW u \in Procs, OneUser(u), NEW p \in Procs \ {u}, IInv(u),
           \/ SaveConfig(p) \/ CreateBackup(p) \/ RestoreBackup(p) \/ DeleteBackup(p)
           \/ Clear(p) \/ CopyFile(p) \/ RemoveFile(p) \/ Stop(p)
    PROVE  IInv(u)'
<1>1. pc[p] \in {"idle", "delete"} /\ Roles[p] \subseteq {"delete"}
  BY DEF IInv, Others, OneUser
<1>2. ~SaveConfig(p) /\ ~CreateBackup(p)
  BY <1>1 DEF SaveConfig, CreateBackup, StartCreate, CreateDone, StartsNow, Starts, Copied
<1>3. ~RestoreBackup(p)
  BY <1>1 DEF RestoreBackup, StartRestore, RemoveCurrent, CurrentRemoved, CopyTarget, TargetCopied,
              TempRemoved, Recover, Recovered, StartsNow, Starts, Copied, Removed
<1>4. ~Clear(p) /\ ~CopyFile(p)
  BY <1>1 DEF Clear, StartClear, ClearBackedUp, ClearBackupFails, DeleteFolder, ClearDone, CopyFile,
              StartsNow, Starts, Copied, Removed, Copying
<1>5. RemoveFile(p) => pc[p] = "delete"
  BY <1>1 DEF RemoveFile, Removing
<1>6. StoreInv(u)' /\ Deletion(u) /\ pc'[u] = pc[u] /\ job'[u] = job[u]
  <2>1. CASE StartDelete(p)
    BY <2>1, StartDeleteDeletes
  <2>2. CASE DeleteDone(p)
    BY <2>2, DoneDeletes
  <2>3. CASE RemoveFile(p)
    BY <1>5, <2>3, RemoveDeletes
  <2>4. CASE Stop(p)
    BY <2>4, StopDeletes
  <2> QED BY <1>2, <1>3, <1>4, <2>1, <2>2, <2>3, <2>4 DEF DeleteBackup
<1> QED BY <1>6, DeletionKeepsUser

-----------------------------------------------------------------------------
(***************************************************************************)
(* The theorems.                                                           *)
(***************************************************************************)
\* A configuration and one backup, both whole.
LEMMA InitInvariant ==
    ASSUME NEW u \in Procs, Init
    PROVE  IInv(u)
<1>1. PICK c, b \in Contents :
         /\ content = [d \in Dirs |-> CASE d = Config -> c [] d = First -> b [] OTHER -> Nothing]
         /\ taken = [d \in Dirs |-> IF d = First THEN b ELSE Nothing]
  BY DEF Init
<1>2. /\ dirs = {Config, First} /\ now = 2 /\ deleted = {} /\ owed = {}
      /\ pc = [p \in Procs |-> "idle"] /\ job = [p \in Procs |-> NoJob]
  BY DEF Init
<1>3. First \in Dirs /\ First.at = 1 /\ First.kind = "manual" /\ First.kind \in Types /\ First # Config
  BY Names, StoreAssumption DEF First
<1>4. c \in Trees /\ b \in Trees /\ Nothing \in Trees
  BY StoreAssumption DEF Trees, Nothing
<1>5. StoreTypes
  <2>1. content \in [Dirs -> Trees] /\ taken \in [Dirs -> Trees]
    BY <1>1, <1>4
  <2>2. \A d \in Dirs \ dirs : content[d] = Nothing
    BY <1>1, <1>2
  <2> QED BY <1>2, <1>3, <2>1, <2>2, Names DEF StoreTypes
<1>6. Fresh
  BY <1>1, <1>2, <1>3, Names DEF Fresh
<1>7. OnlyBackups /\ Frozen
  BY <1>1, <1>2, <1>3 DEF OnlyBackups, Frozen, Sound
<1>8. Deleters /\ Others(u) /\ Kept(u) /\ pc[u] = "idle"
  BY <1>2 DEF Deleters, Others, Kept
<1> QED BY <1>5, <1>6, <1>7, <1>8 DEF IInv, UserInv, BackupInv, ClearInv, KeepInv, RestoreInv

\* The invariant is inductive.
LEMMA StepInvariant ==
    ASSUME NEW u \in Procs, OneUser(u), IInv(u), [Next]_storeVars
    PROVE  IInv(u)'
<1>1. CASE UNCHANGED storeVars
  <2>1. UNCHANGED <<dirs, content, now, pc, job, taken, deleted, owed>>
    BY <1>1 DEF storeVars
  <2>2. StoreTypes' /\ Fresh' /\ OnlyBackups' /\ Frozen' /\ Deleters' /\ Others(u)'
    BY <2>1 DEF IInv, StoreTypes, Fresh, OnlyBackups, Frozen, Sound, Deleters, Others
  <2>3. Deletion(u)
    BY <2>1 DEF Deletion, Keeper
  <2> QED BY <2>1, <2>2, <2>3, DeletionKeepsUser DEF StoreInv
<1>2. ASSUME NEW p \in Procs,
             \/ SaveConfig(p) \/ CreateBackup(p) \/ RestoreBackup(p) \/ DeleteBackup(p)
             \/ Clear(p) \/ CopyFile(p) \/ RemoveFile(p) \/ Stop(p)
      PROVE  IInv(u)'
  <2>1. CASE p # u
    BY <1>2, <2>1, OtherKeeps
  <2>2. CASE p = u
    <3>1. CASE CreateBackup(u)
      BY <3>1, StartCreateKeeps, CreateDoneKeeps DEF CreateBackup
    <3>2. CASE RestoreBackup(u)
      BY <3>2, StartRestoreKeeps, RemoveCurrentKeeps, RemovedKeeps, CopyTargetKeeps, TargetCopiedKeeps,
         RecoverKeeps, ReturnKeeps DEF RestoreBackup
    <3>3. CASE DeleteBackup(u)
      BY <3>3, StartDeleteKeeps, RemovedKeeps DEF DeleteBackup
    <3>4. CASE Clear(u)
      BY <3>4, StartClearKeeps, ClearBackedUpKeeps, ClearBackupFailsKeeps, DeleteFolderKeeps, RemovedKeeps
         DEF Clear
    <3>5. CASE SaveConfig(u) \/ CopyFile(u) \/ RemoveFile(u) \/ Stop(u)
      BY <3>5, SaveConfigKeeps, CopyFileKeeps, RemoveFileKeeps, ReturnKeeps
    <3> QED BY <1>2, <2>2, <3>1, <3>2, <3>3, <3>4, <3>5
  <2> QED BY <2>1, <2>2
<1> QED BY <1>1, <1>2 DEF Next

\* The inductive invariant: where the copies of a configuration are while a command
\* of the user runs, and that backups are written once.
THEOREM BackupInvariant ==
    ASSUME NEW u \in Procs, OneUser(u)
    PROVE  Spec => []IInv(u)
<1>1. Init => IInv(u)
  BY InitInvariant
<1>2. IInv(u) /\ [Next]_storeVars => IInv(u)'
  BY StepInvariant
<1> QED BY <1>1, <1>2, PTL DEF Spec

\* RestoreBackup and Clear: a configuration they have begun to remove is in a temporary
\* copy or a backup, at whatever step they fail or die.
THEOREM ConfigurationIsKept ==
    ASSUME NEW u \in Procs, OneUser(u)
    PROVE  Spec => []NothingLost
<1>1. IInv(u) => NothingLost
  BY DEF IInv, Kept, Keeper, NothingLost
<1> QED BY <1>1, BackupInvariant, PTL

\* CreateBackup: a backup that was reported is what it was made from, as long as it is
\* there.
THEOREM BackupsStay ==
    ASSUME NEW u \in Procs, OneUser(u)
    PROVE  Spec => []BackupsAreFrozen
<1>1. IInv(u) => BackupsAreFrozen
  BY DEF IInv, Frozen, BackupsAreFrozen
<1> QED BY <1>1, BackupInvariant, PTL

\* RestoreBackup: when it succeeds, the folder holds the backup and no other file.
THEOREM RestoredIsTheBackup ==
    ASSUME NEW u \in Procs, OneUser(u)
    PROVE  Spec => []RestoreIsExact
<1>1. IInv(u) => RestoreIsExact
  <2> SUFFICES ASSUME IInv(u), NEW p \in Procs, Copied(p, "restore"), Sound(job[p].target)
               PROVE  content[Config] = taken[job[p].target]
    BY DEF RestoreIsExact
  <2>1. p = u /\ pc[u] = "restore" /\ job[u].left = {}
    BY OnlyUserCopies DEF Copied
  <2>2. Partial(content[Config], taken[job[u].target], {})
    BY <2>1 DEF IInv, UserInv, RestoreInv
  <2>3. content[Config] \in Trees /\ taken[job[u].target] \in Trees
    BY <2>1, Names DEF IInv, StoreTypes, Sound
  <2> QED BY <2>1, <2>2, <2>3, PartialTrees
<1> QED BY <1>1, BackupInvariant, PTL
=============================================================================
