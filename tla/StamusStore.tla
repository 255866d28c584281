----------------------------- MODULE StamusStore -----------------------------
(***************************************************************************)
(* internal/stamus: config.json, the list of instances and of registry     *)
(* logins that all commands of a user share, with the credentials read by  *)
(* models/registry.go.  Every change is a read, a truncation and a write   *)
(* of the whole file, without a lock.                                      *)
(*                                                                         *)
(* A document is the set of its entries.  What truncating and writing do   *)
(* to another process's text depends on lengths, so a file has one.        *)
(* An instance is entered under a name, which is all that ties it to its   *)
(* folder; commands write, delete and look under different names.          *)
(***************************************************************************)
EXTENDS Integers

CONSTANTS Procs,     \* the processes of one user
          Names,     \* of configurations: absolute, or relative to the working directory
          Folders,
          Home,      \* the folder that a name leads to
          Stored,    \* the folder that clear deletes for it, below ConfigsFolder
          NoFolder,  \* for an absolute name that leads elsewhere
          Inits,     \* <<n, e>>: an init is given the name n and enters e
          Clears,    \* the names that clear is given
          Logins,    \* registry, user and token
          Size,      \* the length of the text of each document
          Roles      \* the commands each process issues

Entries  == Names \cup Logins
Commands == {"init", "clear", "login", "list", "pull"}

ASSUME StoreAssumption ==
    /\ Names \cap Logins = {} /\ "none" \notin Entries /\ NoFolder \notin Folders
    /\ Home \in [Names -> Folders] /\ Stored \in [Names -> Folders \cup {NoFolder}]
    /\ Inits \subseteq Names \X Names /\ Clears \subseteq Names
    /\ Size \in [SUBSET Entries -> Nat \ {0}]
    /\ Roles \in [Procs -> SUBSET Commands]

VARIABLES
    file,     \* config.json
    folders,  \* those with a compose file
    pc,       \* where each process is
    job,      \* its local variables
    due,      \* history: the entries added and not removed, by commands that finished
    hurt,     \* history: whether a race or a failure may have lost entries
    stray     \* history: folders whose init stopped half way

storeVars == <<file, folders, pc, job, due, hurt, stray>>

Absent     == [doc |-> {}, len |-> -1, whole |-> FALSE]
Empty      == [doc |-> {}, len |-> 0, whole |-> FALSE]
Text(doc)  == [doc |-> doc, len |-> Size[doc], whole |-> TRUE]

\* WriteAt(bytes, 0): a longer text that another process has written meanwhile
\* keeps its tail, and the two together are no JSON.
WriteAt(f, doc) ==
    IF f.len <= Size[doc] THEN Text(doc) ELSE [doc |-> {}, len |-> f.len, whole |-> FALSE]

\* GetConfig: a file that is missing, empty or malformed is an empty Config.
GetConfig == IF file.whole THEN file.doc ELSE {}

NoRace == "none"
Race   == "race"

\* Between the truncation and the write.
Writing(p) == pc[p] \in {"write", "fill"}
Quiet      == \A p \in Procs : ~Writing(p)
Overlaps(p) == \E q \in Procs \ {p} : Writing(q)

Mishap(happens) == IF happens THEN Race ELSE hurt

NewJob(cmd, entry, folder, todo) ==
    [cmd |-> cmd, entry |-> entry, folder |-> folder, base |-> {}, todo |-> todo]
NoJob == NewJob("none", "none", NoFolder, {})

Changing == {"read", "truncate", "write"}
Places   == Changing \cup {"idle", "down", "compose", "remove", "verify", "check", "create", "fill"}

Texts    == [doc : SUBSET Entries, len : Int, whole : BOOLEAN]
Jobs     == [cmd : Commands \cup {"none"}, entry : Entries \cup {"none"},
             folder : Folders \cup {NoFolder}, base : SUBSET Entries, todo : SUBSET Names]

TypeOK ==
    /\ file \in Texts
    /\ folders \subseteq Folders
    /\ pc \in [Procs -> Places]
    /\ job \in [Procs -> Jobs]
    /\ due \subseteq Entries
    /\ hurt \in {NoRace, Race}
    /\ stray \subseteq Folders

Init ==
    /\ file = Absent /\ folders = {}
    /\ pc = [p \in Procs |-> "idle"]
    /\ job = [p \in Procs |-> NoJob]
    /\ due = {} /\ hurt = NoRace /\ stray = {}

-----------------------------------------------------------------------------
Goto(p, label) == pc' = [pc EXCEPT ![p] = label]
Begin(p, cmd, entry, folder, label) ==
    /\ pc[p] = "idle"
    /\ cmd \in Roles[p]
    /\ Goto(p, label)
    /\ job' = [job EXCEPT ![p] = NewJob(cmd, entry, folder, {})]
Return(p) ==
    /\ Goto(p, "idle")
    /\ job' = [job EXCEPT ![p] = NoJob]

\* About to remove a name that leads to this folder.
Removing(q, f) ==
    /\ job[q].cmd \in {"list", "clear"} /\ pc[q] \in {"read", "truncate"}
    /\ Home[job[q].entry] = f

\* "compose init": SaveConfigTo has written the compose file; AddInstance with the
\* name joined to the working directory, which the daemon does not do.
StartInit(p, n, e) ==
    /\ <<n, e>> \in Inits
    /\ Begin(p, "init", e, Home[n], "read")
    /\ folders' = folders \cup {Home[n]}
    /\ hurt' = Mishap(\E q \in Procs : Removing(q, Home[n]))
    /\ UNCHANGED <<file, due, stray>>

\* "config clear": compose down with the compose file that the name leads to;
\* deleteFolder; RemoveInstance of the name as it was given.
StartClear(p, n) ==
    /\ n \in Clears /\ Home[n] \in folders
    /\ Begin(p, "clear", n, Stored[n], "down")
    /\ UNCHANGED <<file, folders, due, hurt, stray>>

\* The runner of compose commands has found no shutdown and enters the command
\* in the tracker (ComposeDrain).
StartDown(p) ==
    /\ pc[p] = "down"
    /\ Goto(p, "compose")
    /\ UNCHANGED <<file, folders, job, due, hurt, stray>>

DownDone(p) ==
    /\ pc[p] = "compose"
    /\ Goto(p, "remove")
    /\ UNCHANGED <<file, folders, job, due, hurt, stray>>

\* SanitizePath takes a relative name below ConfigsFolder, whatever the working
\* directory, and refuses an absolute one outside; RemoveAll.
DeleteFolder(p) ==
    /\ pc[p] = "remove" /\ job[p].folder # NoFolder
    /\ folders' = folders \ {job[p].folder}
    /\ Goto(p, "read")
    /\ UNCHANGED <<file, job, due, hurt, stray>>

\* LoginHandler: the registry is asked first, unless told not to; SaveLogin.
StartLogin(p, l) ==
    /\ Begin(p, "login", l, NoFolder, "verify")
    /\ UNCHANGED <<file, folders, due, hurt, stray>>

RegistryLogin(p) ==
    /\ pc[p] = "verify"
    /\ Goto(p, "read")
    /\ UNCHANGED <<file, folders, job, due, hurt, stray>>

\* GetInstances, by "config list".
StartList(p) ==
    /\ pc[p] = "idle" /\ "list" \in Roles[p]
    /\ Goto(p, "check")
    /\ job' = [job EXCEPT ![p] = NewJob("list", "none", NoFolder, GetConfig \cap Names)]
    /\ UNCHANGED <<file, folders, due, hurt, stray>>

\* Mutant: the compose file is not looked for.
CheckInstanceUnchecked(p) ==
    /\ pc[p] = "check"
    /\ \E n \in job[p].todo : job' = [job EXCEPT ![p] = NewJob("list", n, NoFolder, @.todo \ {n})]
    /\ Goto(p, "read")
    /\ UNCHANGED <<file, folders, due, hurt, stray>>

\* A name without a compose file is removed; the others are shown with the state of
\* their containers.
CheckInstance(p) ==
    /\ pc[p] = "check"
    /\ \E n \in job[p].todo :
          /\ job' = [job EXCEPT ![p] = NewJob("list", n, NoFolder, @.todo \ {n})]
          /\ IF Home[n] \in folders THEN UNCHANGED pc ELSE Goto(p, "read")
    /\ UNCHANGED <<file, folders, due, hurt, stray>>

ListDone(p) ==
    /\ pc[p] = "check" /\ job[p].todo = {}
    /\ Return(p)
    /\ UNCHANGED <<file, folders, due, hurt, stray>>

-----------------------------------------------------------------------------
(***************************************************************************)
(* AddInstance, RemoveInstance and SaveLogin: GetConfig, a change in       *)
(* memory, setStamusConfig.                                                *)
(***************************************************************************)
\* Mutant: the instances are not carried over by a login.
ChangedForgets(cmd, doc, entry) ==
    CASE cmd = "login" -> (doc \cap Logins) \cup {entry}
      [] cmd = "init"  -> doc \cup {entry}
      [] OTHER         -> doc \ {entry}

Changed(cmd, doc, entry) ==
    IF cmd \in {"init", "login"} THEN doc \cup {entry} ELSE doc \ {entry}

Finished(p) == IF job[p].cmd = "list" THEN "check" ELSE "idle"
FinishedJob(p) == IF job[p].cmd = "list" THEN NewJob("list", "none", NoFolder, job[p].todo)
                                                ELSE NoJob

\* RemoveInstance returns at once when there is no map of instances; a map
\* that has become empty is written back.
NothingToRemove(p) ==
    /\ pc[p] = "read"
    /\ job[p].cmd \in {"clear", "list"}
    /\ GetConfig \cap Names = {}
    /\ Goto(p, Finished(p))
    /\ job' = [job EXCEPT ![p] = FinishedJob(p)]
    /\ due' = due \ {job[p].entry}
    /\ hurt' = Mishap(Overlaps(p))
    /\ UNCHANGED <<file, folders, stray>>

ReadConfig(p) ==
    /\ pc[p] = "read"
    /\ job[p].cmd \in {"clear", "list"} => file.whole
    /\ job' = [job EXCEPT ![p].base = GetConfig]
    /\ Goto(p, "truncate")
    /\ UNCHANGED <<file, folders, due, hurt, stray>>

\* Mutant: written over the old text.
TruncateForgotten(p) ==
    /\ pc[p] = "truncate"
    /\ Goto(p, "write")
    /\ hurt' = Mishap(Overlaps(p) \/ GetConfig # job[p].base)
    /\ UNCHANGED <<file, folders, job, due, stray>>

\* Opened, or created, and truncated.
Truncate(p) ==
    /\ pc[p] = "truncate"
    /\ file' = Empty
    /\ Goto(p, "write")
    /\ hurt' = Mishap(Overlaps(p) \/ GetConfig # job[p].base)
    /\ UNCHANGED <<folders, job, due, stray>>

Write(p) ==
    /\ pc[p] = "write"
    /\ file' = WriteAt(file, Changed(job[p].cmd, job[p].base, job[p].entry))
    /\ hurt' = Mishap(Overlaps(p))
    /\ due' = IF job[p].cmd \in {"init", "login"} THEN due \cup {job[p].entry}
                                                  ELSE due \ {job[p].entry}
    /\ stray' = IF job[p].cmd = "init" THEN stray \ {job[p].folder} ELSE stray
    /\ Goto(p, Finished(p))
    /\ job' = [job EXCEPT ![p] = FinishedJob(p)]
    /\ UNCHANGED folders

-----------------------------------------------------------------------------
(***************************************************************************)
(* getRegistryCredentials, by commands that pull a remote include.  Where  *)
(* there is a file it only reads; where there is none it writes one.       *)
(***************************************************************************)
FileIsMissing(p) ==
    /\ Begin(p, "pull", "none", NoFolder, "create")
    /\ file = Absent
    /\ UNCHANGED <<file, folders, due, hurt, stray>>

\* afero.WriteFile opens with O_TRUNC ...
CreateFile(p) ==
    /\ pc[p] = "create"
    /\ file' = Empty
    /\ hurt' = Mishap(Overlaps(p) \/ GetConfig # {})
    /\ Goto(p, "fill")
    /\ UNCHANGED <<folders, job, due, stray>>

\* ... and writes {"registries":{}}.
FillFile(p) ==
    /\ pc[p] = "fill"
    /\ file' = WriteAt(file, {})
    /\ hurt' = Mishap(Overlaps(p))
    /\ Return(p)
    /\ UNCHANGED <<folders, due, stray>>

\* The command ends with an error, or the process dies, where it is.  (The
\* error of the write of a login is dropped, and the login called successful.)
Stop(p) ==
    /\ pc[p] # "idle"
    /\ Return(p)
    /\ hurt' = Mishap(Writing(p))
    /\ stray' = IF job[p].cmd = "init" THEN stray \cup {job[p].folder} ELSE stray
    /\ UNCHANGED <<file, folders, due>>

-----------------------------------------------------------------------------
Change(p) == NothingToRemove(p) \/ ReadConfig(p) \/ Truncate(p) \/ Write(p)

Command(p) ==
    \/ \E n, e \in Names : StartInit(p, n, e)
    \/ \E n \in Names : StartClear(p, n)
    \/ StartDown(p) \/ DownDone(p) \/ DeleteFolder(p)
    \/ \E l \in Logins : StartLogin(p, l)
    \/ RegistryLogin(p)
    \/ StartList(p) \/ CheckInstance(p) \/ ListDone(p)
    \/ FileIsMissing(p) \/ CreateFile(p) \/ FillFile(p)
    \/ Change(p)

Next == \E p \in Procs : Command(p) \/ Stop(p)

Spec == Init /\ [][Next]_storeVars

-----------------------------------------------------------------------------
(***************************************************************************)
(* Properties.                                                             *)
(***************************************************************************)
\* config.json holds exactly the logins, and the names of instances, that commands
\* have entered and not removed under the same name, in whatever order, unless a
\* write used a stale read or was cut short, a removal did not see the file, or the
\* credentials' empty file replaced another's first one: there is no other way to
\* lose an entry or to keep one that was removed.
LostOnlyByRaces == Quiet /\ hurt = NoRace => GetConfig = due

\* A configuration on disk is listed by a name that leads to it, once its init is
\* through, unless one of these races took the entry, or a listing or a clear
\* removed it after another init had written the folder again.
FoldersAreListed ==
    hurt = NoRace =>
        \A f \in folders \ stray :
            \/ \E n \in due \cap Names : Home[n] = f
            \/ \E p \in Procs : job[p].cmd = "init" /\ job[p].folder = f

\* Where the above can hold: what an init enters leads to the folder it has written,
\* and clear deletes the folder of a name that may be entered, or refuses.
Entered == {e \in Names : \E n \in Names : <<n, e>> \in Inits}
NamesAgree ==
    /\ \A n, e \in Names : <<n, e>> \in Inits => Home[e] = Home[n]
    /\ \A n \in Clears \cap Entered : Stored[n] \in {Home[n], NoFolder}

\* "Removes ... configuration files associated with a deployment": clear has deleted
\* the configuration that it stopped (cmd/ctl/config/clear.go).
ClearedIsGone ==
    \A p \in Procs :
        job[p].cmd = "clear" /\ pc[p] = "truncate" => Home[job[p].entry] \notin folders

\* config.json is unreadable only because of two overlapping writes or one that
\* was cut short: never between commands that take turns, and never for a
\* reader that comes when nobody writes.
UnreadableHasCause ==
    Quiet /\ ~file.whole => file = Absent \/ hurt # NoRace
=============================================================================
