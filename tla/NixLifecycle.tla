---------------------------- MODULE NixLifecycle -----------------------------
(***************************************************************************)
(* internal/handlers/nix and internal/nix: a configuration that is applied *)
(* to a NixOS host.  `nix init` and `nix update` take the steps of their   *)
(* compose twins in ConfigLifecycle, on the command line, and then enter   *)
(* the instance in config.json.  Meanwhile other terminals, in the same    *)
(* working directory, apply, build, test or boot the configuration; those  *)
(* that build share the link ./result.                                     *)
(***************************************************************************)
EXTENDS ConfigLifecycle, Naturals

CONSTANTS Terminals,  \* that run the other nix commands
          ShellTests, \* the .sh files in <config>/tests
          NixTests,   \* and the .nix files
          BackupFails,\* making a backup may fail
          MaxBusy,    \* commands at the same time
          MaxChanges, \* inits and updates
          None

ASSUME NixAssumption == /\ IsFiniteSet(ShellTests \cup NixTests) /\ IsFiniteSet(Terminals) /\ {MaxBusy, MaxChanges} \subseteq Nat
                         /\ BackupFails \in BOOLEAN

VARIABLES
    release,   \* the file "version" of the folder, written after the other files
    tail,      \* the init or update that has saved and not yet registered
    instances, \* config.json: folder name as recorded -> version
    system,    \* the configuration the host runs
    result,    \* the link ./result
    op,        \* what each terminal is doing
    changes    \* inits and updates so far

nixVars == <<vars, release, tail, instances, system, result, op, changes>>
hostVars == <<system, result, op>>
restVars == <<release, tail, instances, hostVars, changes>>

\* What nixos-rebuild reads of the folder.
Configuration == [values |-> rendered, version |-> release]

NoOp == [cmd |-> None, step |-> "idle", saved |-> FALSE, built |-> None, ran |-> None,
         disturbed |-> FALSE, left |-> {}]

NixInit ==
    /\ Init
    /\ release = Missing /\ tail = None
    /\ instances = [k \in {"joined", "given"} |-> Missing]
    /\ system = None /\ result = None /\ changes = 0
    /\ op = [t \in Terminals |-> NoOp]

-----------------------------------------------------------------------------
(***************************************************************************)
(* init and update: the steps of ConfigLifecycle, and what nix adds.       *)
(***************************************************************************)
\* CreateBackup copies the folder of that name in ConfigsFolder, wherever
\* --config points; an error is logged.
Backup(saved) ==
    \/ saved /\ InStore /\ FolderExists
    \/ ~saved /\ (BackupFails \/ ~InStore \/ ~FolderExists)

\* The folder is in use by an init or update, and terminals by other commands.
Busy == Cardinality({t \in Terminals : op[t].step # "idle"})
          + IF pc # "idle" \/ tail # None THEN 1 ELSE 0

\* The template: from the registry that was asked for, or every known one.
NixPull ==
    /\ PullRefused \/ PullRemove \/ PullRetry \/ PullInstall
    /\ UNCHANGED restVars

NixStart ==
    /\ tail = None /\ Busy < MaxBusy /\ changes < MaxChanges
    /\ StartInit \/ StartUpdate
    /\ changes' = changes + 1
    /\ UNCHANGED <<release, tail, instances, hostVars>>

NixCompute == (InitCompute \/ AutoBackup) /\ UNCHANGED restVars
NixLoad    == UpdateLoad /\ UNCHANGED restVars
NixPreRun  == (UpdateNoPreRun \/ UpdatePreRun \/ UpdateMigrate) /\ UNCHANGED restVars

NixMerge   == UpdateMerge /\ UNCHANGED restVars

NixRender ==
    /\ SaveRender
    /\ UNCHANGED <<release, tail, instances, hostVars, changes>>

\* Mutant: a version file that is there is not rendered again.
VersionRenderedOnce == release # Missing

VersionRendered == release = dirs[job.dir]

\* The files are rendered in the order of their names, "version" late.
RenderVersion ==
    /\ pc = "truncate" /\ ~VersionRendered
    /\ release' = dirs[job.dir]
    /\ UNCHANGED <<vars, tail, instances, hostVars, changes>>

NixSave ==
    \/ (pc = "truncate" => VersionRendered) /\ SaveTruncate /\ UNCHANGED restVars
    \/ /\ SaveWrite
       /\ tail' = job.cmd
       /\ UNCHANGED <<release, instances, hostVars, changes>>

\* init joins the working directory and --config, update and status take it as
\* it is given.
RecordedBy(cmd) == IF cmd = "init" THEN "joined" ELSE "given"

\* After the bound files of an init, or the post-run script of an update:
\* AddInstance with the first line of the file "version".
Register ==
    /\ tail # None
    /\ instances' = [instances EXCEPT ![RecordedBy(tail)] = release]
    /\ tail' = None
    /\ UNCHANGED <<vars, release, hostVars, changes>>

\* An error or a kill, in the steps of ConfigLifecycle or after them.
NixStop ==
    \/ Stop /\ UNCHANGED restVars
    \/ tail # None /\ tail' = None /\ UNCHANGED <<vars, release, instances, hostVars, changes>>

-----------------------------------------------------------------------------
(***************************************************************************)
(* The other commands.                                                     *)
(***************************************************************************)
folderVars == <<vars, release, tail, instances, changes>>

Begins(t, cmd, step, o) ==
    /\ op[t].step = "idle" /\ Busy < MaxBusy
    /\ op' = [op EXCEPT ![t] = [o EXCEPT !.cmd = cmd, !.step = step]]

\* diff, build-vm and iso: "build", "build-vm" and the ISO move ./result.
Builds == {"diff", "build-vm", "iso"}

\* A link that others have moved is not what this terminal has built.
Relink(t, o) ==
    op' = [u \in Terminals |-> IF u = t THEN o
                               ELSE [op[u] EXCEPT !.disturbed = @ \/ op[u].cmd \in Builds]]

\* switch, on NixOS and with a folder: a backup, then nixos-rebuild.
Switch(t) ==
    /\ FolderExists
    /\ \E saved \in BOOLEAN :
          Backup(saved) /\ Begins(t, "switch", "rebuild", [NoOp EXCEPT !.saved = saved])
    /\ UNCHANGED <<folderVars, system, result>>

\* nixos-rebuild evaluates configuration.nix as it is now ...
NixosRebuild(t) ==
    /\ op[t].cmd = "switch" /\ op[t].step = "rebuild"
    /\ op' = [op EXCEPT ![t].step = "activate", ![t].built = Configuration]
    /\ UNCHANGED <<folderVars, system, result>>

\* ... and activates what it has built.
Activate(t) ==
    /\ op[t].cmd = "switch" /\ op[t].step = "activate"
    /\ system' = op[t].built
    /\ op' = [op EXCEPT ![t] = NoOp]
    /\ UNCHANGED <<folderVars, result>>

StartBuild(t, cmd) ==
    /\ FolderExists
    /\ Begins(t, cmd, "build", NoOp)
    /\ UNCHANGED <<folderVars, system, result>>

Diff(t)    == StartBuild(t, "diff")
BuildVM(t) == StartBuild(t, "build-vm")
ISO(t)     == StartBuild(t, "iso")

Build(t, cmds) ==
    /\ op[t].cmd \in cmds /\ op[t].step = "build"
    /\ result' = [kind |-> op[t].cmd, of |-> Configuration]
    /\ Relink(t, [op[t] EXCEPT !.step = "built", !.built = Configuration])
    /\ UNCHANGED <<folderVars, system>>

RebuildResult(t) == Build(t, {"diff", "build-vm"})
BuildISO(t)      == Build(t, {"iso"})

\* The command reads whatever ./result leads to by now.
UseResult(t, cmd) ==
    /\ op[t].cmd = cmd /\ op[t].step = "built"
    /\ result # None
    /\ op' = [op EXCEPT ![t].step = "used", ![t].ran = result.of]
    /\ UNCHANGED <<folderVars, system, result>>

DiffClosures(t) == UseResult(t, "diff")

\* Needs bin/run-*-vm in the result.
FindAndRunVM(t) == UseResult(t, "build-vm") /\ result.kind = "build-vm"

\* Mutant: the command goes on although the build has failed.
BuildFailsUnnoticed(t) ==
    /\ op[t].cmd \in Builds /\ op[t].step = "build"
    /\ op' = [op EXCEPT ![t].step = "built", ![t].built = Configuration]
    /\ UNCHANGED <<folderVars, system, result>>

BuildFails(t) ==
    /\ op[t].cmd \in Builds /\ op[t].step = "build"
    /\ op' = [op EXCEPT ![t] = NoOp]
    /\ UNCHANGED <<folderVars, system, result>>

\* The deferred removal of diff, whoever's link it is by now.
RemoveResult(t) ==
    /\ op[t].cmd = "diff" /\ op[t].step \in {"built", "used"}
    /\ result' = None
    /\ Relink(t, NoOp)
    /\ UNCHANGED <<folderVars, system>>

\* iso-run boots the ISO that is there; otherwise it is an error.
ISORun(t) ==
    /\ result # None /\ result.kind = "iso"
    /\ Begins(t, "iso-run", "used", NoOp)
    /\ UNCHANGED <<folderVars, system, result>>

\* The machine that was booted is switched off.
RunISO(t) ==
    /\ op[t].cmd = "iso-run" /\ op[t].step = "used"
    /\ op' = [op EXCEPT ![t] = NoOp]
    /\ UNCHANGED <<folderVars, system, result>>

BuildDone(t) ==
    /\ op[t].cmd \in {"build-vm", "iso"} /\ op[t].step \in {"built", "used"}
    /\ op' = [op EXCEPT ![t] = NoOp]
    /\ UNCHANGED <<folderVars, system, result>>

\* test: the files that match the filter, if any, one after the other, whether
\* they pass or not.
discoverTests == (SUBSET (ShellTests \cup NixTests)) \ {{}}

Test(t) ==
    /\ FolderExists
    /\ \E selected \in discoverTests :
          Begins(t, "test", "test", [NoOp EXCEPT !.left = selected])
    /\ UNCHANGED <<folderVars, system, result>>

RunTest(t, tests) ==
    /\ op[t].step = "test"
    /\ \E f \in op[t].left \cap tests : op' = [op EXCEPT ![t].left = @ \ {f}]
    /\ UNCHANGED <<folderVars, system, result>>

\* bash, and nix-build without a link to what it builds.
RunShellTest(t) == RunTest(t, ShellTests)
RunNixTest(t)   == RunTest(t, NixTests)

TestDone(t) ==
    /\ op[t].step = "test" /\ op[t].left = {}
    /\ op' = [op EXCEPT ![t] = NoOp]
    /\ UNCHANGED <<folderVars, system, result>>

Kill(t) ==
    /\ op[t].step # "idle"
    /\ op' = [op EXCEPT ![t] = NoOp]
    /\ UNCHANGED <<folderVars, system, result>>

-----------------------------------------------------------------------------
ChangeFolder ==
    \/ NixStart \/ NixPull \/ NixCompute \/ NixLoad \/ NixPreRun
    \/ NixMerge \/ NixRender \/ RenderVersion \/ NixSave \/ Register \/ NixStop

UseFolder(t) ==
    \/ Switch(t) \/ NixosRebuild(t) \/ Activate(t)
    \/ Diff(t) \/ BuildVM(t) \/ ISO(t)
    \/ RebuildResult(t) \/ BuildISO(t) \/ BuildFails(t)
    \/ DiffClosures(t) \/ FindAndRunVM(t) \/ RemoveResult(t) \/ BuildDone(t)
    \/ ISORun(t) \/ RunISO(t)
    \/ Test(t) \/ RunShellTest(t) \/ RunNixTest(t) \/ TestDone(t)
    \/ Kill(t)

NixNext == ChangeFolder \/ \E t \in Terminals : UseFolder(t)

NixSpec == NixInit /\ [][NixNext]_nixVars

-----------------------------------------------------------------------------
(***************************************************************************)
(* Properties.                                                             *)
(***************************************************************************)
\* What the next `nix switch` applies is what values.yaml and its template say,
\* the file "version" included, after any sequence of inits and updates none of
\* which was cut short while saving.
NextSwitchIsRecorded ==
    Written /\ pc = "idle" /\ ~torn => Configuration = [values |-> file.keys, version |-> base]

\* `nix diff` compares, and `nix build-vm --run` boots, the configuration that the
\* same command has just built, unless another one moved the link ./result.
RunsWhatItBuilt ==
    \A t \in Terminals :
        op[t].step = "used" /\ op[t].cmd \in Builds /\ ~op[t].disturbed =>
            op[t].ran = op[t].built

\* "Creates an automatic backup before switching." (cmd/ctl/nix/README.md): what a
\* switch found when it began is in the backup when the host changes.
SwitchIsBackedUp ==
    [][system' # system =>
          \E t \in Terminals : op[t].step = "activate" /\ op[t].saved]_nixVars
=============================================================================
