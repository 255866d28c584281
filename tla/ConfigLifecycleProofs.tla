------------------------ MODULE ConfigLifecycleProofs -------------------------
(***************************************************************************)
(* Theorems about ConfigLifecycle, for any templates, inputs and answers,  *)
(* and about NixLifecycle, which extends it, for any number of terminals.  *)
(***************************************************************************)
EXTENDS NixLifecycle, TLAPS

Fields == {"cmd", "dir", "args", "reload", "conf", "arb", "before", "saved"}
JobShape == DOMAIN job = Fields

\* A version directory holds that version.
DirsInv ==
    /\ dirs \in [Dirs -> Versions \cup {Missing}]
    /\ \A v \in Versions : dirs[v] \in {v, Missing}

\* What values.yaml holds, or held when the command began, names the version it was
\* written from.
FromBase(f) == f \notin {NoFile, Empty} => f.config \in Versions /\ f.config = base

\* The template directory is there from where its parameters are read.
DirInv ==
    /\ job.dir \in Dirs
    /\ \/ pc \in {"render", "truncate", "write"}
       \/ pc = "backup" /\ job.cmd = "init"
       => dirs[job.dir] # Missing

\* The automatic backup, when it is of this folder, holds the file as an update found it.
SavedInv ==
    /\ pc # "idle" => job.cmd \in {"init", "update", "set"}
    /\ job.cmd = "set" => pc \in {"render", "truncate", "write"}
    /\ pc = "migrate" => file = Empty
    /\ job.cmd = "update" =>
          IF pc = "backup" THEN file = job.before ELSE InStore => job.saved \in {job.before, Failed}
    /\ job.cmd = "init" => pc \in {"pull", "fetch", "compute", "backup", "render", "truncate", "write"}

IInv == JobShape /\ DirsInv /\ FromBase(file) /\ FromBase(job.before) /\ DirInv /\ SavedInv

-----------------------------------------------------------------------------
USE DEF Step

\* The fields of the local variables, whatever they hold.
LEMMA NoJobShape ==
    /\ DOMAIN NoJob = Fields
    /\ NoJob.cmd = "none" /\ NoJob.dir = Latest /\ NoJob.before = NoFile
  BY DEF NoJob, Fields

\* An empty folder satisfies the invariant.
LEMMA InitInvariant == Init => IInv
<1> SUFFICES ASSUME Init PROVE IInv
  OBVIOUS
<1>1. job = NoJob /\ pc = "idle" /\ file = NoFile /\ dirs = [d \in Dirs |-> Missing]
  BY DEF Init
<1>2. DirsInv
  BY <1>1 DEF DirsInv, Dirs
<1> QED BY <1>1, <1>2, NoJobShape DEF IInv, JobShape, FromBase, DirInv, SavedInv, Dirs

\* What a step may do to the local variables of the command, but for its parameters.
Keeps == /\ DOMAIN job' = Fields
         /\ job'.cmd = job.cmd /\ job'.dir = job.dir /\ job'.before = job.before /\ job'.saved = job.saved

\* A command notes the file as it finds it.
LEMMA BeginKeeps ==
    ASSUME IInv, StartInit \/ StartUpdate
    PROVE  IInv'
<1>1. PICK cmd \in {"init", "update"}, dir \in Dirs :
        /\ pc' = (IF cmd = "init" THEN "pull" ELSE "backup")
        /\ job' = [NoJob EXCEPT !.cmd = cmd, !.dir = dir, !.before = file]
        /\ UNCHANGED <<dirs, file, base>>
  BY DEF StartInit, StartUpdate, Begin
<1>2. DOMAIN job' = Fields /\ job'.cmd = cmd /\ job'.dir = dir /\ job'.before = file
  BY <1>1, NoJobShape DEF Fields
<1> QED BY <1>1, <1>2 DEF IInv, JobShape, DirsInv, FromBase, DirInv, SavedInv

\* A command that ends anywhere leaves a folder the next one may start from.
LEMMA StopKeeps ==
    ASSUME IInv, Stop
    PROVE  IInv'
  BY NoJobShape DEF Stop, IInv, JobShape, DirsInv, FromBase, DirInv, SavedInv, Dirs

\* A pull replaces template directories but no values.
LEMMA PullKeeps ==
    ASSUME IInv, PullRefused \/ PullRemove \/ PullRetry \/ PullInstall
    PROVE  IInv'
<1>1. /\ pc \in {"pull", "fetch"} /\ pc' \in {"pull", "fetch", "compute", "prerun"}
      /\ pc' = "compute" => job.cmd = "init"
      /\ pc' = "prerun" => job.cmd # "init"
      /\ UNCHANGED <<job, file, base>>
  BY DEF PullRefused, PullRemove, PullRetry, PullInstall, AfterPull
<1>2. DirsInv'
  BY ConfigAssumption DEF IInv, DirsInv, DirInv, Dirs, PullRefused, PullRemove, PullRetry, PullInstall
<1> QED BY <1>1, <1>2 DEF IInv, JobShape, FromBase, DirInv, SavedInv

\* The parameters of an init are read from a directory that is there.
LEMMA InitComputeKeeps ==
    ASSUME IInv, InitCompute
    PROVE  IInv'
<1>1. /\ pc = "compute" /\ pc' = "backup" /\ job.cmd = "init"
      /\ dirs[job.dir] # Missing /\ UNCHANGED <<dirs, file, base>>
  BY DEF InitCompute
<1>2. Keeps
  BY DEF InitCompute, IInv, JobShape, Keeps, Fields
<1> QED BY <1>1, <1>2 DEF Keeps, IInv, JobShape, DirsInv, FromBase, DirInv, SavedInv

\* The backup is made before the file is changed.
LEMMA AutoBackupKeeps ==
    ASSUME IInv, AutoBackup
    PROVE  IInv'
<1>1. /\ pc = "backup" /\ pc' = (IF job.cmd = "init" THEN "render" ELSE "load")
      /\ UNCHANGED <<dirs, file, base>>
  BY DEF AutoBackup
<1>2. /\ DOMAIN job' = Fields /\ job'.cmd = job.cmd /\ job'.dir = job.dir /\ job'.before = job.before
      /\ InStore => job'.saved \in {file, Failed}
  BY DEF AutoBackup, Backups, IInv, JobShape, Fields
<1> QED BY <1>1, <1>2 DEF IInv, JobShape, DirsInv, FromBase, DirInv, SavedInv

\* A set starts from a loaded file, hence from the directory it names.
LEMMA SetLoadKeeps ==
    ASSUME IInv, SetLoad
    PROVE  IInv'
<1>1. /\ Written /\ dirs[file.config] # Missing /\ pc' = "render" /\ UNCHANGED <<dirs, file, base>>
      /\ DOMAIN job' = Fields /\ job'.cmd = "set" /\ job'.dir = file.config /\ job'.before = NoFile
  BY NoJobShape DEF SetLoad, Loadable, Fields
<1>2. file.config \in Dirs
  BY <1>1 DEF IInv, FromBase, Written, Dirs
<1> QED BY <1>1, <1>2 DEF IInv, JobShape, DirsInv, FromBase, DirInv, SavedInv

\* Loading and the pre-run script: the file is emptied only here.
LEMMA UpdateKeeps ==
    ASSUME IInv, UpdateLoad \/ UpdateNoPreRun \/ UpdatePreRun
    PROVE  IInv'
<1>1. /\ job.cmd = "update" /\ pc # "backup" /\ pc' \in {"pull", "merge", "migrate"}
      /\ pc' = "migrate" => file' = Empty
      /\ file' \in {file, Empty} /\ UNCHANGED <<dirs, base>>
  BY DEF UpdateLoad, UpdateNoPreRun, UpdatePreRun
<1>2. Keeps
  BY DEF UpdateLoad, UpdateNoPreRun, UpdatePreRun, IInv, JobShape, Keeps, Fields
<1> QED BY <1>1, <1>2 DEF Keeps, IInv, JobShape, DirsInv, FromBase, DirInv, SavedInv

\* What the script printed is the file the update found.
LEMMA MigrateKeeps ==
    ASSUME IInv, UpdateMigrate
    PROVE  IInv'
<1>1. /\ job.cmd = "update" /\ pc # "backup" /\ pc' = "merge"
      /\ file' = job.before /\ UNCHANGED <<dirs, base>>
  BY DEF UpdateMigrate
<1>2. Keeps
  BY DEF UpdateMigrate, IInv, JobShape, Keeps, Fields
<1> QED BY <1>1, <1>2 DEF Keeps, IInv, JobShape, DirsInv, FromBase, DirInv, SavedInv

\* An update renders from a directory that is there.
LEMMA MergeKeeps ==
    ASSUME IInv, UpdateMerge
    PROVE  IInv'
<1>1. /\ job.cmd = "update" /\ pc = "merge" /\ pc' = "render" /\ dirs[job.dir] # Missing
      /\ UNCHANGED <<dirs, file, base>>
  BY DEF UpdateMerge
<1>2. Keeps
  BY DEF UpdateMerge, IInv, JobShape, Keeps, Fields
<1> QED BY <1>1, <1>2 DEF Keeps, IInv, JobShape, DirsInv, FromBase, DirInv, SavedInv

\* Rendering and truncating.
LEMMA SaveKeeps ==
    ASSUME IInv, SaveRender \/ SaveTruncate
    PROVE  IInv'
<1>1. /\ \/ pc = "render" /\ pc' = "truncate" /\ file' = file
         \/ pc = "truncate" /\ pc' = "write" /\ file' = Empty
      /\ UNCHANGED <<dirs, job, base>>
  BY DEF SaveRender, SaveTruncate
<1> QED BY <1>1 DEF IInv, JobShape, DirsInv, FromBase, DirInv, SavedInv

\* stamus.config names the version directory, never latest.
LEMMA SaveWriteKeeps ==
    ASSUME IInv, SaveWrite
    PROVE  IInv'
<1>1. /\ pc = "write" /\ pc' = "idle" /\ job' = NoJob /\ dirs' = dirs /\ base' = dirs[job.dir]
      /\ file'.config = RecordedConfig
  BY DEF SaveWrite
<1>2. RecordedConfig \in Versions /\ RecordedConfig = dirs[job.dir]
  BY <1>1, ConfigAssumption DEF RecordedConfig, IInv, DirInv, DirsInv, Dirs
<1> QED BY <1>1, <1>2, NoJobShape DEF IInv, JobShape, DirsInv, FromBase, DirInv, SavedInv, Dirs

\* The invariant is inductive.
LEMMA StepInvariant == IInv /\ [Next]_vars => IInv'
<1> SUFFICES ASSUME IInv, [Next]_vars PROVE IInv'
  OBVIOUS
<1>1. CASE UNCHANGED vars
  BY <1>1 DEF vars, IInv, JobShape, DirsInv, FromBase, DirInv, SavedInv
<1> QED BY <1>1, BeginKeeps, StopKeeps, PullKeeps, InitComputeKeeps, AutoBackupKeeps, SetLoadKeeps,
           UpdateKeeps, MigrateKeeps, MergeKeeps, SaveKeeps, SaveWriteKeeps DEF Next

-----------------------------------------------------------------------------
\* The inductive invariant of a configuration folder.
THEOREM LifecycleInvariant == Spec => []IInv
<1> QED BY InitInvariant, StepInvariant, PTL DEF Spec

\* stamus.config: the directory it names holds, as long as it is there, the template that
\* the values were written from, after any series of inits, sets and updates.
THEOREM RecordedTemplateIsItsOwn == Spec => []LoadsWhatItWasWrittenFrom
<1>1. IInv => LoadsWhatItWasWrittenFrom
  BY DEF IInv, FromBase, DirsInv, LoadsWhatItWasWrittenFrom, Written
<1> QED BY <1>1, LifecycleInvariant, PTL

\* update, of a configuration in ConfigsFolder: values.yaml is emptied only after it was
\* backed up as it was, or the backup failed.
THEOREM BackupComesFirst == ASSUME InStore PROVE Spec => BackedUpBeforeTruncated
<1>1. ASSUME IInv, Next, file' = Empty, file \notin {NoFile, Empty}, job.cmd = "update"
      PROVE  job.saved \in {job.before, Failed}
  <2>1. file' # file
    BY <1>1
  <2>2. UpdatePreRun \/ UpdateMigrate \/ SaveTruncate \/ SaveWrite
          => pc \in {"prerun", "migrate", "truncate", "write"}
    BY DEF UpdatePreRun, UpdateMigrate, SaveTruncate, SaveWrite, Step
  <2>3. StartInit \/ StartUpdate \/ Stop \/ SetLoad => file' = file
    BY DEF StartInit, StartUpdate, Begin, Stop, SetLoad
  <2>4. PullRefused \/ PullRemove \/ PullRetry \/ PullInstall \/ InitCompute \/ AutoBackup => file' = file
    BY DEF PullRefused, PullRemove, PullRetry, PullInstall, InitCompute, AutoBackup
  <2>5. UpdateLoad \/ UpdateNoPreRun \/ UpdateMerge \/ SaveRender => file' = file
    BY DEF UpdateLoad, UpdateNoPreRun, UpdateMerge, SaveRender
  <2>6. pc \in {"prerun", "migrate", "truncate", "write"}
    BY <1>1, <2>1, <2>2, <2>3, <2>4, <2>5 DEF Next
  <2> QED BY <1>1, <2>6 DEF IInv, SavedInv
<1>2. IInv /\ [Next]_vars =>
         [file' = Empty /\ file \notin {NoFile, Empty} /\ job.cmd = "update"
             => job.saved \in {job.before, Failed}]_vars
  BY <1>1
<1> QED BY <1>2, LifecycleInvariant, PTL DEF Spec, BackedUpBeforeTruncated

-----------------------------------------------------------------------------
(***************************************************************************)
(* A NixOS host.  What nix init and nix update do to the folder are steps  *)
(* of ConfigLifecycle, so its theorems hold there too; and the commands    *)
(* that build and use ./result agree on what it is.                        *)
(***************************************************************************)
\* Registering, rendering "version" and all the commands of other terminals leave the
\* folder alone; the rest are steps of a configuration's life.
LEMMA NixStepIsStep == NixNext => [Next]_vars
<1>1. ChangeFolder => [Next]_vars
  <2>1. NixStart \/ NixPull \/ NixCompute \/ NixLoad => Next
    BY DEF NixStart, NixPull, NixCompute, NixLoad, Next
  <2>2. NixPreRun \/ NixMerge \/ NixRender => Next
    BY DEF NixPreRun, NixMerge, NixRender, Next
  <2>3. NixSave => Next
    BY DEF NixSave, Next
  <2>4. NixStop => [Next]_vars
    BY DEF NixStop, Next
  <2>5. RenderVersion \/ Register => UNCHANGED vars
    BY DEF RenderVersion, Register
  <2> QED BY <2>1, <2>2, <2>3, <2>4, <2>5 DEF ChangeFolder
<1>2. ASSUME NEW t \in Terminals, UseFolder(t)
      PROVE  UNCHANGED vars
  <2>1. Switch(t) \/ NixosRebuild(t) \/ Activate(t) => UNCHANGED vars
    BY DEF Switch, NixosRebuild, Activate, folderVars
  <2>2. Diff(t) \/ BuildVM(t) \/ ISO(t) \/ RebuildResult(t) \/ BuildISO(t) \/ BuildFails(t)
        => UNCHANGED vars
    BY DEF Diff, BuildVM, ISO, StartBuild, RebuildResult, BuildISO, Build, BuildFails, folderVars
  <2>3. DiffClosures(t) \/ FindAndRunVM(t) \/ RemoveResult(t) \/ BuildDone(t) \/ ISORun(t) \/ RunISO(t)
        => UNCHANGED vars
    BY DEF DiffClosures, FindAndRunVM, UseResult, RemoveResult, BuildDone, ISORun, RunISO, folderVars
  <2>4. Test(t) \/ RunShellTest(t) \/ RunNixTest(t) \/ TestDone(t) \/ Kill(t) => UNCHANGED vars
    BY DEF Test, RunShellTest, RunNixTest, RunTest, TestDone, Kill, folderVars
  <2> QED BY <1>2, <2>1, <2>2, <2>3, <2>4 DEF UseFolder
<1> QED BY <1>1, <1>2 DEF NixNext

\* nix init and nix update take the steps of compose init and compose update: the life
\* of a NixOS configuration is one of a configuration folder.
THEOREM NixKeepsFolder == NixSpec => Spec
<1>1. NixInit => Init
  BY DEF NixInit
<1>2. [NixNext]_nixVars => [Next]_vars
  BY NixStepIsStep DEF nixVars
<1> QED BY <1>1, <1>2, PTL DEF NixSpec, Spec

\* nix init and nix update: stamus.config names the template the values were written
\* from.
THEOREM NixRecordsItsTemplate == NixSpec => []LoadsWhatItWasWrittenFrom
  BY NixKeepsFolder, RecordedTemplateIsItsOwn, PTL

\* nix update, of a configuration in ConfigsFolder: values.yaml is emptied only after it
\* was backed up.
THEOREM NixBackupComesFirst == ASSUME InStore PROVE NixSpec => BackedUpBeforeTruncated
  BY NixKeepsFolder, BackupComesFirst, PTL

-----------------------------------------------------------------------------
(***************************************************************************)
(* The link ./result.                                                      *)
(***************************************************************************)
OpFields == {"cmd", "step", "saved", "built", "ran", "disturbed", "left"}

\* Where nobody disturbed a terminal, the link r is its own, or gone.
OpInv(o, r) ==
    /\ DOMAIN o = OpFields /\ o.disturbed \in BOOLEAN
    /\ o.cmd \in Builds /\ ~o.disturbed =>
          /\ o.step = "built" => r = None \/ r.of = o.built
          /\ o.step = "used" => o.ran = o.built

ResultInv == DOMAIN op = Terminals /\ \A t \in Terminals : OpInv(op[t], result)

\* What NoOp holds.
LEMMA NoOpShape ==
    /\ DOMAIN NoOp = OpFields /\ NoOp.disturbed = FALSE
    /\ NoOp.step = "idle"
  BY DEF NoOp, OpFields

\* A terminal that changes nothing but its own command.
LEMMA OwnKeeps ==
    ASSUME ResultInv, NEW t \in Terminals, NEW o, op' = [op EXCEPT ![t] = o], result' = result,
           OpInv(o, result)
    PROVE  ResultInv'
  BY DEF ResultInv, OpInv

\* A terminal that moves the link: the others that build notice.
LEMMA RelinkKeeps ==
    ASSUME ResultInv, NEW t \in Terminals, NEW o, Relink(t, o), OpInv(o, result')
    PROVE  ResultInv'
<1>1. DOMAIN op' = Terminals /\ op'[t] = o
  BY DEF Relink
<1>2. ASSUME NEW u \in Terminals, u # t
      PROVE  OpInv(op'[u], result')
  <2>1. op'[u] = [op[u] EXCEPT !.disturbed = @ \/ op[u].cmd \in Builds]
    BY <1>2 DEF Relink
  <2>2. /\ DOMAIN op[u] = OpFields /\ op[u].disturbed \in BOOLEAN
    BY DEF ResultInv, OpInv
  <2>3. /\ DOMAIN op'[u] = OpFields
        /\ op'[u].disturbed = (op[u].disturbed \/ op[u].cmd \in Builds)
        /\ op'[u].cmd = op[u].cmd
    BY <2>1, <2>2 DEF OpFields
  <2> QED BY <2>2, <2>3 DEF OpInv
<1> QED BY <1>1, <1>2 DEF ResultInv

\* A command that begins, and does not yet build.
LEMMA StartKeeps ==
    ASSUME ResultInv, NEW t \in Terminals, NEW o, DOMAIN o = OpFields, o.disturbed = FALSE,
           NEW cmd, NEW step \in {"rebuild", "build", "test", "used"},
           step # "used" \/ cmd = "iso-run", Begins(t, cmd, step, o), result' = result
    PROVE  ResultInv'
<1> DEFINE begun == [o EXCEPT !.cmd = cmd, !.step = step]
<1>1. op' = [op EXCEPT ![t] = begun]
  BY DEF Begins
<1>2. DOMAIN begun = OpFields /\ begun.disturbed = FALSE /\ begun.cmd = cmd /\ begun.step = step
  BY DEF OpFields
<1> HIDE DEF begun
<1>3. OpInv(begun, result)
  BY <1>2 DEF OpInv, Builds
<1> QED BY <1>1, <1>3, OwnKeeps

\* The commands that run nixos-rebuild or tests, and those that end or are killed,
\* never have built anything.
LEMMA OtherKeeps ==
    ASSUME ResultInv, NEW t \in Terminals,
           \/ Switch(t) \/ NixosRebuild(t) \/ Activate(t)
           \/ Test(t) \/ RunShellTest(t) \/ RunNixTest(t) \/ TestDone(t) \/ Kill(t)
           \/ BuildFails(t) \/ BuildDone(t) \/ ISORun(t) \/ RunISO(t)
    PROVE  ResultInv'
<1> USE NoOpShape
<1>0. OpInv(op[t], result) /\ DOMAIN op = Terminals
  BY DEF ResultInv
<1>1. CASE Activate(t) \/ TestDone(t) \/ Kill(t) \/ BuildFails(t) \/ BuildDone(t) \/ RunISO(t)
  <2>1. op' = [op EXCEPT ![t] = NoOp] /\ result' = result
    BY <1>1 DEF Activate, TestDone, Kill, BuildFails, BuildDone, RunISO, folderVars
  <2>2. OpInv(NoOp, result)
    BY DEF OpInv
  <2> QED BY <2>1, <2>2, OwnKeeps
<1>2. CASE Switch(t) \/ Test(t) \/ ISORun(t)
  <2>1. CASE Switch(t)
    <3>1. PICK saved \in BOOLEAN : Begins(t, "switch", "rebuild", [NoOp EXCEPT !.saved = saved])
      BY <2>1 DEF Switch
    <3>2. /\ DOMAIN [NoOp EXCEPT !.saved = saved] = OpFields
          /\ [NoOp EXCEPT !.saved = saved].disturbed = FALSE
      BY DEF OpFields
    <3> QED BY <2>1, <3>1, <3>2, StartKeeps DEF Switch
  <2>2. CASE Test(t)
    <3>1. PICK left \in discoverTests : Begins(t, "test", "test", [NoOp EXCEPT !.left = left])
      BY <2>2 DEF Test
    <3>2. /\ DOMAIN [NoOp EXCEPT !.left = left] = OpFields
          /\ [NoOp EXCEPT !.left = left].disturbed = FALSE
      BY DEF OpFields
    <3> QED BY <2>2, <3>1, <3>2, StartKeeps DEF Test
  <2>3. CASE ISORun(t)
    BY <2>3, StartKeeps DEF ISORun
  <2> QED BY <1>2, <2>1, <2>2, <2>3
<1>3. CASE NixosRebuild(t)
  <2>1. OpInv([op[t] EXCEPT !.step = "activate", !.built = Configuration], result)
    BY <1>0, <1>3 DEF OpInv, OpFields, NixosRebuild, Builds
  <2>2. op' = [op EXCEPT ![t] = [op[t] EXCEPT !.step = "activate", !.built = Configuration]]
        /\ result' = result
    BY <1>0, <1>3 DEF NixosRebuild
  <2> QED BY <2>1, <2>2, OwnKeeps
<1>4. CASE RunShellTest(t) \/ RunNixTest(t)
  <2>1. PICK f : op[t].step = "test" /\ op' = [op EXCEPT ![t].left = @ \ {f}] /\ result' = result
    BY <1>4 DEF RunShellTest, RunNixTest, RunTest
  <2>2. OpInv([op[t] EXCEPT !.left = @ \ {f}], result)
    BY <1>0, <2>1 DEF OpInv, OpFields
  <2>3. op' = [op EXCEPT ![t] = [op[t] EXCEPT !.left = @ \ {f}]]
    BY <1>0, <2>1
  <2> QED BY <2>1, <2>2, <2>3, OwnKeeps
<1> QED BY <1>1, <1>2, <1>3, <1>4

\* diff, build-vm and iso.
LEMMA BuildKeeps ==
    ASSUME ResultInv, NEW t \in Terminals,
           \/ Diff(t) \/ BuildVM(t) \/ ISO(t)
           \/ RebuildResult(t) \/ BuildISO(t) \/ DiffClosures(t) \/ FindAndRunVM(t) \/ RemoveResult(t)
    PROVE  ResultInv'
<1> USE NoOpShape
<1>0. OpInv(op[t], result) /\ DOMAIN op = Terminals
  BY DEF ResultInv
<1>1. CASE Diff(t) \/ BuildVM(t) \/ ISO(t)
  BY <1>1, StartKeeps DEF Diff, BuildVM, ISO, StartBuild
<1>2. CASE RebuildResult(t) \/ BuildISO(t)
  <2> DEFINE o == [op[t] EXCEPT !.step = "built", !.built = Configuration]
  <2>1. Relink(t, o) /\ result'.of = Configuration
    BY <1>2 DEF RebuildResult, BuildISO, Build
  <2>2. DOMAIN o = OpFields /\ o.disturbed \in BOOLEAN /\ o.step = "built" /\ o.built = Configuration
    BY <1>0 DEF OpInv, OpFields
  <2> HIDE DEF o
  <2>3. OpInv(o, result')
    BY <2>1, <2>2 DEF OpInv
  <2> QED BY <2>1, <2>3, RelinkKeeps
<1>3. CASE DiffClosures(t) \/ FindAndRunVM(t)
  <2>1. /\ op[t].cmd \in Builds /\ op[t].step = "built" /\ result # None /\ result' = result
        /\ op' = [op EXCEPT ![t].step = "used", ![t].ran = result.of]
    BY <1>3 DEF DiffClosures, FindAndRunVM, UseResult, Builds
  <2>2. op' = [op EXCEPT ![t] = [op[t] EXCEPT !.step = "used", !.ran = result.of]]
    BY <1>0, <2>1
  <2>3. OpInv([op[t] EXCEPT !.step = "used", !.ran = result.of], result)
    BY <1>0, <2>1 DEF OpInv, OpFields
  <2> QED BY <2>1, <2>2, <2>3, OwnKeeps
<1>4. CASE RemoveResult(t)
  <2>1. Relink(t, NoOp) /\ OpInv(NoOp, result')
    BY <1>4 DEF RemoveResult, OpInv
  <2> QED BY <2>1, RelinkKeeps
<1> QED BY <1>1, <1>2, <1>3, <1>4

\* What ./result was moved to, and by whom, is known to those that build: the
\* inductive invariant.
THEOREM ResultInvariant == NixSpec => []ResultInv
<1>1. NixInit => ResultInv
  BY NoOpShape DEF NixInit, ResultInv, OpInv
<1>2. ResultInv /\ [NixNext]_nixVars => ResultInv'
  <2> SUFFICES ASSUME ResultInv, [NixNext]_nixVars PROVE ResultInv'
    OBVIOUS
  <2>1. CASE UNCHANGED nixVars
    BY <2>1 DEF nixVars, ResultInv, OpInv
  <2>2. CASE ChangeFolder
    <3>1. UNCHANGED <<result, op>>
      <4>1. NixStart \/ NixPull \/ NixCompute \/ NixLoad \/ NixPreRun => UNCHANGED <<result, op>>
        BY DEF NixStart, NixPull, NixCompute, NixLoad, NixPreRun, restVars, hostVars
      <4>2. NixMerge \/ NixRender \/ RenderVersion => UNCHANGED <<result, op>>
        BY DEF NixMerge, NixRender, RenderVersion, restVars, hostVars
      <4>3. NixSave \/ Register \/ NixStop => UNCHANGED <<result, op>>
        BY DEF NixSave, Register, NixStop, restVars, hostVars
      <4> QED BY <2>2, <4>1, <4>2, <4>3 DEF ChangeFolder
    <3> QED BY <3>1 DEF ResultInv, OpInv
  <2>3. CASE \E t \in Terminals : UseFolder(t)
    BY <2>3, OtherKeeps, BuildKeeps DEF UseFolder
  <2> QED BY <2>1, <2>2, <2>3 DEF NixNext
<1> QED BY <1>1, <1>2, PTL DEF NixSpec

\* nix diff and nix build-vm --run: they compare, or boot, what they have built, unless
\* another command moved the link.
THEOREM ResultIsItsOwn == NixSpec => []RunsWhatItBuilt
<1>1. ResultInv => RunsWhatItBuilt
  BY DEF ResultInv, OpInv, RunsWhatItBuilt
<1> QED BY <1>1, ResultInvariant, PTL

-----------------------------------------------------------------------------
(***************************************************************************)
(* The operators of ConfigParameters.                                      *)
(***************************************************************************)
Params == [tpl : Templates, live : SUBSET Keys, var : Partial]

\* The parameters of a template have no values yet.
LEMMA ExtractType ==
    ASSUME NEW t \in Templates
    PROVE  ExtractParams(t) \in Params
  BY DEF ExtractParams, Params, Templates, Partial

\* Assigning values, whatever is assigned, keeps the keys and the template.
LEMMA AssignType ==
    ASSUME NEW p \in Params, NEW f \in Partial
    PROVE  Assign(p, f) \in Params /\ Assign(p, f).live = p.live /\ Assign(p, f).tpl = p.tpl
<1> DEFINE var == [k \in Keys |-> IF k \in p.live /\ f[k] # Nil THEN f[k] ELSE p.var[k]]
<1>1. p.var \in Partial
  BY DEF Params
<1>2. var \in Partial
  BY <1>1 DEF Partial
<1>3. Assign(p, f) = [p EXCEPT !.var = var]
  BY DEF Assign
<1> HIDE DEF var
<1> QED BY <1>2, <1>3 DEF Params

\* Values of the wrong type are left out.
LEMMA LooseType ==
    ASSUME NEW p \in Params, NEW f \in Partial
    PROVE  SetLooseValues(p, f) \in Params
<1> DEFINE g == [k \in Keys |-> IF f[k] # Nil /\ Accepts(Type(p, k), f[k]) THEN f[k] ELSE Nil]
<1>1. g \in Partial
  BY DEF Partial
<1>2. SetLooseValues(p, f) = Assign(p, g)
  BY DEF SetLooseValues
<1> HIDE DEF g
<1> QED BY <1>1, <1>2, AssignType

\* What is carried over to another version.
LEMMA SmartMergeType ==
    ASSUME NEW p \in Params, NEW old \in Params
    PROVE  SetValuesSmartMerge(p, old) \in Params
<1> DEFINE g == [k \in Keys |-> IF k \in old.live /\ old.var[k] # Default(old, k)
                                THEN old.var[k] ELSE Nil]
<1>1. g \in Partial
  BY DEF Partial, Params
<1>2. SetValuesSmartMerge(p, old) = Assign(p, g)
  BY DEF SetValuesSmartMerge
<1> HIDE DEF g
<1> QED BY <1>1, <1>2, AssignType

\* Switches that are on, and what begins like one that is off, are deleted.
LEMMA ProcessType ==
    ASSUME NEW p \in Params
    PROVE  /\ ProcessOptionnalParams(p) \in Params /\ ProcessOptionnalParams(p).tpl = p.tpl
           /\ \A k : k \in ProcessOptionnalParams(p).live <=>
                       /\ k \in p.live /\ k \notin Optionals(p) \ SwitchedOff(p)
                       /\ \A o \in SwitchedOff(p) : k \notin Prefixed[o]
           /\ \A k \in Keys : ProcessOptionnalParams(p).var[k] =
                              IF k \in Optionals(p) /\ p.var[k] = Nil THEN Default(p, k) ELSE p.var[k]
<1> DEFINE live == p.live \ ((UNION {Prefixed[k] : k \in SwitchedOff(p)})
                                \cup (Optionals(p) \ SwitchedOff(p)))
           var == [k \in Keys |-> IF k \in Optionals(p) /\ p.var[k] = Nil
                                  THEN Default(p, k) ELSE p.var[k]]
<1>1. var \in Partial /\ live \in SUBSET Keys
  BY DEF Partial, Params, Default, Templates
<1>2. ProcessOptionnalParams(p) = [p EXCEPT !.live = live, !.var = var]
  BY DEF ProcessOptionnalParams
<1>3. \A k \in Keys : var[k] = IF k \in Optionals(p) /\ p.var[k] = Nil THEN Default(p, k) ELSE p.var[k]
  OBVIOUS
<1>4. \A k : k \in live <=> /\ k \in p.live /\ k \notin Optionals(p) \ SwitchedOff(p)
                            /\ \A o \in SwitchedOff(p) : k \notin Prefixed[o]
  OBVIOUS
<1> HIDE DEF live, var
<1>5. ProcessOptionnalParams(p) \in Params /\ ProcessOptionnalParams(p).tpl = p.tpl
      /\ ProcessOptionnalParams(p).live = live /\ ProcessOptionnalParams(p).var = var
  BY <1>1, <1>2 DEF Params
<1> QED BY <1>3, <1>4, <1>5

\* Defaults where no value is.
LEMMA DefaultsType ==
    ASSUME NEW p \in Params
    PROVE  SetToDefaults(p) \in Params
<1> DEFINE q == ProcessOptionnalParams(p)
           g == [k \in Keys |-> IF k \in q.live /\ q.var[k] = Nil THEN Default(q, k) ELSE Nil]
<1>1. q \in Params
  BY ProcessType
<1>2. SetToDefaults(p) = Assign(q, g)
  BY DEF SetToDefaults
<1> HIDE DEF q
<1>3. g \in Partial
  BY <1>1 DEF Partial, Params, Default, Templates
<1> HIDE DEF g
<1> QED BY <1>1, <1>2, <1>3, AssignType

\* Answers where no value is.
LEMMA AskType ==
    ASSUME NEW p \in Params, NEW answers \in [Keys -> Values]
    PROVE  AskMissing(p, answers) \in Params /\ Answered(p, answers) \in Partial
<1> DEFINE q == ProcessOptionnalParams(p)
           g == Answered(p, answers)
<1>1. q \in Params
  BY ProcessType
<1>2. g \in Partial
  BY DEF Partial, Answered
<1>3. AskMissing(p, answers) = Assign(q, g)
  BY DEF AskMissing
<1> HIDE DEF q, g
<1> QED BY <1>1, <1>2, <1>3, AssignType DEF g

\* Values that override others.
LEMMA OverrideType ==
    ASSUME NEW f \in Partial, NEW g \in Partial
    PROVE  Override(f, g) \in Partial
  BY DEF Override, Partial

\* A parameter always has a value: its own, or its default.
LEMMA GetValueType ==
    ASSUME NEW p \in Params, NEW k \in Keys
    PROVE  GetValue(p, k) \in Values /\ GetValue(p, k) # Nil
  BY KeysAssumption DEF GetValue, AsType, Default, Params, Partial, Templates, Values

\* What is filtered, and what the templates are given.
LEMMA DataType ==
    ASSUME NEW p \in Params, NEW arb \in Partial
    PROVE  KeptArbitrary(p, arb) \in Partial /\ Flat(p, arb) \in Partial /\ GetData(p, arb) \in Partial
<1>1. KeptArbitrary(p, arb) \in Partial
  BY DEF KeptArbitrary, Partial
<1>2. Flat(p, arb) \in Partial
  BY <1>1, GetValueType DEF Flat, Partial
<1>3. GetData(p, arb) \in Partial
  BY <1>2 DEF GetData, Partial
<1> QED BY <1>1, <1>2, <1>3

\* values.yaml holds values.
LEMMA RecordedType ==
    ASSUME NEW p \in Params, NEW arb \in Partial
    PROVE  Recorded(p, arb) \subseteq Partial
<1> DEFINE kept == KeptArbitrary(p, arb)
           R(A, P) == [k \in Keys |-> CASE k \in P -> GetValue(p, k)
                            [] k \in A /\ (\A j \in p.live : ~Related(j, k)) -> kept[k]
                            [] OTHER -> Nil]
<1>1. kept \in Partial
  BY DataType
<1>2. \A f \in Recorded(p, arb) : \E A, P : f = R(A, P)
  BY DEF Recorded
<1> HIDE DEF kept
<1>3. \A A, P : R(A, P) \in Partial
  BY <1>1, GetValueType DEF Partial
<1> HIDE DEF R
<1> QED BY <1>2, <1>3

-----------------------------------------------------------------------------
(***************************************************************************)
(* What a save records, and what it renders.                               *)
(***************************************************************************)
\* No two of the keys are below each other.
Unrelated(S) == \A j, k \in S : ~Related(j, k)

\* Of the keys that are saved none is below another, but for parameters below a switch
\* that is given on; it is deleted from the parameters then.
Unambiguous(p, arb) ==
    LET under == Present(KeptArbitrary(p, arb)) \ p.live
    IN  Unrelated(p.live) /\ Unrelated(under) /\ \A k \in under, j \in p.live : k \notin Below[j]

\* The order of a Go map does not matter where no key is below another.
LEMMA OneOutcome ==
    ASSUME NEW S \in SUBSET Keys, Unrelated(S)
    PROVE  Outcomes(S) = {S}
<1>1. S \in Outcomes(S)
  BY DEF Outcomes, Unrelated
<1>2. ASSUME NEW R \in Outcomes(S)
      PROVE  R = S
  <2>1. /\ R \subseteq S
        /\ \A j \in S \ R : \E k \in S : \E r \in R :
              {j, r} \subseteq Below[k] \cup {k} /\ (j = k \/ Related(j, k))
    BY DEF Outcomes
  <2> SUFFICES ASSUME NEW j \in S \ R
               PROVE  FALSE
    BY <2>1
  <2>2. PICK k \in S, r \in R : {j, r} \subseteq Below[k] \cup {k} /\ (j = k \/ Related(j, k))
    BY <2>1
  <2>3. j = k
    BY <2>2 DEF Unrelated
  <2>4. r \in Below[j] /\ r \in S
    BY <2>1, <2>2, <2>3
  <2> QED BY <2>4 DEF Unrelated, Related
<1> QED BY <1>1, <1>2

\* saveParamsTo and GetData: values.yaml records what the templates were given, key by
\* key.
LEMMA RecordedIsData ==
    ASSUME NEW p \in Params, NEW arb \in Partial, Unambiguous(p, arb)
    PROVE  Recorded(p, arb) = {GetData(p, arb)}
<1> DEFINE kept == KeptArbitrary(p, arb)
           under == Present(kept) \ p.live
           Value(A, P, k) == CASE k \in P -> GetValue(p, k)
                               [] k \in A /\ (\A j \in p.live : ~Related(j, k)) -> kept[k]
                               [] OTHER -> Nil
           R(A, P) == [k \in Keys |-> Value(A, P, k)]
           Given(k) == IF \E j \in Present(Flat(p, arb)) : j \in Below[k] THEN Nil ELSE Flat(p, arb)[k]
<1>1. p.live \in SUBSET Keys /\ under \in SUBSET Keys
  BY DEF Params, Present
<1>2. Unrelated(p.live) /\ Unrelated(under) /\ \A k \in under, j \in p.live : k \notin Below[j]
  BY DEF Unambiguous
<1>3. Outcomes(under) = {under} /\ Outcomes(p.live) = {p.live}
  BY <1>1, <1>2, OneOutcome
<1>4. Recorded(p, arb) = {R(A, P) : A \in Outcomes(under), P \in Outcomes(p.live)}
  BY DEF Recorded
<1>5. Recorded(p, arb) = {R(under, p.live)}
  <2> HIDE DEF R, under
  <2> QED BY <1>3, <1>4
<1>6. R(under, p.live) = GetData(p, arb)
  <2> DEFINE flat == Flat(p, arb)
  <2>1. \A k \in Keys : flat[k] = IF k \in p.live THEN GetValue(p, k) ELSE kept[k]
    BY DEF Flat
  <2>2. \A k \in Keys : k \in under <=> k \notin p.live /\ kept[k] # Nil
    BY DEF Present
  <2>3. GetData(p, arb) = [k \in Keys |-> Given(k)]
    BY DEF GetData
  <2>4. \A j \in Keys : j \in Present(flat) <=> j \in p.live \/ j \in under
    BY <2>1, <2>2, GetValueType DEF Present
  <2>5. Present(flat) \subseteq Keys
    BY DEF Present
  <2> SUFFICES ASSUME NEW k \in Keys
               PROVE  Value(under, p.live, k) = Given(k)
    <3> HIDE DEF Value, Given, under
    <3> QED BY <2>3
  <2> HIDE DEF flat, under, kept
  <2>9. Given(k) = IF \E j \in Present(flat) : j \in Below[k] THEN Nil ELSE flat[k]
    BY DEF flat
  <2>6. CASE k \in p.live
    <3>1. ~\E j \in Present(flat) : j \in Below[k]
      BY <1>2, <2>4, <2>5, <2>6 DEF Unrelated, Related
    <3>2. flat[k] = GetValue(p, k) /\ Given(k) = flat[k]
      BY <2>1, <2>6, <2>9, <3>1
    <3>3. Value(under, p.live, k) = GetValue(p, k)
      BY <2>2, <2>6
    <3> HIDE DEF Value, Given
    <3> QED BY <3>2, <3>3
  <2>7. CASE k \in under
    <3> DEFINE Shadowed == \E j \in Present(flat) : j \in Below[k]
               Displaced == \E j \in p.live : Related(j, k)
    <3>1. Shadowed <=> Displaced
      BY <1>1, <1>2, <2>4, <2>5, <2>7 DEF Unrelated, Related
    <3>2. k \notin p.live /\ flat[k] = kept[k]
      BY <2>1, <2>2, <2>7
    <3>3. Value(under, p.live, k) = IF ~Displaced THEN kept[k] ELSE Nil
      BY <2>7, <3>2
    <3>4. Given(k) = IF Shadowed THEN Nil ELSE flat[k]
      BY <2>9
    <3> HIDE DEF Value, Given, Shadowed, Displaced
    <3> QED BY <3>1, <3>2, <3>3, <3>4
  <2>8. CASE k \notin p.live /\ k \notin under
    <3>1. kept[k] = Nil /\ flat[k] = Nil
      BY <2>1, <2>2, <2>8
    <3>2. Given(k) = Nil
      BY <2>9, <3>1
    <3> QED BY <2>8, <3>2
  <2> QED BY <2>6, <2>7, <2>8
<1> QED BY <1>5, <1>6

-----------------------------------------------------------------------------
(***************************************************************************)
(* Types.                                                                  *)
(***************************************************************************)
Jobs == [cmd : {"none", "init", "set", "update"}, dir : Dirs, args : Partial, reload : BOOLEAN,
         conf : Params, arb : Partial, before : Files, saved : Files \cup {Failed, Other}]

\* An update that has loaded the file has found one.
FoundInv ==
    job.cmd = "update" =>
        /\ pc = "load" => file = job.before
        /\ pc \in {"pull", "fetch", "prerun", "migrate"} => job.before \notin {NoFile, Empty}

TypeInv ==
    /\ file \in Files /\ rendered \in Partial /\ chosen \in Partial
    /\ pc \in Steps /\ job \in Jobs /\ (pc = "idle" => job = NoJob)
    /\ base \in Versions \cup {Missing} /\ torn \in BOOLEAN
    /\ FoundInv

\* A template directory that is there holds a template; nothing is set, and no command
\* runs, at first.
LEMMA BasicTypes ==
    /\ Unset \in Partial /\ NoJob \in Jobs
    /\ DirsInv => \A d \in Dirs : dirs[d] # Missing => dirs[d] \in Versions /\ Content(d) \in Templates
<1>1. Unset \in Partial
  BY DEF Unset, Partial
<1>2. DirsInv => \A d \in Dirs : dirs[d] # Missing => dirs[d] \in Versions /\ Content(d) \in Templates
  BY ConfigAssumption DEF DirsInv, Content
<1>3. ExtractParams(Published[CHOOSE v \in Versions : TRUE]) \in Params
  <2> DEFINE v0 == CHOOSE v \in Versions : TRUE
  <2>1. v0 \in Versions
    BY ConfigAssumption
  <2>2. Published[v0] \in Templates
    BY <2>1, ConfigAssumption
  <2> HIDE DEF v0
  <2>3. ExtractParams(Published[v0]) \in Params
    BY <2>2, ExtractType
  <2> QED BY <2>3 DEF v0
<1>4. NoJob \in Jobs
  <2> DEFINE conf0 == ExtractParams(Published[CHOOSE v \in Versions : TRUE])
  <2>1. NoJob = [cmd |-> "none", dir |-> Latest, args |-> Unset, reload |-> FALSE,
                 conf |-> conf0, arb |-> Unset, before |-> NoFile, saved |-> NoFile]
    BY DEF NoJob
  <2>2. conf0 \in Params
    BY <1>3
  <2> HIDE DEF conf0
  <2> QED BY <1>1, <2>1, <2>2 DEF Jobs, Dirs, Files
<1> QED BY <1>1, <1>2, <1>4

\* A recorded file that can be loaded.
LEMMA LoadedType ==
    ASSUME IInv, NEW f \in Files, FromBase(f), f \notin {NoFile, Empty}, dirs[f.config] # Missing
    PROVE  SetValues(ExtractParams(Content(f.config)), f.keys) \in Params /\ f.keys \in Partial
<1>1. f.keys \in Partial /\ f.config \in Dirs
  BY DEF Files
<1>2. Content(f.config) \in Templates
  BY <1>1, BasicTypes DEF IInv
<1>3. ExtractParams(Content(f.config)) \in Params
  BY <1>2, ExtractType
<1> QED BY <1>1, <1>3, AssignType DEF SetValues

\* An empty folder.
LEMMA InitTypes == Init => TypeInv
<1> SUFFICES ASSUME Init PROVE TypeInv
  OBVIOUS
<1>1. Unset \in Partial /\ NoJob \in Jobs
  BY BasicTypes
<1> QED BY <1>1, NoJobShape DEF Init, TypeInv, FoundInv, Files, Steps

\* Commands that begin and end, and pulls.
LEMMA BeginTypes ==
    ASSUME IInv, TypeInv, StartInit \/ StartUpdate \/ Stop
    PROVE  TypeInv'
<1>1. UNCHANGED <<file, rendered, chosen, base, torn>>
  BY DEF StartInit, StartUpdate, Begin, Stop
<1>2. CASE Stop
  BY <1>1, <1>2, BasicTypes, NoJobShape DEF Stop, TypeInv, FoundInv, Steps
<1>3. CASE StartInit \/ StartUpdate
  <2>1. PICK cmd \in {"init", "update"}, dir \in Dirs :
          /\ pc' = (IF cmd = "init" THEN "pull" ELSE "backup")
          /\ job' = [NoJob EXCEPT !.cmd = cmd, !.dir = dir, !.before = file]
    BY <1>3 DEF StartInit, StartUpdate, Begin
  <2>2. job' \in Jobs /\ job'.cmd = cmd
    BY <2>1, BasicTypes DEF TypeInv, Jobs
  <2>3. pc' \in Steps /\ pc' # "idle" /\ FoundInv'
    BY <2>1, <2>2 DEF Steps, FoundInv
  <2> QED BY <1>1, <2>2, <2>3 DEF TypeInv
<1> QED BY <1>2, <1>3

\* A pull.
LEMMA PullTypes ==
    ASSUME IInv, TypeInv, PullRefused \/ PullRemove \/ PullRetry \/ PullInstall
    PROVE  TypeInv'
<1>1. /\ pc \in {"pull", "fetch"} /\ pc' \in {"pull", "fetch", "compute", "prerun"}
      /\ UNCHANGED <<file, rendered, job, chosen, base, torn>>
  BY DEF PullRefused, PullRemove, PullRetry, PullInstall, AfterPull
<1>2. job.cmd = "update" /\ pc' \in {"load", "pull", "fetch", "prerun", "migrate"}
         => job'.before \notin {NoFile, Empty} /\ pc' # "load"
  BY <1>1 DEF TypeInv, FoundInv
<1>3. FoundInv'
  BY <1>1, <1>2 DEF FoundInv
<1> QED BY <1>1, <1>3 DEF TypeInv, Steps

\* An init reads the parameters of the template and what it is given.
LEMMA InitComputeTypes ==
    ASSUME IInv, TypeInv, InitCompute
    PROVE  TypeInv'
<1>1. /\ job.cmd = "init" /\ dirs[job.dir] # Missing /\ job.dir \in Dirs /\ job \in Jobs
      /\ pc' = "backup" /\ UNCHANGED <<file, rendered, chosen, base, torn>>
  BY DEF InitCompute, TypeInv, Jobs
<1>2. PICK args \in Inputs, isDefault \in BOOLEAN :
        LET p == InitParameters(args, isDefault)
        IN  \/ job' = [job EXCEPT !.conf = p, !.args = args, !.arb = args]
            \/ \E answers \in Answers :
                  job' = [job EXCEPT !.conf = AskMissing(p, answers), !.arb = args,
                                     !.args = Override(args, Answered(p, answers))]
  BY DEF InitCompute
<1> DEFINE p == InitParameters(args, isDefault)
<1>3. args \in Partial /\ p \in Params
  <2>1. args \in Partial /\ Content(job.dir) \in Templates
    BY <1>1, ConfigAssumption, BasicTypes DEF IInv
  <2> DEFINE q == SetLooseValues(ExtractParams(Content(job.dir)), args)
  <2>2. q \in Params
    BY <2>1, ExtractType, LooseType
  <2>3. p = IF isDefault THEN SetToDefaults(q) ELSE q
    BY DEF InitParameters
  <2> HIDE DEF q, p
  <2> QED BY <2>1, <2>2, <2>3, DefaultsType
<1> HIDE DEF p
<1>4. \E conf \in Params, given \in Partial :
         job' = [job EXCEPT !.conf = conf, !.arb = args, !.args = given]
  <2>1. CASE job' = [job EXCEPT !.conf = p, !.args = args, !.arb = args]
    BY <1>1, <1>3, <2>1 DEF Jobs
  <2>2. ASSUME NEW answers \in Answers,
               job' = [job EXCEPT !.conf = AskMissing(p, answers), !.arb = args,
                                  !.args = Override(args, Answered(p, answers))]
        PROVE  \E conf \in Params, given \in Partial :
                  job' = [job EXCEPT !.conf = conf, !.arb = args, !.args = given]
    <3>1. AskMissing(p, answers) \in Params /\ Answered(p, answers) \in Partial
      BY <1>3, AskType, ConfigAssumption
    <3>2. Override(args, Answered(p, answers)) \in Partial
      BY <1>3, <3>1, OverrideType
    <3> QED BY <2>2, <3>1, <3>2
  <2> QED BY <1>2, <2>1, <2>2 DEF p
<1>5. job' \in Jobs /\ job'.cmd = "init"
  BY <1>1, <1>3, <1>4 DEF Jobs
<1> QED BY <1>1, <1>5 DEF TypeInv, FoundInv, Steps

\* A backup notes the file.
LEMMA BackupTypes ==
    ASSUME IInv, TypeInv, AutoBackup
    PROVE  TypeInv'
<1>1. /\ pc = "backup" /\ pc' = (IF job.cmd = "init" THEN "render" ELSE "load")
      /\ UNCHANGED <<file, rendered, chosen, base, torn>> /\ job \in Jobs
  BY DEF AutoBackup, TypeInv
<1>2. job' \in Jobs /\ job'.cmd = job.cmd /\ job'.before = job.before
  BY <1>1 DEF AutoBackup, Backups, TypeInv, Jobs
<1>3. FoundInv'
  BY <1>1, <1>2 DEF FoundInv, IInv, SavedInv
<1> QED BY <1>1, <1>2, <1>3 DEF TypeInv, Steps

\* A set overrides the recorded values.
LEMMA SetLoadTypes ==
    ASSUME IInv, TypeInv, SetLoad
    PROVE  TypeInv'
<1>1. /\ Loadable /\ pc' = "render" /\ UNCHANGED <<file, rendered, chosen, base, torn>>
  BY DEF SetLoad
<1>2. Loaded \in Params /\ file.keys \in Partial /\ file.config \in Dirs
  <2>1. file \in Files /\ FromBase(file) /\ file \notin {NoFile, Empty} /\ dirs[file.config] # Missing
    BY <1>1 DEF Loadable, Written, TypeInv, IInv
  <2> QED BY <2>1, LoadedType DEF Loaded, Files
<1>3. PICK args \in Inputs, reload \in BOOLEAN :
        job' = [NoJob EXCEPT !.cmd = "set", !.dir = file.config, !.args = args, !.reload = reload,
                             !.conf = ProcessOptionnalParams(SetLooseValues(Loaded, args)),
                             !.arb = Override(IF reload THEN Unset ELSE file.keys, args)]
  BY DEF SetLoad
<1> DEFINE conf == ProcessOptionnalParams(SetLooseValues(Loaded, args))
           arb == Override(IF reload THEN Unset ELSE file.keys, args)
<1>4. args \in Partial
  BY ConfigAssumption
<1>5. conf \in Params
  BY <1>2, <1>4, LooseType, ProcessType
<1>6. arb \in Partial
  <2>1. (IF reload THEN Unset ELSE file.keys) \in Partial
    BY <1>2, BasicTypes
  <2> QED BY <1>4, <2>1, OverrideType
<1>7. job' = [NoJob EXCEPT !.cmd = "set", !.dir = file.config, !.args = args, !.reload = reload,
                           !.conf = conf, !.arb = arb]
  BY <1>3
<1> HIDE DEF conf, arb
<1>8. job' \in Jobs /\ job'.cmd = "set"
  BY <1>2, <1>4, <1>5, <1>6, <1>7, BasicTypes DEF Jobs
<1> QED BY <1>1, <1>8 DEF TypeInv, FoundInv, Steps

\* An update loads the configuration, and again after the script.
LEMMA UpdateTypes ==
    ASSUME IInv, TypeInv, UpdateLoad \/ UpdateNoPreRun \/ UpdatePreRun \/ UpdateMigrate
    PROVE  TypeInv'
<1>1. job.cmd = "update" /\ UNCHANGED <<rendered, chosen, base, torn>> /\ job \in Jobs
  BY DEF UpdateLoad, UpdateNoPreRun, UpdatePreRun, UpdateMigrate, TypeInv
<1>2. CASE UpdateLoad
  <2>1. Loadable /\ pc = "load" /\ pc' = "pull" /\ job' = [job EXCEPT !.conf = Loaded] /\ file' = file
    BY <1>2 DEF UpdateLoad
  <2>2. file \in Files /\ FromBase(file) /\ file \notin {NoFile, Empty} /\ dirs[file.config] # Missing
    BY <2>1 DEF Loadable, Written, TypeInv, IInv
  <2>3. Loaded \in Params
    BY <2>2, LoadedType DEF Loaded
  <2>4. job' \in Jobs /\ job'.before = job.before
    BY <1>1, <2>1, <2>3 DEF Jobs
  <2>5. job.before \notin {NoFile, Empty}
    BY <1>1, <2>1, <2>2 DEF TypeInv, FoundInv
  <2> QED BY <1>1, <2>1, <2>4, <2>5 DEF TypeInv, FoundInv, Steps
<1>3. CASE UpdateNoPreRun \/ UpdatePreRun
  <2>1. pc = "prerun" /\ pc' \in {"merge", "migrate"} /\ job' = job /\ file' \in {file, Empty}
    BY <1>3 DEF UpdateNoPreRun, UpdatePreRun
  <2>2. job.before \notin {NoFile, Empty}
    BY <1>1, <2>1 DEF TypeInv, FoundInv
  <2> QED BY <1>1, <2>1, <2>2 DEF TypeInv, FoundInv, Steps, Files
<1>4. CASE UpdateMigrate
  <2> DEFINE conf == SetValues(ExtractParams(Content(job.before.config)), job.before.keys)
  <2>1. /\ pc = "migrate" /\ pc' = "merge" /\ file' = job.before
        /\ dirs[job.before.config] # Missing /\ job' = [job EXCEPT !.conf = conf]
    BY <1>4 DEF UpdateMigrate
  <2>2. job.before \in Files /\ FromBase(job.before) /\ job.before \notin {NoFile, Empty}
    BY <1>1, <2>1 DEF TypeInv, FoundInv, IInv, Jobs
  <2>3. conf \in Params
    BY <2>1, <2>2, LoadedType
  <2> HIDE DEF conf
  <2>4. job' \in Jobs
    BY <1>1, <2>1, <2>3 DEF Jobs
  <2> QED BY <1>1, <2>1, <2>2, <2>4 DEF TypeInv, FoundInv, Steps
<1> QED BY <1>2, <1>3, <1>4

\* It merges them into the parameters of the new template.
LEMMA MergeTypes ==
    ASSUME IInv, TypeInv, UpdateMerge
    PROVE  TypeInv'
<1>1. /\ job.cmd = "update" /\ dirs[job.dir] # Missing /\ job.dir \in Dirs /\ job \in Jobs
      /\ job.conf \in Params /\ pc' = "render" /\ UNCHANGED <<file, rendered, chosen, base, torn>>
  BY DEF UpdateMerge, TypeInv, Jobs
<1>2. PICK args \in Inputs :
        LET p == ProcessOptionnalParams(Merge(job.conf, args))
        IN  \/ job' = [job EXCEPT !.conf = SetToDefaults(p), !.args = args, !.arb = args]
            \/ \E answers \in Answers :
                  job' = [job EXCEPT !.conf = AskMissing(p, answers), !.arb = args,
                                     !.args = Override(args, Answered(p, answers))]
  BY DEF UpdateMerge
<1> DEFINE p == ProcessOptionnalParams(Merge(job.conf, args))
<1>3. args \in Partial /\ p \in Params
  <2>1. args \in Partial /\ Content(job.dir) \in Templates
    BY <1>1, ConfigAssumption, BasicTypes DEF IInv
  <2> DEFINE q == SetValuesSmartMerge(ExtractParams(Content(job.dir)), job.conf)
  <2>2. q \in Params
    BY <1>1, <2>1, ExtractType, SmartMergeType
  <2>3. Merge(job.conf, args) = SetLooseValues(q, args)
    BY DEF Merge
  <2> HIDE DEF q
  <2> QED BY <2>1, <2>2, <2>3, LooseType, ProcessType
<1> HIDE DEF p
<1>4. \E conf \in Params, given \in Partial :
         job' = [job EXCEPT !.conf = conf, !.arb = args, !.args = given]
  <2>1. CASE job' = [job EXCEPT !.conf = SetToDefaults(p), !.args = args, !.arb = args]
    <3>1. SetToDefaults(p) \in Params
      BY <1>3, DefaultsType
    <3> QED BY <1>1, <1>3, <2>1, <3>1 DEF Jobs
  <2>2. ASSUME NEW answers \in Answers,
               job' = [job EXCEPT !.conf = AskMissing(p, answers), !.arb = args,
                                  !.args = Override(args, Answered(p, answers))]
        PROVE  \E conf \in Params, given \in Partial :
                  job' = [job EXCEPT !.conf = conf, !.arb = args, !.args = given]
    <3>1. AskMissing(p, answers) \in Params /\ Answered(p, answers) \in Partial
      BY <1>3, AskType, ConfigAssumption
    <3>2. Override(args, Answered(p, answers)) \in Partial
      BY <1>3, <3>1, OverrideType
    <3> QED BY <2>2, <3>1, <3>2
  <2> QED BY <1>2, <2>1, <2>2 DEF p
<1>5. job' \in Jobs
  BY <1>1, <1>3, <1>4 DEF Jobs
<1> QED BY <1>1, <1>5 DEF TypeInv, FoundInv, Steps

\* What is rendered, recorded and chosen are values.
LEMMA SaveTypes ==
    ASSUME IInv, TypeInv, SaveRender \/ SaveTruncate \/ SaveWrite
    PROVE  TypeInv'
<1>1. job \in Jobs /\ job.conf \in Params /\ job.arb \in Partial /\ job.args \in Partial
      /\ job.dir \in Dirs /\ job.reload \in BOOLEAN
  BY DEF TypeInv, Jobs
<1>2. CASE SaveRender \/ SaveTruncate
  <2>1. /\ job' = job /\ pc' \in {"truncate", "write"} /\ file' \in {file, Empty} /\ torn' \in BOOLEAN
        /\ rendered' \in {rendered, GetData(job.conf, job.arb)} /\ UNCHANGED <<chosen, base>>
    BY <1>2 DEF SaveRender, SaveTruncate, TypeInv
  <2>2. GetData(job.conf, job.arb) \in Partial
    BY <1>1, DataType
  <2> QED BY <2>1, <2>2 DEF TypeInv, FoundInv, Steps, Files
<1>3. CASE SaveWrite
  <2> DEFINE t == Content(job.dir)
  <2>1. /\ pc = "write" /\ pc' = "idle" /\ job' = NoJob /\ torn' = FALSE /\ rendered' = rendered
        /\ base' = dirs[job.dir] /\ chosen' = Visible(t, Override(Standing, Asked(t)))
    BY <1>3 DEF SaveWrite
  <2>2. PICK keys \in Recorded(job.conf, job.arb) : file' = [keys |-> keys, config |-> RecordedConfig]
    BY <1>3 DEF SaveWrite
  <2>3. RecordedConfig \in Dirs /\ base' \in Versions \cup {Missing}
    BY <2>1, ConfigAssumption DEF RecordedConfig, IInv, DirInv, DirsInv, Dirs
  <2>4. file' \in Files
    BY <1>1, <2>2, <2>3, RecordedType DEF Files
  <2>5. Standing \in Partial
    <3>1. job.cmd \in {"init", "set", "update"} /\ chosen \in Partial
      BY <2>1 DEF IInv, SavedInv, TypeInv
    <3>2. CASE job.cmd = "init"
      BY <3>2, BasicTypes DEF Standing
    <3>3. CASE job.cmd = "set"
      BY <3>1, <3>3 DEF Standing, Partial
    <3>4. CASE job.cmd = "update"
      BY <3>1, <3>4 DEF Standing, Partial
    <3> QED BY <3>1, <3>2, <3>3, <3>4
  <2>6. Asked(t) \in Partial
    BY <1>1 DEF Asked, Partial
  <2> DEFINE f == Override(Standing, Asked(t))
  <2>7. f \in Partial
    BY <2>5, <2>6, OverrideType
  <2>8. chosen' = Visible(t, f)
    BY <2>1
  <2> HIDE DEF f
  <2>9. chosen' \in Partial
    BY <2>7, <2>8 DEF Visible, Partial
  <2> QED BY <2>1, <2>3, <2>4, <2>9, BasicTypes, NoJobShape DEF TypeInv, FoundInv, Steps
<1> QED BY <1>2, <1>3

\* All steps together.
LEMMA StepTypes == IInv /\ TypeInv /\ [Next]_vars => TypeInv'
<1>1. TypeInv /\ UNCHANGED vars => TypeInv'
  BY DEF vars, TypeInv, FoundInv
<1> QED BY <1>1, BeginTypes, PullTypes, InitComputeTypes, BackupTypes, SetLoadTypes, UpdateTypes,
           MergeTypes, SaveTypes DEF Next

\* The variables keep their types, and a version directory holds that version.
THEOREM ConfigTypeCorrect == Spec => []TypeOK
<1>1. IInv /\ TypeInv => TypeOK
  BY DEF IInv, DirsInv, TypeInv, TypeOK
<1>2. Spec => [](IInv /\ TypeInv)
  BY InitInvariant, StepInvariant, InitTypes, StepTypes, PTL DEF Spec
<1> QED BY <1>1, <1>2, PTL

-----------------------------------------------------------------------------
(***************************************************************************)
(* The rendered files and values.yaml.  The hypothesis is about what users *)
(* pass: no command saves a key below another one, but for the parameters  *)
(* of a switch.  Otherwise the order of a map decides what is recorded.    *)
(***************************************************************************)
SavesUnambiguously == pc = "render" => Unambiguous(job.conf, job.arb)

\* From the rendering to the write the rendered files are what will be recorded; before,
\* and when no save was cut short, they are what the file, or its backup, records.
RenderedInv ==
    /\ pc \in {"truncate", "write"} => torn /\ Recorded(job.conf, job.arb) = {rendered}
    /\ Written /\ ~torn => rendered = file.keys
    /\ job.before \notin {NoFile, Empty} /\ ~torn => rendered = job.before.keys

\* Nothing is rendered or recorded at first.
LEMMA InitRendered == Init => RenderedInv
  BY NoJobShape DEF Init, RenderedInv, Written

\* Rendering starts a save, writing ends it; nothing else touches the rendered files,
\* and an update writes back what it found.
LEMMA StepRendered ==
    ASSUME IInv, TypeInv, RenderedInv, SavesUnambiguously, [Next]_vars
    PROVE  RenderedInv'
<1>1. CASE StartInit \/ StartUpdate
  <2>1. PICK cmd \in {"init", "update"}, dir \in Dirs :
          /\ pc' = (IF cmd = "init" THEN "pull" ELSE "backup")
          /\ job' = [NoJob EXCEPT !.cmd = cmd, !.dir = dir, !.before = file]
    BY <1>1 DEF StartInit, StartUpdate, Begin
  <2>2. job'.before = file
    BY <2>1, NoJobShape DEF Fields
  <2>3. UNCHANGED <<file, rendered, torn>>
    BY <1>1 DEF StartInit, StartUpdate, Begin
  <2> QED BY <2>1, <2>2, <2>3 DEF RenderedInv, Written
<1>2. CASE Stop
  BY <1>2, NoJobShape DEF Stop, RenderedInv, Written
<1>3. CASE PullRefused \/ PullRemove \/ PullRetry \/ PullInstall
  <2>1. pc' \in {"pull", "fetch", "compute", "prerun"} /\ UNCHANGED <<file, rendered, job, torn>>
    BY <1>3 DEF PullRefused, PullRemove, PullRetry, PullInstall, AfterPull
  <2> QED BY <2>1 DEF RenderedInv, Written
<1>4. CASE InitCompute \/ AutoBackup \/ UpdateLoad \/ UpdateMerge
  <2>1. pc' \in {"backup", "render", "load", "pull"} /\ UNCHANGED <<file, rendered, torn>>
    BY <1>4 DEF InitCompute, AutoBackup, UpdateLoad, UpdateMerge
  <2>2. job'.before = job.before
    BY <1>4 DEF InitCompute, AutoBackup, UpdateLoad, UpdateMerge, IInv, JobShape, Fields
  <2> QED BY <2>1, <2>2 DEF RenderedInv, Written
<1>5. CASE SetLoad
  <2>1. pc' = "render" /\ job'.before = NoFile /\ UNCHANGED <<file, rendered, torn>>
    BY <1>5, NoJobShape DEF SetLoad, Fields
  <2> QED BY <2>1 DEF RenderedInv, Written
<1>6. CASE UpdateNoPreRun \/ UpdatePreRun
  <2>1. pc' \in {"merge", "migrate"} /\ file' \in {file, Empty} /\ UNCHANGED <<job, rendered, torn>>
    BY <1>6 DEF UpdateNoPreRun, UpdatePreRun
  <2> QED BY <2>1 DEF RenderedInv, Written
<1>7. CASE UpdateMigrate
  <2>1. pc' = "merge" /\ file' = job.before /\ UNCHANGED <<rendered, torn>>
    BY <1>7 DEF UpdateMigrate
  <2>2. job'.before = job.before
    BY <1>7 DEF UpdateMigrate, IInv, JobShape, Fields
  <2> QED BY <2>1, <2>2 DEF RenderedInv, Written
<1>8. CASE SaveRender
  <2>1. pc = "render" /\ pc' = "truncate" /\ torn' = TRUE /\ job' = job /\ rendered' = GetData(job.conf, job.arb)
    BY <1>8 DEF SaveRender
  <2>2. job.conf \in Params /\ job.arb \in Partial
    BY DEF TypeInv, Jobs
  <2>3. Recorded(job.conf, job.arb) = {GetData(job.conf, job.arb)}
    BY <2>1, <2>2, RecordedIsData DEF SavesUnambiguously
  <2> QED BY <2>1, <2>3 DEF RenderedInv
<1>9. CASE SaveTruncate
  <2>1. pc = "truncate" /\ file' = Empty /\ UNCHANGED <<rendered, job, torn>>
    BY <1>9 DEF SaveTruncate
  <2> QED BY <2>1 DEF RenderedInv, Written
<1>10. CASE SaveWrite
  <2>1. pc = "write" /\ pc' = "idle" /\ job' = NoJob /\ rendered' = rendered
    BY <1>10 DEF SaveWrite
  <2>2. PICK keys \in Recorded(job.conf, job.arb) : file' = [keys |-> keys, config |-> RecordedConfig]
    BY <1>10 DEF SaveWrite
  <2>3. file'.keys = rendered
    BY <2>1, <2>2 DEF RenderedInv
  <2> QED BY <2>1, <2>3, NoJobShape DEF RenderedInv
<1>11. CASE UNCHANGED vars
  BY <1>11 DEF vars, RenderedInv, Written
<1> QED BY <1>1, <1>2, <1>3, <1>4, <1>5, <1>6, <1>7, <1>8, <1>9, <1>10, <1>11 DEF Next

\* The inductive invariant of rendering.
THEOREM RenderedInvariant == Spec /\ []SavesUnambiguously => [](IInv /\ TypeInv /\ RenderedInv)
<1>1. Init => IInv /\ TypeInv /\ RenderedInv
  BY InitInvariant, InitTypes, InitRendered
<1>2. IInv /\ TypeInv /\ RenderedInv /\ SavesUnambiguously /\ [Next]_vars
         => (IInv /\ TypeInv /\ RenderedInv)'
  BY StepInvariant, StepTypes, StepRendered
<1> QED BY <1>1, <1>2, PTL DEF Spec

\* SaveConfigTo: between commands the rendered files were made from the values that
\* values.yaml records, unless a save was cut short, through any series of inits, sets
\* and updates that save no key below another one.
THEOREM RenderedFilesAreRecorded == Spec /\ []SavesUnambiguously => []RenderedIsRecorded
<1>1. RenderedInv => RenderedIsRecorded
  BY DEF RenderedInv, RenderedIsRecorded
<1> QED BY <1>1, RenderedInvariant, PTL

-----------------------------------------------------------------------------
(***************************************************************************)
(* What nix switch applies.                                                *)
(***************************************************************************)
\* From the last rendering of a save to its write, the file "version" is that of the
\* template; before, and when no save was cut short, that of the recorded values.
VersionInv ==
    /\ pc \in {"truncate", "write"} => torn
    /\ pc = "write" => VersionRendered
    /\ Written /\ ~torn => release = base
    /\ job.before \notin {NoFile, Empty} /\ ~torn => release = base

\* The steps of an init or update, but for those of a save.
Quiet ==
    /\ pc' \notin {"truncate", "write"}
    /\ UNCHANGED <<release, base, torn>>
    /\ Written' => Written \/ job.before \notin {NoFile, Empty}
    /\ job'.before \in {job.before, file, NoFile}

\* Such a step tells nothing new about the version.
LEMMA QuietKeeps == VersionInv /\ Quiet => VersionInv'
  BY DEF VersionInv, Quiet, Written

\* "version" is rendered before the write, and only during a save.
LEMMA VersionKeeps ==
    ASSUME IInv, VersionInv, ChangeFolder
    PROVE  VersionInv'
<1>1. CASE NixStart
  <2>1. PICK cmd \in {"init", "update"}, dir \in Dirs :
          /\ pc' = (IF cmd = "init" THEN "pull" ELSE "backup")
          /\ job' = [NoJob EXCEPT !.cmd = cmd, !.dir = dir, !.before = file]
          /\ UNCHANGED <<file, base, torn>>
    BY <1>1 DEF NixStart, StartInit, StartUpdate, Begin
  <2>2. job'.before = file /\ release' = release
    BY <1>1, <2>1, NoJobShape DEF Fields, NixStart
  <2> QED BY <2>1, <2>2, QuietKeeps DEF Quiet, Written
<1>2. CASE NixPull
  <2>1. /\ pc' \in {"pull", "fetch", "compute", "prerun"} /\ UNCHANGED <<file, base, job, torn>>
    BY <1>2 DEF NixPull, PullRefused, PullRemove, PullRetry, PullInstall, AfterPull
  <2>2. release' = release
    BY <1>2 DEF NixPull, restVars
  <2> QED BY <2>1, <2>2, QuietKeeps DEF Quiet, Written
<1>3. CASE NixCompute \/ NixLoad \/ NixMerge
  <2>1. pc' \in {"backup", "render", "load", "pull"} /\ UNCHANGED <<file, base, torn>>
    BY <1>3 DEF NixCompute, NixLoad, NixMerge, InitCompute, AutoBackup, UpdateLoad, UpdateMerge
  <2>2. job'.before = job.before
    BY <1>3 DEF NixCompute, NixLoad, NixMerge, InitCompute, AutoBackup, UpdateLoad, UpdateMerge,
                IInv, JobShape, Fields
  <2>3. release' = release
    BY <1>3 DEF NixCompute, NixLoad, NixMerge, restVars
  <2> QED BY <2>1, <2>2, <2>3, QuietKeeps DEF Quiet, Written
<1>4. CASE NixPreRun
  <2>1. release' = release /\ UNCHANGED <<base, torn>>
    BY <1>4 DEF NixPreRun, UpdateNoPreRun, UpdatePreRun, UpdateMigrate, restVars
  <2>2. pc' \in {"merge", "migrate"} /\ file' \in {file, Empty, job.before}
    BY <1>4 DEF NixPreRun, UpdateNoPreRun, UpdatePreRun, UpdateMigrate
  <2>3. job'.before = job.before
    BY <1>4 DEF NixPreRun, UpdateNoPreRun, UpdatePreRun, UpdateMigrate, IInv, JobShape, Fields
  <2> QED BY <2>1, <2>2, <2>3, QuietKeeps DEF Quiet, Written
<1>5. CASE NixRender
  <2>1. pc' = "truncate" /\ torn' = TRUE
    BY <1>5 DEF NixRender, SaveRender
  <2> QED BY <2>1 DEF VersionInv
<1>6. CASE RenderVersion
  <2>1. pc = "truncate" /\ UNCHANGED <<pc, torn>>
    BY <1>6 DEF RenderVersion, vars
  <2> QED BY <2>1 DEF VersionInv
<1>7. CASE NixSave
  <2>1. CASE (pc = "truncate" => VersionRendered) /\ SaveTruncate /\ UNCHANGED restVars
    <3>1. pc = "truncate" /\ pc' = "write" /\ file' = Empty /\ UNCHANGED <<dirs, job, torn>>
      BY <2>1 DEF SaveTruncate
    <3>2. release' = release
      BY <2>1 DEF restVars
    <3> QED BY <2>1, <3>1, <3>2 DEF VersionInv, VersionRendered, Written
  <2>2. CASE SaveWrite /\ UNCHANGED <<release, instances, hostVars, changes>>
    <3>1. pc = "write" /\ pc' = "idle" /\ job' = NoJob /\ base' = dirs[job.dir] /\ release' = release
      BY <2>2 DEF SaveWrite
    <3> QED BY <3>1, NoJobShape DEF VersionInv, VersionRendered
  <2> QED BY <1>7, <2>1, <2>2 DEF NixSave
<1>8. CASE Register
  <2>1. UNCHANGED <<vars, release>>
    BY <1>8 DEF Register
  <2> QED BY <2>1 DEF VersionInv, VersionRendered, Written, vars
<1>9. CASE NixStop
  <2>1. CASE Stop /\ UNCHANGED restVars
    <3>1. pc' = "idle" /\ job'.before = NoFile /\ UNCHANGED <<file, base, torn>>
      BY <2>1, NoJobShape DEF Stop
    <3>2. release' = release
      BY <2>1 DEF restVars
    <3> QED BY <3>1, <3>2, QuietKeeps DEF Quiet, Written
  <2>2. CASE UNCHANGED <<vars, release>>
    BY <2>2 DEF VersionInv, VersionRendered, Written, vars
  <2> QED BY <1>9, <2>1, <2>2 DEF NixStop
<1> QED BY <1>1, <1>2, <1>3, <1>4, <1>5, <1>6, <1>7, <1>8, <1>9 DEF ChangeFolder

\* The inductive invariant of the file "version".
THEOREM VersionInvariant == NixSpec => []VersionInv
<1>1. NixInit => IInv /\ VersionInv
  BY InitInvariant, NoJobShape DEF NixInit, Init, VersionInv, Written
<1>2. IInv /\ [NixNext]_nixVars => IInv'
  BY StepInvariant, NixStepIsStep DEF nixVars
<1>3. IInv /\ VersionInv /\ [NixNext]_nixVars => VersionInv'
  <2> SUFFICES ASSUME IInv, VersionInv, [NixNext]_nixVars
               PROVE  VersionInv'
    OBVIOUS
  <2>1. CASE ChangeFolder
    BY <2>1, VersionKeeps
  <2>2. CASE UNCHANGED <<vars, release>>
    BY <2>2 DEF VersionInv, VersionRendered, Written, vars
  <2>3. ASSUME NEW t \in Terminals, UseFolder(t)
        PROVE  UNCHANGED <<vars, release>>
    <3>1. Switch(t) \/ NixosRebuild(t) \/ Activate(t) => UNCHANGED <<vars, release>>
      BY DEF Switch, NixosRebuild, Activate, folderVars
    <3>2. Diff(t) \/ BuildVM(t) \/ ISO(t) \/ RebuildResult(t) \/ BuildISO(t) \/ BuildFails(t)
          => UNCHANGED <<vars, release>>
      BY DEF Diff, BuildVM, ISO, StartBuild, RebuildResult, BuildISO, Build, BuildFails, folderVars
    <3>3. DiffClosures(t) \/ FindAndRunVM(t) \/ RemoveResult(t) \/ BuildDone(t) \/ ISORun(t) \/ RunISO(t)
          => UNCHANGED <<vars, release>>
      BY DEF DiffClosures, FindAndRunVM, UseResult, RemoveResult, BuildDone, ISORun, RunISO, folderVars
    <3>4. Test(t) \/ RunShellTest(t) \/ RunNixTest(t) \/ TestDone(t) \/ Kill(t) => UNCHANGED <<vars, release>>
      BY DEF Test, RunShellTest, RunNixTest, RunTest, TestDone, Kill, folderVars
    <3> QED BY <2>3, <3>1, <3>2, <3>3, <3>4 DEF UseFolder
  <2> QED BY <2>1, <2>2, <2>3 DEF NixNext, nixVars
<1> QED BY <1>1, <1>2, <1>3, PTL DEF NixSpec

\* nix switch: what it applies is what values.yaml and the template it names say, the
\* file "version" included, unless a save was cut short and as long as none saves a key
\* below another.
THEOREM SwitchAppliesWhatIsRecorded == NixSpec /\ []SavesUnambiguously => []NextSwitchIsRecorded
<1>1. RenderedInv /\ VersionInv => NextSwitchIsRecorded
  BY DEF RenderedInv, VersionInv, NextSwitchIsRecorded, Configuration
<1> QED BY <1>1, NixKeepsFolder, RenderedInvariant, VersionInvariant, PTL

-----------------------------------------------------------------------------
(***************************************************************************)
(* What values.yaml says of what the user chose.  The hypotheses are about *)
(* the templates: a switch is on by default, since one that is switched on *)
(* is recorded by omission; its parameters begin with its name and a dot,  *)
(* and nothing else begins with its name; and versions agree on types.     *)
(***************************************************************************)
TidyTemplate(t) ==
    /\ \A k \in t.params : t.type[k] # "string" => t.default[k] \in {"true", "false"}
    /\ \A o \in Switches(t) :
          /\ t.default[o] = "true" /\ Prefixed[o] = Below[o]
          /\ Below[o] \cap Switches(t) = {} /\ Below[o] \cap t.params # {}
    /\ \A o, s \in Switches(t) : o # s => Below[o] \cap Below[s] = {}

Tidy ==
    \A v, w \in Versions :
        /\ TidyTemplate(Published[v])
        /\ \A k \in Published[v].params \cap Published[w].params :
              Published[v].type[k] = Published[w].type[k]

\* Nor is a key saved above a parameter, but for the name of a switch.
TidySave(p, arb) ==
    /\ Unambiguous(p, arb)
    /\ \A k \in Present(KeptArbitrary(p, arb)) \ (p.live \cup Switches(p.tpl)) : Below[k] \cap p.live = {}

\* Choices of the types of the template, none below a switch that they leave off.
Typed(t, f) == \A k \in t.params : f[k] # Nil => Accepts(t.type[k], f[k])
Chosen(t, f) == f \in Partial /\ Typed(t, f) /\ \A k \in Hidden(t, f) : f[k] = Nil

\* What values.yaml records of them: of a switch, that it is off.
Explained(t, f, k) ==
    IF k \in Hidden(t, f) THEN Nil
    ELSE IF k \in Switches(t) THEN IF f[k] = "false" THEN "false" ELSE Nil
    ELSE Choice(t, f, k)

Explains(t, f, keys) == \A k \in Keys : keys[k] = Explained(t, f, k)

\* The parameters that a save keeps, and the value of each before it has its type.
Kept(t, f) == {k \in t.params \ Hidden(t, f) : k \in Switches(t) => Choice(t, f, k) = "false"}
Raw(p, k) == IF p.var[k] = Nil THEN Default(p, k) ELSE p.var[k]

\* The parameters hold what the choices say.
Fits(p, t, f) ==
    /\ p \in Params /\ p.tpl = t /\ Kept(t, f) \subseteq p.live /\ p.live \subseteq t.params
    /\ \A k \in p.live : Raw(p, k) = Choice(t, f, k)

\* A switch is off when it was chosen so.
LEMMA SwitchChoice ==
    ASSUME NEW t \in Templates, TidyTemplate(t), NEW f \in Partial, NEW o \in Switches(t)
    PROVE  /\ o \in t.params /\ o \in Keys /\ t.type[o] = "optional" /\ o \notin Hidden(t, f)
           /\ Choice(t, f, o) = "false" <=> f[o] = "false"
<1>1. o \in t.params /\ o \in Keys /\ t.type[o] = "optional" /\ t.default[o] = "true"
  BY DEF Switches, Templates, TidyTemplate
<1>2. o \notin Hidden(t, f)
  BY DEF Hidden, TidyTemplate
<1>3. Choice(t, f, o) = "false" <=> f[o] = "false"
  <2>1. Nil # "false"
    BY KeysAssumption DEF Values
  <2> QED BY <1>1, <2>1 DEF Choice
<1> QED BY <1>1, <1>2, <1>3

\* A chosen value, or the default, has the type of its parameter.
LEMMA TypedValue ==
    ASSUME NEW t \in Templates, TidyTemplate(t), NEW f \in Partial, Typed(t, f), NEW p,
           Fits(p, t, f), NEW k \in p.live
    PROVE  GetValue(p, k) = Choice(t, f, k)
<1>1. p \in Params /\ p.tpl = t /\ k \in t.params /\ k \in Keys /\ Raw(p, k) = Choice(t, f, k)
  BY DEF Fits, Params
<1>2. t.type[k] \in Types /\ t.default[k] \in Values
  BY <1>1 DEF Templates
<1>3. Accepts(t.type[k], Choice(t, f, k))
  BY <1>1, <1>2 DEF Choice, Typed, Accepts, TidyTemplate
<1>4. AsType(t.type[k], Choice(t, f, k)) = Choice(t, f, k)
  BY <1>3 DEF Accepts, AsType
<1> QED BY <1>1, <1>4 DEF GetValue, Raw, Type, Default

\* Deleting the switches that are on, and what is below the others, keeps all that is
\* saved.
LEMMA ProcessFits ==
    ASSUME NEW t \in Templates, TidyTemplate(t), NEW f \in Partial, Typed(t, f), NEW p, Fits(p, t, f)
    PROVE  /\ Fits(ProcessOptionnalParams(p), t, f)
           /\ ProcessOptionnalParams(p).live = Kept(t, f)
           /\ SwitchedOff(p) = {o \in Switches(t) : f[o] = "false"}
<1> DEFINE off == {o \in Switches(t) : f[o] = "false"}
           q == ProcessOptionnalParams(p)
<1>1. p \in Params /\ p.tpl = t /\ p.live \subseteq t.params /\ Kept(t, f) \subseteq p.live
      /\ t.params \subseteq Keys
  BY DEF Fits, Templates
<1>2. Optionals(p) = p.live \cap Switches(t)
  BY <1>1 DEF Optionals, Switches, Type
<1>3. off \subseteq Kept(t, f)
  BY SwitchChoice DEF Kept
<1>4. SwitchedOff(p) = off
  <2>1. \A o \in Optionals(p) : GetValue(p, o) = "false" <=> f[o] = "false"
    BY <1>2, TypedValue, SwitchChoice
  <2> QED BY <1>1, <1>2, <1>3, <2>1 DEF SwitchedOff
<1>5. \A k : k \in Hidden(t, f) <=> \E o \in off : k \in Below[o]
  <2>1. {s \in Switches(t) : Choice(t, f, s) = "false"} = off
    BY SwitchChoice
  <2> HIDE DEF off
  <2> QED BY <2>1 DEF Hidden
<1>6. \A o \in off : Prefixed[o] = Below[o]
  BY DEF TidyTemplate
<1>7. \A o \in Switches(t) : Choice(t, f, o) = "false" <=> o \in off
  BY SwitchChoice
<1> HIDE DEF off
<1>8. \A k : k \in q.live <=> k \in p.live /\ k \notin Hidden(t, f) /\ (k \in Switches(t) => k \in off)
  BY <1>1, <1>2, <1>4, <1>5, <1>6, ProcessType
<1>9. q.live = Kept(t, f)
  BY <1>1, <1>7, <1>8 DEF Kept
<1>10. q \in Params /\ q.tpl = t
  BY <1>1, ProcessType
<1>11. \A k \in q.live : Raw(q, k) = Choice(t, f, k)
  <2> SUFFICES ASSUME NEW k \in q.live
               PROVE  Raw(q, k) = Choice(t, f, k)
    OBVIOUS
  <2>1. k \in p.live /\ k \in Keys /\ Raw(p, k) = Choice(t, f, k)
    BY <1>1, <1>8 DEF Fits
  <2>2. q.var[k] = IF k \in Optionals(p) /\ p.var[k] = Nil THEN Default(p, k) ELSE p.var[k]
    BY <1>1, <2>1, ProcessType
  <2>3. Default(q, k) = Default(p, k)
    BY <1>1, <1>10 DEF Default
  <2> QED BY <2>1, <2>2, <2>3 DEF Raw
<1>12. Fits(q, t, f)
  BY <1>1, <1>9, <1>10, <1>11 DEF Fits
<1> QED BY <1>4, <1>9, <1>12 DEF off

\* Defaults do not change the values.
LEMMA DefaultsFit ==
    ASSUME NEW t \in Templates, TidyTemplate(t), NEW f \in Partial, Typed(t, f), NEW p, Fits(p, t, f)
    PROVE  Fits(SetToDefaults(p), t, f) /\ SetToDefaults(p).live = Kept(t, f)
<1> DEFINE q == ProcessOptionnalParams(p)
           g == [k \in Keys |-> IF k \in q.live /\ q.var[k] = Nil THEN Default(q, k) ELSE Nil]
<1>1. Fits(q, t, f) /\ q.live = Kept(t, f)
  BY ProcessFits
<1>2. SetToDefaults(p) = Assign(q, g)
  BY DEF SetToDefaults
<1> HIDE DEF q
<1>3. q \in Params /\ q.live \subseteq Keys /\ q.tpl = t
  BY <1>1 DEF Fits, Params
<1>4. g \in Partial
  BY <1>3 DEF Partial, Params, Default, Templates
<1> DEFINE r == Assign(q, g)
<1>5. r \in Params /\ r.live = q.live /\ r.tpl = q.tpl
  BY <1>3, <1>4, AssignType
<1>6. \A k \in q.live : r.var[k] = IF g[k] # Nil THEN g[k] ELSE q.var[k]
  BY <1>3 DEF Assign, Params
<1>7. \A k \in q.live : Raw(r, k) = Raw(q, k)
  BY <1>3, <1>5, <1>6 DEF Raw, Default
<1> HIDE DEF r, g
<1>8. Fits(r, t, f)
  BY <1>1, <1>5, <1>7 DEF Fits
<1> QED BY <1>1, <1>2, <1>5, <1>8 DEF r

\* An answer counts where nothing was chosen.
LEMMA AskFits ==
    ASSUME NEW t \in Templates, TidyTemplate(t), NEW f \in Partial, Typed(t, f), NEW p, Fits(p, t, f),
           NEW answers \in [Keys -> Values], Prompted(p, answers),
           NEW h \in Partial,
           \A k \in Keys : h[k] = IF k \in Missed(ProcessOptionnalParams(p)) THEN answers[k] ELSE f[k]
    PROVE  /\ Typed(t, h) /\ Fits(AskMissing(p, answers), t, h)
           /\ AskMissing(p, answers).live = Kept(t, h)
<1> DEFINE q == ProcessOptionnalParams(p)
           g == Answered(p, answers)
           r == Assign(q, g)
<1>1. Fits(q, t, f) /\ q.live = Kept(t, f)
  BY ProcessFits
<1>2. AskMissing(p, answers) = r
  BY DEF AskMissing
<1>3. q \in Params /\ q.live \subseteq Keys /\ q.tpl = t /\ t.params \subseteq Keys /\ q.live \subseteq t.params
  BY <1>1 DEF Fits, Params, Templates
<1>4. g \in Partial /\ \A k \in Keys : g[k] = IF k \in Missed(q) THEN answers[k] ELSE Nil
  <2>1. p \in Params
    BY DEF Fits
  <2>2. g \in Partial
    BY <2>1, AskType
  <2> QED BY <2>2 DEF Answered
<1>5. Missed(q) = {k \in q.live : t.type[k] # "optional" /\ q.var[k] = Nil}
  BY <1>3 DEF Missed, Type
<1>6. \A k \in Keys : h[k] = IF k \in Missed(q) THEN answers[k] ELSE f[k]
  OBVIOUS
<1>7. \A k \in Missed(q) : Accepts(t.type[k], answers[k])
  <2>1. p.tpl = t
    BY DEF Fits
  <2> QED BY <2>1 DEF Prompted, AskUser, Type
<1> HIDE DEF q, g
<1>8. Typed(t, h)
  BY <1>3, <1>6, <1>7 DEF Typed
<1>9. \A o \in Switches(t) : h[o] = f[o] /\ Choice(t, h, o) = Choice(t, f, o)
  <2>1. \A o \in Switches(t) : o \in Keys /\ o \notin Missed(q)
    BY <1>3, <1>5 DEF Switches
  <2> QED BY <1>6, <2>1 DEF Choice
<1>10. Hidden(t, h) = Hidden(t, f)
  BY <1>9 DEF Hidden
<1>11. Kept(t, h) = Kept(t, f)
  BY <1>9, <1>10 DEF Kept
<1>12. r \in Params /\ r.live = q.live /\ r.tpl = q.tpl
  BY <1>3, <1>4, AssignType
<1>13. \A k \in q.live : r.var[k] = IF g[k] # Nil THEN g[k] ELSE q.var[k]
  BY <1>3 DEF Assign, Params
<1>14. \A k \in q.live : Raw(r, k) = Choice(t, h, k)
  <2> SUFFICES ASSUME NEW k \in q.live
               PROVE  Raw(r, k) = Choice(t, h, k)
    OBVIOUS
  <2>1. k \in Keys /\ k \in t.params /\ answers[k] # Nil
    BY <1>3, KeysAssumption
  <2>2. CASE k \in Missed(q)
    BY <1>4, <1>6, <1>13, <2>1, <2>2 DEF Raw, Choice
  <2>3. CASE k \notin Missed(q)
    <3>1. r.var[k] = q.var[k] /\ h[k] = f[k]
      BY <1>4, <1>6, <1>13, <2>1, <2>3
    <3>2. Raw(q, k) = Choice(t, f, k)
      BY <1>1 DEF Fits
    <3> QED BY <1>12, <3>1, <3>2 DEF Raw, Choice, Default
  <2> QED BY <2>2, <2>3
<1> HIDE DEF r
<1>15. Fits(r, t, h)
  BY <1>1, <1>3, <1>11, <1>12, <1>14 DEF Fits
<1> QED BY <1>1, <1>2, <1>8, <1>11, <1>12, <1>15
\* values.yaml explains the choices that it was saved from: GetData is what it records.
LEMMA SavedExplained ==
    ASSUME NEW t \in Templates, TidyTemplate(t), NEW f \in Partial, Typed(t, f), NEW p,
           Fits(p, t, f), p.live = Kept(t, f), NEW arb \in Partial, TidySave(p, arb),
           \A k \in Keys \ t.params : k \notin Hidden(t, f) => arb[k] = f[k]
    PROVE  /\ Chosen(t, Visible(t, f))
           /\ Explains(t, Visible(t, f), GetData(p, arb))
<1> DEFINE h == Visible(t, f)
           S == Hidden(t, f)
           kept == KeptArbitrary(p, arb)
           flat == Flat(p, arb)
<1>1. p \in Params /\ p.tpl = t /\ p.live \subseteq t.params /\ t.params \subseteq Keys
  BY DEF Fits, Templates
<1>2. \A k : k \in S <=> \E o \in Switches(t) : f[o] = "false" /\ k \in Below[o]
  BY SwitchChoice DEF Hidden
<1>3. \A k \in Keys : h[k] = IF k \in S THEN Nil ELSE f[k]
  BY DEF Visible
<1>4. h \in Partial
  BY DEF Visible, Partial
<1>5. \A o \in Switches(t) : o \in Keys /\ o \in t.params /\ o \notin S /\ h[o] = f[o] /\ Choice(t, h, o) = Choice(t, f, o)
  BY <1>3, SwitchChoice DEF Choice
<1>6. Hidden(t, h) = S
  BY <1>5 DEF Hidden
<1>7. \A k \in Keys : kept[k] = IF k \in S THEN Nil ELSE arb[k]
  <2>1. SwitchedOff(p) = {o \in Switches(t) : f[o] = "false"}
    BY ProcessFits
  <2> QED BY <1>2, <2>1 DEF KeptArbitrary
<1>8. \A k \in p.live : GetValue(p, k) = Choice(t, f, k) /\ GetValue(p, k) # Nil
  BY <1>1, TypedValue, GetValueType
<1>9. \A k \in Keys : flat[k] = IF k \in p.live THEN Choice(t, f, k) ELSE kept[k]
  BY <1>8 DEF Flat
<1>10. \A k \in Keys : GetData(p, arb)[k] = IF \E j \in Keys : flat[j] # Nil /\ j \in Below[k] THEN Nil ELSE flat[k]
  BY DEF GetData, Present
<1>11. \A k \in p.live : k \in Keys /\ k \in t.params /\ k \notin S
  BY <1>1 DEF Kept
<1>12. /\ \A j, k \in p.live : j \notin Below[k]
       /\ \A k \in Keys, j \in p.live : kept[k] # Nil /\ k \notin p.live => k \notin Below[j]
       /\ \A j, k \in Keys : kept[j] # Nil /\ j \notin p.live /\ kept[k] # Nil /\ k \notin p.live => j \notin Below[k]
       /\ \A k \in Keys, j \in p.live : kept[k] # Nil /\ k \notin p.live /\ k \notin Switches(t) => j \notin Below[k]
  BY <1>1, <1>11 DEF TidySave, Unambiguous, Unrelated, Related, Present
<1> HIDE DEF h, S, kept, flat
<1>13. Chosen(t, h)
  <2>1. Typed(t, h)
    BY <1>1, <1>3 DEF Typed
  <2>2. \A k \in S : k \in Keys
    BY <1>2, <1>5, KeysAssumption
  <2> QED BY <1>3, <1>4, <1>6, <2>1, <2>2 DEF Chosen
<1>14. Explains(t, h, GetData(p, arb))
  <2> SUFFICES ASSUME NEW k \in Keys
               PROVE  GetData(p, arb)[k] = Explained(t, h, k)
    BY DEF Explains
  <2>1. CASE k \in S
    BY <1>6, <1>7, <1>9, <1>10, <1>11, <2>1 DEF Explained
  <2>2. CASE k \in Switches(t) /\ f[k] = "false"
    <3>1. k \in p.live
      BY <1>5, <2>2, SwitchChoice DEF Kept
    <3>2. \A j \in Keys : j \in Below[k] => flat[j] = Nil
      BY <1>2, <1>7, <1>9, <1>11, <2>2
    <3>3. GetData(p, arb)[k] = Choice(t, f, k) /\ Choice(t, f, k) = "false"
      BY <1>9, <1>10, <2>2, <3>1, <3>2, SwitchChoice
    <3> QED BY <1>5, <1>6, <2>2, <3>3 DEF Explained
  <2>3. CASE k \in Switches(t) /\ f[k] # "false"
    <3>1. PICK j \in t.params : j \in Below[k]
      BY <2>3 DEF TidyTemplate
    <3>2. j \notin Switches(t)
      BY <2>3, <3>1 DEF TidyTemplate
    <3>3. j \notin S
      BY <1>2, <2>3, <3>1 DEF TidyTemplate
    <3>4. j \in p.live
      BY <3>2, <3>3 DEF Kept, S
    <3>5. flat[j] # Nil /\ j \in Keys
      BY <1>8, <1>9, <1>11, <3>4
    <3>6. GetData(p, arb)[k] = Nil
      BY <1>10, <3>1, <3>5
    <3> QED BY <1>5, <1>6, <2>3, <3>6 DEF Explained
  <2>4. CASE k \in t.params /\ k \notin Switches(t) /\ k \notin S
    <3>1. k \in p.live
      BY <2>4 DEF Kept, S
    <3>2. \A j \in Keys : flat[j] # Nil => j \notin Below[k]
      BY <1>9, <1>12, <3>1
    <3>3. GetData(p, arb)[k] = Choice(t, f, k)
      BY <1>9, <1>10, <3>1, <3>2
    <3>4. Choice(t, h, k) = Choice(t, f, k)
      BY <1>3, <2>4 DEF Choice
    <3> QED BY <1>6, <2>4, <3>3, <3>4 DEF Explained
  <2>5. CASE k \notin t.params /\ k \notin S
    <3>1. k \notin p.live /\ k \notin Switches(t) /\ flat[k] = f[k]
      BY <1>1, <1>5, <1>7, <1>9, <2>5 DEF S
    <3>2. kept[k] = f[k]
      BY <1>9, <3>1
    <3>3. f[k] # Nil => \A j \in Keys : flat[j] # Nil => j \notin Below[k]
      BY <1>9, <1>12, <3>1, <3>2
    <3>4. GetData(p, arb)[k] = f[k]
      BY <1>10, <3>1, <3>3
    <3>5. Choice(t, h, k) = f[k]
      BY <1>3, <2>5 DEF Choice
    <3> QED BY <1>6, <2>5, <3>1, <3>4, <3>5 DEF Explained
  <2> QED BY <2>1, <2>2, <2>3, <2>4, <2>5, <1>5
<1> QED BY <1>13, <1>14 DEF h
\* All the parameters of a template are there, with the values that were chosen.
Holds(p, t, f) ==
    /\ p \in Params /\ p.tpl = t /\ p.live = t.params
    /\ \A k \in t.params : Raw(p, k) = Choice(t, f, k)

\* Parameters that nothing was deleted from fit.
LEMMA HoldsFits ==
    ASSUME NEW t \in Templates, NEW f \in Partial, NEW p, Holds(p, t, f)
    PROVE  Fits(p, t, f)
  BY DEF Holds, Fits, Kept

\* Nothing is chosen in a template of its own.
LEMMA ExtractHolds ==
    ASSUME NEW t \in Templates
    PROVE  Holds(ExtractParams(t), t, Unset)
<1>1. ExtractParams(t) \in Params
  BY ExtractType
<1>2. \A k \in t.params : k \in Keys /\ ExtractParams(t).var[k] = Nil /\ Unset[k] = Nil
  BY DEF Templates, ExtractParams, Unset
<1>3. ExtractParams(t).tpl = t /\ ExtractParams(t).live = t.params
  BY DEF ExtractParams
<1> QED BY <1>1, <1>2, <1>3 DEF Holds, Raw, Choice, Default

\* What the arguments say, but for those whose type is wrong.
Given(t, args) ==
    [k \in Keys |-> IF args[k] # Nil /\ k \in t.params /\ ~Accepts(t.type[k], args[k])
                    THEN Nil ELSE args[k]]

\* An argument of the right type overrides.
LEMMA LooseHolds ==
    ASSUME NEW t \in Templates, NEW f \in Partial, Typed(t, f), NEW p, Holds(p, t, f),
           NEW args \in Partial
    PROVE  /\ Override(f, Given(t, args)) \in Partial /\ Typed(t, Override(f, Given(t, args)))
           /\ Holds(SetLooseValues(p, args), t, Override(f, Given(t, args)))
<1> DEFINE h == Override(f, Given(t, args))
           g == [k \in Keys |-> IF args[k] # Nil /\ Accepts(Type(p, k), args[k]) THEN args[k] ELSE Nil]
           r == Assign(p, g)
<1>1. p \in Params /\ p.tpl = t /\ p.live = t.params /\ t.params \subseteq Keys
  BY DEF Holds, Templates
<1>2. SetLooseValues(p, args) = r
  BY DEF SetLooseValues
<1>3. Given(t, args) \in Partial
  BY DEF Given, Partial
<1>4. h \in Partial
  BY <1>3, OverrideType
<1>5. \A k \in t.params : h[k] = IF args[k] # Nil /\ Accepts(t.type[k], args[k]) THEN args[k] ELSE f[k]
  BY <1>1 DEF Given, Override
<1>6. \A k \in t.params : g[k] = IF args[k] # Nil /\ Accepts(t.type[k], args[k]) THEN args[k] ELSE Nil
  BY <1>1 DEF Type
<1>7. g \in Partial
  BY DEF Partial
<1> HIDE DEF h, g
<1>8. Typed(t, h)
  BY <1>5 DEF Typed
<1>9. r \in Params /\ r.live = t.params /\ r.tpl = t
  BY <1>1, <1>7, AssignType
<1>10. \A k \in t.params : r.var[k] = IF g[k] # Nil THEN g[k] ELSE p.var[k]
  BY <1>1 DEF Assign, Params
<1>11. \A k \in t.params : Raw(r, k) = Choice(t, h, k)
  <2> SUFFICES ASSUME NEW k \in t.params
               PROVE  Raw(r, k) = Choice(t, h, k)
    OBVIOUS
  <2>1. CASE args[k] # Nil /\ Accepts(t.type[k], args[k])
    BY <1>5, <1>6, <1>10, <2>1 DEF Raw, Choice
  <2>2. CASE ~(args[k] # Nil /\ Accepts(t.type[k], args[k]))
    <3>1. r.var[k] = p.var[k] /\ h[k] = f[k]
      BY <1>5, <1>6, <1>10, <2>2
    <3>2. Raw(p, k) = Choice(t, f, k)
      BY DEF Holds
    <3> QED BY <1>1, <1>9, <3>1, <3>2 DEF Raw, Choice, Default
  <2> QED BY <2>1, <2>2
<1> HIDE DEF r
<1>12. Holds(r, t, h)
  BY <1>9, <1>11 DEF Holds
<1> QED BY <1>2, <1>4, <1>8, <1>12 DEF h

\* Loaded: from what values.yaml records, and the defaults, the values are as they were
\* chosen.
LEMMA LoadedHolds ==
    ASSUME NEW t \in Templates, TidyTemplate(t), NEW f \in Partial, Chosen(t, f),
           NEW keys \in Partial, Explains(t, f, keys)
    PROVE  /\ Holds(SetValues(ExtractParams(t), keys), t, f)
           /\ \A k \in t.params : SetValues(ExtractParams(t), keys).var[k] = keys[k]
<1> DEFINE p == ExtractParams(t)
           r == Assign(p, keys)
<1>1. p \in Params /\ p.live = t.params /\ p.tpl = t /\ t.params \subseteq Keys
      /\ \A k \in Keys : p.var[k] = Nil
  BY ExtractType DEF ExtractParams, Templates
<1>2. SetValues(p, keys) = r
  BY DEF SetValues
<1> HIDE DEF p
<1>3. r \in Params /\ r.live = t.params /\ r.tpl = t
  BY <1>1, AssignType
<1>4. \A k \in t.params : r.var[k] = keys[k]
  BY <1>1 DEF Assign, Params
<1> HIDE DEF r
<1>5. \A k \in t.params : Raw(r, k) = Choice(t, f, k)
  <2> SUFFICES ASSUME NEW k \in t.params
               PROVE  Raw(r, k) = Choice(t, f, k)
    OBVIOUS
  <2>1. k \in Keys /\ r.var[k] = keys[k] /\ keys[k] = Explained(t, f, k) /\ Default(r, k) = t.default[k]
    BY <1>1, <1>3, <1>4 DEF Explains, Default
  <2>2. CASE k \in Hidden(t, f)
    BY <2>1, <2>2 DEF Explained, Chosen, Raw, Choice
  <2>3. CASE k \in Switches(t)
    <3>1. t.type[k] = "optional" /\ t.default[k] = "true" /\ k \notin Hidden(t, f)
      BY <2>3, SwitchChoice DEF TidyTemplate
    <3>2. f[k] \in {Nil, "true", "false"} /\ Nil # "false"
      BY <3>1, KeysAssumption DEF Chosen, Typed, Accepts, Values
    <3> QED BY <2>1, <2>3, <3>1, <3>2 DEF Explained, Raw, Choice
  <2>4. CASE k \notin Hidden(t, f) /\ k \notin Switches(t)
    BY <2>1, <2>4 DEF Explained, Raw, Choice
  <2> QED BY <2>2, <2>3, <2>4
<1>6. Holds(r, t, f)
  BY <1>3, <1>5 DEF Holds
<1> QED BY <1>2, <1>4, <1>6 DEF p
\* What an update carries over: what both templates declare and the user customized.
Carried(t, u, f) ==
    [k \in Keys |-> IF k \in t.params \cap u.params /\ f[k] # t.default[k] THEN f[k] ELSE Nil]

\* SetValuesSmartMerge: it finds what was customized in what values.yaml records.
LEMMA MergeHolds ==
    ASSUME NEW t \in Templates, TidyTemplate(t), NEW u \in Templates, TidyTemplate(u),
           \A k \in t.params \cap u.params : t.type[k] = u.type[k],
           NEW f \in Partial, Chosen(t, f), NEW keys \in Partial, Explains(t, f, keys)
    PROVE  /\ Carried(t, u, f) \in Partial /\ Typed(u, Carried(t, u, f))
           /\ Holds(SetValuesSmartMerge(ExtractParams(u), SetValues(ExtractParams(t), keys)),
                    u, Carried(t, u, f))
<1> DEFINE h == Carried(t, u, f)
           old == SetValues(ExtractParams(t), keys)
           p == ExtractParams(u)
           g == [k \in Keys |-> IF k \in old.live /\ old.var[k] # Default(old, k)
                                THEN old.var[k] ELSE Nil]
           r == Assign(p, g)
<1>1. /\ Holds(old, t, f) /\ \A k \in t.params : old.var[k] = keys[k]
      /\ t.params \subseteq Keys /\ u.params \subseteq Keys
  BY LoadedHolds DEF Templates
<1>2. p \in Params /\ p.live = u.params /\ p.tpl = u /\ \A k \in Keys : p.var[k] = Nil
  BY ExtractType DEF ExtractParams
<1>3. SetValuesSmartMerge(p, old) = r
  BY DEF SetValuesSmartMerge
<1>4. h \in Partial
  BY DEF Carried, Partial
<1>5. \A k \in Keys : h[k] = IF k \in t.params \cap u.params /\ f[k] # t.default[k] THEN f[k] ELSE Nil
  BY DEF Carried
<1> HIDE DEF h, old, p
<1>6. old \in Params /\ old.live = t.params /\ old.tpl = t
  BY <1>1 DEF Holds
<1>7. g \in Partial
  BY <1>6 DEF Partial, Params
<1>8. \A k \in Keys : g[k] = IF k \in t.params /\ keys[k] # t.default[k] THEN keys[k] ELSE Nil
  BY <1>1, <1>6 DEF Default
<1> HIDE DEF g
<1>9. r \in Params /\ r.live = u.params /\ r.tpl = u
  BY <1>2, <1>7, AssignType
<1>10. \A k \in u.params : r.var[k] = g[k]
  BY <1>1, <1>2 DEF Assign, Params
<1> HIDE DEF r
<1>11. Typed(u, h)
  BY <1>1, <1>5 DEF Typed, Chosen
<1>12. \A k \in u.params : g[k] = h[k] \/ (u.default[k] = Choice(u, h, k) /\ g[k] = Nil)
  <2> SUFFICES ASSUME NEW k \in u.params
               PROVE  g[k] = h[k] \/ (u.default[k] = Choice(u, h, k) /\ g[k] = Nil)
    OBVIOUS
  <2>1. k \in Keys /\ keys[k] = Explained(t, f, k)
    BY <1>1 DEF Explains
  <2>2. CASE k \notin t.params
    BY <1>5, <1>8, <2>1, <2>2
  <2>3. CASE k \in t.params /\ k \in Hidden(t, f)
    BY <1>5, <1>8, <2>1, <2>3 DEF Explained, Chosen
  <2>4. CASE k \in t.params /\ k \in Switches(t)
    <3>1. t.type[k] = "optional" /\ t.default[k] = "true" /\ k \notin Hidden(t, f)
      BY <2>4, SwitchChoice DEF TidyTemplate
    <3>2. f[k] \in {Nil, "true", "false"} /\ Nil # "false"
      BY <2>4, <3>1, KeysAssumption DEF Chosen, Typed, Accepts, Values
    <3>3. CASE f[k] = "false"
      BY <1>5, <1>8, <2>1, <2>4, <3>1, <3>3 DEF Explained
    <3>4. CASE f[k] # "false"
      <4>1. g[k] = Nil
        BY <1>8, <2>1, <2>4, <3>1, <3>4 DEF Explained
      <4>2. h[k] = Nil
        BY <1>5, <2>1, <3>1, <3>2, <3>4
      <4> QED BY <4>1, <4>2
    <3> QED BY <3>3, <3>4
  <2>5. CASE k \in t.params /\ k \notin Hidden(t, f) /\ k \notin Switches(t)
    <3>1. keys[k] = Choice(t, f, k)
      BY <2>1, <2>5 DEF Explained
    <3> QED BY <1>5, <1>8, <2>1, <2>5, <3>1 DEF Choice
  <2> QED BY <2>2, <2>3, <2>4, <2>5
<1>13. \A k \in u.params : Raw(r, k) = Choice(u, h, k)
  <2> SUFFICES ASSUME NEW k \in u.params
               PROVE  Raw(r, k) = Choice(u, h, k)
    OBVIOUS
  <2>1. Raw(r, k) = IF g[k] = Nil THEN u.default[k] ELSE g[k]
    BY <1>9, <1>10 DEF Raw, Default
  <2> QED BY <1>12, <2>1 DEF Choice
<1>14. Holds(r, u, h)
  BY <1>9, <1>13 DEF Holds
<1> QED BY <1>3, <1>4, <1>11, <1>14 DEF h, old, p

\* A save of all that was chosen, the arbitrary values included.
Saves(p, arb, t, f) ==
    /\ f \in Partial /\ Typed(t, f) /\ Fits(p, t, f) /\ p.live = Kept(t, f) /\ arb \in Partial
    /\ \A k \in Keys \ t.params : k \notin Hidden(t, f) => arb[k] = f[k]

\* With answers to what was missed.
LEMMA AnswersSave ==
    ASSUME NEW t \in Templates, TidyTemplate(t), NEW g \in Partial, NEW args \in Partial,
           Typed(t, Override(g, Given(t, args))), NEW p, Fits(p, t, Override(g, Given(t, args))),
           NEW answers \in [Keys -> Values], Prompted(p, answers),
           \A k \in Keys \ t.params : g[k] = Nil
    PROVE  Saves(AskMissing(p, answers), args, t,
                 Override(g, Given(t, Override(args, Answered(p, answers)))))
<1> DEFINE f == Override(g, Given(t, args))
           all == Override(args, Answered(p, answers))
           h == Override(g, Given(t, all))
           M == Missed(ProcessOptionnalParams(p))
<1>1. p \in Params /\ p.tpl = t /\ t.params \subseteq Keys
  BY DEF Fits, Templates
<1>2. Fits(ProcessOptionnalParams(p), t, f)
  BY <1>1, ProcessFits, OverrideType DEF Given, Partial
<1>3. M \subseteq t.params
  BY <1>2 DEF Missed, Fits
<1>4. Answered(p, answers) \in Partial /\ \A k \in Keys : Answered(p, answers)[k] = IF k \in M THEN answers[k] ELSE Nil
  BY AskType, <1>1 DEF Answered
<1>5. all \in Partial /\ \A k \in Keys : all[k] = IF k \in M THEN answers[k] ELSE args[k]
  <2>1. all \in Partial
    BY <1>4, OverrideType
  <2>2. \A k \in Keys : answers[k] # Nil
    BY KeysAssumption
  <2> QED BY <1>4, <2>1, <2>2 DEF Override
<1>6. \A k \in M : Accepts(t.type[k], answers[k]) /\ answers[k] # Nil
  BY <1>1, <1>3, KeysAssumption DEF Prompted, AskUser, Type
<1> HIDE DEF all, M
<1>7. h \in Partial /\ f \in Partial
  <2>1. Given(t, all) \in Partial /\ Given(t, args) \in Partial
    BY <1>5 DEF Given, Partial
  <2> QED BY <2>1, OverrideType
<1>8. \A k \in Keys : h[k] = IF k \in M THEN answers[k] ELSE f[k]
  BY <1>3, <1>5, <1>6 DEF Override, Given
<1>9. \A k \in Keys \ t.params : f[k] = args[k]
  BY DEF Override, Given
<1> HIDE DEF f, h
<1>10. Typed(t, h) /\ Fits(AskMissing(p, answers), t, h) /\ AskMissing(p, answers).live = Kept(t, h)
  BY <1>7, <1>8, AskFits DEF M, f
<1>11. \A k \in Keys \ t.params : args[k] = h[k]
  BY <1>3, <1>8, <1>9
<1> QED BY <1>7, <1>10, <1>11 DEF Saves, h, all
\* init, as it is: with no parameter below another there is no switch to delete.
LEMMA PlainSave ==
    ASSUME NEW t \in Templates, TidyTemplate(t), NEW f \in Partial, Typed(t, f), NEW p, Holds(p, t, f),
           NEW arb \in Partial, Unambiguous(p, arb), \A k \in Keys \ t.params : arb[k] = f[k]
    PROVE  Saves(p, arb, t, f)
<1>1. p \in Params /\ p.live = t.params /\ Fits(p, t, f)
  BY HoldsFits DEF Holds
<1>2. Switches(t) = {}
  <2>1. ASSUME NEW o \in Switches(t)
        PROVE  FALSE
    <3>1. PICK k \in t.params : k \in Below[o]
      BY DEF TidyTemplate
    <3>2. o \in p.live /\ k \in p.live
      BY <1>1, <3>1 DEF Switches
    <3> QED BY <3>1, <3>2 DEF Unambiguous, Unrelated, Related
  <2> QED BY <2>1
<1>3. Hidden(t, f) = {}
  BY <1>2 DEF Hidden
<1>4. p.live = Kept(t, f)
  BY <1>1, <1>2, <1>3 DEF Kept
<1> QED BY <1>1, <1>4 DEF Saves

\* init, with defaults, with answers or with neither.
LEMMA InitSaves ==
    ASSUME NEW t \in Templates, TidyTemplate(t), NEW args \in Partial, NEW p,
           p \in {SetLooseValues(ExtractParams(t), args),
                  SetToDefaults(SetLooseValues(ExtractParams(t), args))}
    PROVE  /\ \/ Saves(p, args, t, Override(Unset, Given(t, args)))
              \/ ~Unambiguous(p, args) /\ (ValidateAll(p) => \A k \in t.params : args[k] # Nil)
           /\ \A answers \in [Keys -> Values] :
                 Prompted(p, answers) =>
                    Saves(AskMissing(p, answers), args, t,
                          Override(Unset, Given(t, Override(args, Answered(p, answers)))))
<1> DEFINE f == Override(Unset, Given(t, args))
           q == SetLooseValues(ExtractParams(t), args)
<1>1. f \in Partial /\ Typed(t, f) /\ Holds(q, t, f)
  <2>1. Unset \in Partial
    BY BasicTypes
  <2>2. Typed(t, Unset)
    BY DEF Typed, Unset, Templates
  <2> QED BY <2>1, <2>2, ExtractHolds, LooseHolds
<1>2. \A k \in Keys \ t.params : args[k] = f[k] /\ Unset[k] = Nil
  BY DEF Override, Given, Unset
<1> HIDE DEF f, q
<1>3. Fits(q, t, f)
  BY <1>1, HoldsFits
<1>4. Fits(SetToDefaults(q), t, f) /\ SetToDefaults(q).live = Kept(t, f)
  BY <1>1, <1>3, DefaultsFit
<1>5. \/ Saves(p, args, t, f)
      \/ ~Unambiguous(p, args) /\ (ValidateAll(p) => \A k \in t.params : args[k] # Nil)
  <2>1. CASE p = q
    <3>1. Unambiguous(q, args) => Saves(q, args, t, f)
      BY <1>1, <1>2, PlainSave
    <3>2. q.live = t.params /\ t.params \subseteq Keys
      BY <1>1 DEF Holds, Templates
    <3>3. \A k \in t.params : args[k] = Nil => q.var[k] = Nil
      BY <3>2 DEF q, SetLooseValues, Assign, ExtractParams
    <3> QED BY <2>1, <3>1, <3>2, <3>3 DEF ValidateAll, IsValid
  <2>2. CASE p = SetToDefaults(q)
    BY <1>1, <1>2, <1>4, <2>2 DEF Saves
  <2> QED BY <2>1, <2>2 DEF q
<1>6. Fits(p, t, f)
  BY <1>3, <1>4 DEF q
<1>7. \A answers \in [Keys -> Values] :
         Prompted(p, answers) =>
            Saves(AskMissing(p, answers), args, t,
                  Override(Unset, Given(t, Override(args, Answered(p, answers)))))
  BY <1>1, <1>2, <1>6, BasicTypes, AnswersSave DEF f
<1> QED BY <1>5, <1>7 DEF f

\* set: what stands is what was chosen, and is what was recorded.
LEMMA SetSaves ==
    ASSUME NEW t \in Templates, TidyTemplate(t), NEW c \in Partial, Chosen(t, c),
           NEW keys \in Partial, Explains(t, c, keys), NEW args \in Partial, NEW reload \in BOOLEAN,
           NEW g, g = [k \in Keys |-> IF reload /\ k \notin t.params THEN Nil ELSE c[k]]
    PROVE  Saves(ProcessOptionnalParams(SetLooseValues(SetValues(ExtractParams(t), keys), args)),
                 Override(IF reload THEN Unset ELSE keys, args), t, Override(g, Given(t, args)))
<1> DEFINE old == SetValues(ExtractParams(t), keys)
           p == SetLooseValues(old, args)
           arb == Override(IF reload THEN Unset ELSE keys, args)
           f == Override(g, Given(t, args))
<1>1. g \in Partial /\ t.params \subseteq Keys /\ \A k \in t.params : g[k] = c[k]
  BY DEF Partial, Templates
<1>2. Typed(t, g)
  BY <1>1 DEF Typed, Chosen
<1>3. Holds(old, t, c)
  BY LoadedHolds
<1> HIDE DEF old
<1>4. Holds(old, t, g)
  BY <1>1, <1>3 DEF Holds, Choice
<1>5. f \in Partial /\ Typed(t, f) /\ Holds(p, t, f)
  BY <1>1, <1>2, <1>4, LooseHolds
<1>6. arb \in Partial
  BY BasicTypes, OverrideType
<1>7. \A k \in Keys \ t.params : arb[k] = f[k]
  <2> SUFFICES ASSUME NEW k \in Keys \ t.params
               PROVE  arb[k] = f[k]
    OBVIOUS
  <2>1. /\ arb[k] = IF args[k] # Nil THEN args[k] ELSE IF reload THEN Nil ELSE keys[k]
        /\ f[k] = IF args[k] # Nil THEN args[k] ELSE IF reload THEN Nil ELSE c[k]
    BY DEF Override, Given, Unset
  <2>2. keys[k] = Explained(t, c, k) /\ k \notin Switches(t)
    BY DEF Explains, Switches
  <2>3. keys[k] = c[k]
    BY <2>2 DEF Explained, Chosen, Choice
  <2> QED BY <2>1, <2>3
<1> HIDE DEF p, arb, f
<1>8. Fits(p, t, f)
  BY <1>5, HoldsFits
<1>9. Fits(ProcessOptionnalParams(p), t, f) /\ ProcessOptionnalParams(p).live = Kept(t, f)
  BY <1>5, <1>8, ProcessFits
<1>10. Saves(ProcessOptionnalParams(p), arb, t, f)
  BY <1>5, <1>6, <1>7, <1>9 DEF Saves
<1> QED BY <1>10 DEF p, old, arb, f

\* update: what stands is what was customized, and is what was carried over.
LEMMA UpdateSaves ==
    ASSUME NEW t \in Templates, TidyTemplate(t), NEW u \in Templates, TidyTemplate(u),
           \A k \in t.params \cap u.params : t.type[k] = u.type[k],
           NEW c \in Partial, Chosen(t, c), NEW keys \in Partial, Explains(t, c, keys),
           NEW args \in Partial, NEW p,
           p = ProcessOptionnalParams(SetLooseValues(
                  SetValuesSmartMerge(ExtractParams(u), SetValues(ExtractParams(t), keys)), args))
    PROVE  /\ Saves(SetToDefaults(p), args, u, Override(Carried(t, u, c), Given(u, args)))
           /\ \A answers \in [Keys -> Values] :
                 Prompted(p, answers) =>
                    Saves(AskMissing(p, answers), args, u,
                          Override(Carried(t, u, c), Given(u, Override(args, Answered(p, answers)))))
<1> DEFINE g == Carried(t, u, c)
           m == SetValuesSmartMerge(ExtractParams(u), SetValues(ExtractParams(t), keys))
           q == SetLooseValues(m, args)
           f == Override(g, Given(u, args))
<1>1. g \in Partial /\ Typed(u, g) /\ Holds(m, u, g)
  BY MergeHolds
<1>2. \A k \in Keys \ u.params : g[k] = Nil /\ args[k] = f[k]
  BY DEF Carried, Override, Given
<1>3. p = ProcessOptionnalParams(q)
  OBVIOUS
<1> HIDE DEF g, m
<1>4. f \in Partial /\ Typed(u, f) /\ Holds(q, u, f)
  BY <1>1, LooseHolds
<1> HIDE DEF q, f
<1>5. Fits(q, u, f)
  BY <1>4, HoldsFits
<1>6. Fits(p, u, f)
  BY <1>3, <1>4, <1>5, ProcessFits
<1>7. Fits(SetToDefaults(p), u, f) /\ SetToDefaults(p).live = Kept(u, f)
  BY <1>4, <1>6, DefaultsFit
<1>8. Saves(SetToDefaults(p), args, u, f)
  BY <1>2, <1>4, <1>7 DEF Saves
<1>9. \A answers \in [Keys -> Values] :
         Prompted(p, answers) =>
            Saves(AskMissing(p, answers), args, u,
                  Override(g, Given(u, Override(args, Answered(p, answers)))))
  BY <1>1, <1>2, <1>4, <1>6, AnswersSave DEF f
<1> QED BY <1>8, <1>9 DEF f, g
\* What a file records, and what a command in progress is about to, explains what stands
\* of the choices; an update compares with what the file recorded.
ExplainsFile(f) ==
    f \notin {NoFile, Empty} =>
        /\ base \in Versions /\ Chosen(Published[base], chosen)
        /\ Explains(Published[base], chosen, f.keys)

Wanted == Override(Standing, Asked(Content(job.dir)))

Compares ==
    job.cmd = "update" /\ pc \in {"pull", "fetch", "prerun", "migrate", "merge"} =>
        /\ job.before \notin {NoFile, Empty}
        /\ job.conf = SetValues(ExtractParams(Published[base]), job.before.keys)

\* An init that is given every parameter deletes none, below which switch it may be.
AllGiven ==
    job.cmd = "init" /\ job.args \in Inputs /\ \A k \in Content(job.dir).params : job.args[k] # Nil

Collected ==
    pc = "render" \/ (pc = "backup" /\ job.cmd = "init") =>
        \/ Saves(job.conf, job.arb, Content(job.dir), Wanted)
        \/ ~Unambiguous(job.conf, job.arb) /\ AllGiven

RendersWanted ==
    pc \in {"truncate", "write"} =>
        /\ Chosen(Content(job.dir), Visible(Content(job.dir), Wanted))
        /\ Explains(Content(job.dir), Visible(Content(job.dir), Wanted), rendered)

ExplainedInv ==
    ExplainsFile(file) /\ ExplainsFile(job.before) /\ Compares /\ Collected /\ RendersWanted

SavesTidily == pc = "render" => TidySave(job.conf, job.arb)

\* Nothing is recorded, and nothing in progress, at first.
LEMMA InitExplained == Init => ExplainedInv
  BY NoJobShape
     DEF Init, ExplainedInv, ExplainsFile, Compares, Collected, RendersWanted

\* The steps that neither read nor write the parameters.
LEMMA QuietExplained ==
    ASSUME IInv, TypeInv, ExplainedInv,
           StartInit \/ StartUpdate \/ Stop \/ PullRefused \/ PullRemove \/ PullRetry \/ PullInstall
             \/ UpdateNoPreRun \/ UpdatePreRun
    PROVE  ExplainedInv'
<1>1. CASE StartInit \/ StartUpdate
  <2>1. PICK cmd \in {"init", "update"}, dir \in Dirs :
          /\ pc' = (IF cmd = "init" THEN "pull" ELSE "backup")
          /\ job' = [NoJob EXCEPT !.cmd = cmd, !.dir = dir, !.before = file]
    BY <1>1 DEF StartInit, StartUpdate, Begin
  <2>2. job'.before = file /\ job'.cmd = cmd
    BY <2>1, NoJobShape DEF Fields
  <2>3. UNCHANGED <<file, chosen, base>>
    BY <1>1 DEF StartInit, StartUpdate, Begin
  <2> QED BY <2>1, <2>2, <2>3 DEF ExplainedInv, ExplainsFile, Compares, Collected, RendersWanted
<1>2. CASE Stop
  <2>1. pc' = "idle" /\ job' = NoJob /\ UNCHANGED <<file, chosen, base>>
    BY <1>2 DEF Stop
  <2> QED BY <2>1, NoJobShape DEF ExplainedInv, ExplainsFile, Compares, Collected, RendersWanted
<1>3. CASE PullRefused \/ PullRemove \/ PullRetry \/ PullInstall
  <2>1. /\ UNCHANGED <<file, job, chosen, base>>
        /\ \/ pc' = "compute" /\ job.cmd = "init"
           \/ pc \in {"pull", "fetch"} /\ pc' \in {"pull", "fetch", "prerun", "compute"}
    BY <1>3 DEF PullRefused, PullRemove, PullRetry, PullInstall, AfterPull
  <2> QED BY <2>1 DEF ExplainedInv, ExplainsFile, Compares, Collected, RendersWanted
<1>4. CASE UpdateNoPreRun \/ UpdatePreRun
  <2>1. /\ pc = "prerun" /\ pc' \in {"merge", "migrate"} /\ file' \in {file, Empty}
        /\ UNCHANGED <<job, chosen, base>>
    BY <1>4 DEF UpdateNoPreRun, UpdatePreRun
  <2> QED BY <2>1 DEF ExplainedInv, ExplainsFile, Compares, Collected, RendersWanted
<1> QED BY <1>1, <1>2, <1>3, <1>4

\* An update reads what was recorded against the template that it was written from.
LEMMA LoadExplained ==
    ASSUME IInv, TypeInv, ExplainedInv, UpdateLoad \/ UpdateMigrate
    PROVE  ExplainedInv'
<1>1. /\ job.cmd = "update" /\ UNCHANGED <<dirs, rendered, chosen, base, torn>> /\ pc' \in {"pull", "merge"}
      /\ job \in Jobs
  BY DEF UpdateLoad, UpdateMigrate, TypeInv
<1>2. ASSUME NEW f, FromBase(f), f \notin {NoFile, Empty}, dirs[f.config] # Missing
      PROVE  Content(f.config) = Published[base]
  BY <1>2 DEF FromBase, IInv, DirsInv, Content
<1>3. CASE UpdateLoad
  <2>1. Loadable /\ pc = "load" /\ job' = [job EXCEPT !.conf = Loaded] /\ file' = file
    BY <1>3 DEF UpdateLoad
  <2>2. FromBase(file) /\ file \notin {NoFile, Empty} /\ dirs[file.config] # Missing /\ file = job.before
    BY <1>1, <2>1 DEF Loadable, Written, TypeInv, IInv, FoundInv
  <2>3. Loaded = SetValues(ExtractParams(Published[base]), job.before.keys)
    BY <1>2, <2>2 DEF Loaded
  <2>4. job'.conf = Loaded /\ job'.before = job.before
    BY <1>1, <2>1 DEF Jobs
  <2> QED BY <1>1, <2>1, <2>2, <2>3, <2>4
          DEF ExplainedInv, ExplainsFile, Compares, Collected, RendersWanted
<1>4. CASE UpdateMigrate
  <2>1. /\ pc = "migrate" /\ file' = job.before /\ dirs[job.before.config] # Missing
        /\ job' = [job EXCEPT !.conf = SetValues(ExtractParams(Content(job.before.config)),
                                                 job.before.keys)]
    BY <1>4 DEF UpdateMigrate
  <2>2. FromBase(job.before) /\ job.before \notin {NoFile, Empty}
    BY <1>1, <2>1 DEF IInv, ExplainedInv, Compares
  <2>3. Content(job.before.config) = Published[base]
    BY <1>2, <2>1, <2>2
  <2>4. /\ job'.conf = SetValues(ExtractParams(Published[base]), job.before.keys)
        /\ job'.before = job.before /\ job'.cmd = job.cmd
    BY <1>1, <2>1, <2>3 DEF Jobs
  <2> QED BY <1>1, <2>1, <2>2, <2>4
          DEF ExplainedInv, ExplainsFile, Compares, Collected, RendersWanted
<1> QED BY <1>3, <1>4
\* init collects what was asked for.
LEMMA InitComputeExplained ==
    ASSUME Tidy, IInv, TypeInv, ExplainedInv, InitCompute
    PROVE  ExplainedInv'
<1> DEFINE t == Content(job.dir)
<1>1. /\ job.cmd = "init" /\ dirs[job.dir] # Missing /\ job.dir \in Dirs /\ job \in Jobs
      /\ pc' \in {"backup", "render"} /\ UNCHANGED <<dirs, file, rendered, chosen, base, torn>>
  BY DEF InitCompute, TypeInv, Jobs
<1>2. t \in Templates /\ TidyTemplate(t)
  BY <1>1, BasicTypes DEF IInv, Tidy, Content
<1>3. PICK args \in Inputs, isDefault \in BOOLEAN :
        LET p == InitParameters(args, isDefault)
        IN  \/ ValidateAll(p) /\ job' = [job EXCEPT !.conf = p, !.args = args, !.arb = args]
            \/ \E answers \in Answers :
                  /\ Prompted(p, answers)
                  /\ job' = [job EXCEPT !.conf = AskMissing(p, answers), !.arb = args,
                                        !.args = Override(args, Answered(p, answers))]
  BY DEF InitCompute
<1> DEFINE p == InitParameters(args, isDefault)
           S(conf, arb, given) == Saves(conf, arb, t, Override(Unset, Given(t, given)))
<1>4. args \in Partial
  BY ConfigAssumption
<1>5. p \in {SetLooseValues(ExtractParams(t), args), SetToDefaults(SetLooseValues(ExtractParams(t), args))}
  BY DEF InitParameters
<1>6. /\ S(p, args, args) \/ (~Unambiguous(p, args) /\ (ValidateAll(p) => \A k \in t.params : args[k] # Nil))
      /\ \A answers \in Answers :
            Prompted(p, answers) => S(AskMissing(p, answers), args, Override(args, Answered(p, answers)))
  <2> HIDE DEF p, t
  <2>1. Answers \subseteq [Keys -> Values]
    BY ConfigAssumption
  <2> QED BY <1>2, <1>4, <1>5, <2>1, InitSaves
<1> HIDE DEF p, t, S
<1> DEFINE Made(conf, given) ==
             /\ job' = [job EXCEPT !.conf = conf, !.arb = args, !.args = given]
             /\ \/ S(conf, args, given)
                \/ ~Unambiguous(conf, args) /\ given \in Inputs /\ \A k \in t.params : given[k] # Nil
<1>7. \E conf, given : Made(conf, given)
  <2>1. CASE ValidateAll(p) /\ job' = [job EXCEPT !.conf = p, !.args = args, !.arb = args]
    <3>1. job' = [job EXCEPT !.conf = p, !.arb = args, !.args = args]
      BY <2>1
    <3>2. Made(p, args)
      BY <1>6, <2>1, <3>1
    <3> QED BY <3>2
  <2>2. ASSUME NEW answers \in Answers, Prompted(p, answers),
               job' = [job EXCEPT !.conf = AskMissing(p, answers), !.arb = args,
                                  !.args = Override(args, Answered(p, answers))]
        PROVE  \E conf, given : Made(conf, given)
    <3>1. Made(AskMissing(p, answers), Override(args, Answered(p, answers)))
      BY <1>6, <2>2
    <3> QED BY <3>1
  <2> QED BY <1>3, <2>1, <2>2 DEF p
<1>8. PICK conf, given : Made(conf, given)
  BY <1>7
<1>9. /\ job'.conf = conf /\ job'.arb = args /\ job'.args = given /\ job'.cmd = "init"
      /\ job'.dir = job.dir /\ job'.before = job.before
  BY <1>1, <1>8 DEF Jobs
<1>10. Wanted' = Override(Unset, Given(t, given)) /\ Content(job.dir)' = t
  <2>1. Content(job.dir)' = t
    BY <1>1, <1>9 DEF Content, t
  <2>2. Standing' = Unset
    BY <1>9 DEF Standing
  <2>3. Asked(Content(job.dir))' = Given(t, given)
    BY <1>9, <2>1 DEF Asked, Given
  <2> QED BY <2>1, <2>2, <2>3 DEF Wanted
<1>11. Collected'
  BY <1>8, <1>9, <1>10 DEF Collected, AllGiven, S
<1> QED BY <1>1, <1>9, <1>11 DEF ExplainedInv, ExplainsFile, Compares, RendersWanted

\* A backup changes none of it.
LEMMA BackupExplained ==
    ASSUME IInv, TypeInv, ExplainedInv, AutoBackup
    PROVE  ExplainedInv'
<1>1. /\ pc = "backup" /\ pc' = (IF job.cmd = "init" THEN "render" ELSE "load")
      /\ UNCHANGED <<dirs, file, rendered, chosen, base, torn>> /\ job \in Jobs
  BY DEF AutoBackup, TypeInv
<1>2. \E saved : job' = [job EXCEPT !.saved = saved]
  BY DEF AutoBackup
<1>3. /\ job'.cmd = job.cmd /\ job'.before = job.before /\ job'.conf = job.conf /\ job'.arb = job.arb
      /\ job'.dir = job.dir /\ job'.args = job.args /\ job'.reload = job.reload
  BY <1>1, <1>2 DEF Jobs
<1>4. Content(job.dir)' = Content(job.dir)
  BY <1>1, <1>3 DEF Content
<1>5. Wanted' = Wanted
  <2>1. Standing' = Standing
    BY <1>1, <1>3, <1>4 DEF Standing, Content
  <2>2. Asked(Content(job.dir))' = Asked(Content(job.dir))
    BY <1>3, <1>4 DEF Asked
  <2> QED BY <1>4, <2>1, <2>2 DEF Wanted
<1>6. Collected'
  BY <1>1, <1>3, <1>4, <1>5 DEF ExplainedInv, Collected, AllGiven
<1> QED BY <1>1, <1>3, <1>6 DEF ExplainedInv, ExplainsFile, Compares, RendersWanted

\* set keeps what was recorded, and overrides it.
LEMMA SetLoadExplained ==
    ASSUME Tidy, IInv, TypeInv, ExplainedInv, SetLoad
    PROVE  ExplainedInv'
<1> DEFINE t == Published[base]
<1>1. Loadable /\ pc' = "render" /\ UNCHANGED <<dirs, file, rendered, chosen, base, torn>>
  BY DEF SetLoad
<1>2. /\ file \in Files /\ file \notin {NoFile, Empty} /\ FromBase(file) /\ dirs[file.config] # Missing
      /\ ExplainsFile(file)
  BY <1>1 DEF Loadable, Written, TypeInv, IInv, ExplainedInv
<1>3. /\ base \in Versions /\ Content(file.config) = t /\ t \in Templates /\ TidyTemplate(t)
      /\ Chosen(t, chosen) /\ Explains(t, chosen, file.keys) /\ file.keys \in Partial
      /\ chosen \in Partial /\ file.config = base
  BY <1>2, ConfigAssumption DEF FromBase, IInv, DirsInv, Content, ExplainsFile, Tidy, Files, Chosen
<1>4. PICK args \in Inputs, reload \in BOOLEAN :
        job' = [NoJob EXCEPT !.cmd = "set", !.dir = file.config, !.args = args, !.reload = reload,
                             !.conf = ProcessOptionnalParams(SetLooseValues(Loaded, args)),
                             !.arb = Override(IF reload THEN Unset ELSE file.keys, args)]
  BY DEF SetLoad
<1> DEFINE conf == ProcessOptionnalParams(SetLooseValues(SetValues(ExtractParams(t), file.keys), args))
           arb == Override(IF reload THEN Unset ELSE file.keys, args)
           g == [k \in Keys |-> IF reload /\ k \notin t.params THEN Nil ELSE chosen[k]]
<1>5. args \in Partial
  BY ConfigAssumption
<1>6. conf = ProcessOptionnalParams(SetLooseValues(Loaded, args))
  BY <1>3 DEF Loaded
<1>7. Saves(conf, arb, t, Override(g, Given(t, args)))
  <2> HIDE DEF t
  <2> QED BY <1>3, <1>5, SetSaves
<1> HIDE DEF conf, arb
<1>8. job' = [NoJob EXCEPT !.cmd = "set", !.dir = file.config, !.args = args, !.reload = reload,
                           !.conf = conf, !.arb = arb]
  BY <1>4, <1>6 DEF arb
<1>9. /\ job'.cmd = "set" /\ job'.dir = file.config /\ job'.args = args /\ job'.reload = reload
      /\ job'.conf = conf /\ job'.arb = arb /\ job'.before = NoFile
  BY <1>8, BasicTypes, NoJobShape DEF Jobs
<1>10. Content(job.dir)' = t
  BY <1>1, <1>3, <1>9 DEF Content
<1>11. Wanted' = Override(g, Given(t, args))
  <2>1. Standing' = g
    BY <1>1, <1>9 DEF Standing
  <2>2. Asked(Content(job.dir))' = Given(t, args)
    BY <1>9, <1>10 DEF Asked, Given
  <2> QED BY <2>1, <2>2 DEF Wanted
<1>12. Collected'
  BY <1>7, <1>9, <1>10, <1>11 DEF Collected
<1>13. ExplainsFile(file)'
  BY <1>1, <1>2 DEF ExplainsFile
<1> QED BY <1>1, <1>9, <1>12, <1>13 DEF ExplainedInv, ExplainsFile, Compares, RendersWanted
\* update collects what was customized and what was asked for.
LEMMA MergeExplained ==
    ASSUME Tidy, IInv, TypeInv, ExplainedInv, UpdateMerge
    PROVE  ExplainedInv'
<1> DEFINE t == Published[base]
           u == Content(job.dir)
           keys == job.before.keys
<1>1. /\ job.cmd = "update" /\ pc = "merge" /\ dirs[job.dir] # Missing /\ job.dir \in Dirs /\ job \in Jobs
      /\ pc' = "render" /\ UNCHANGED <<dirs, file, rendered, chosen, base, torn>>
  BY DEF UpdateMerge, TypeInv, Jobs
<1>2. dirs[job.dir] \in Versions /\ u \in Templates /\ TidyTemplate(u)
  BY <1>1, BasicTypes DEF IInv, Tidy, Content
<1>3. /\ job.before \notin {NoFile, Empty} /\ job.conf = SetValues(ExtractParams(t), keys)
      /\ ExplainsFile(job.before)
  BY <1>1 DEF ExplainedInv, Compares
<1>4. /\ base \in Versions /\ t \in Templates /\ TidyTemplate(t)
      /\ Chosen(t, chosen) /\ Explains(t, chosen, keys) /\ keys \in Partial /\ chosen \in Partial
  <2>1. job.before \in Files
    BY <1>1 DEF Jobs
  <2>2. keys \in Partial
    BY <1>3, <2>1 DEF Files
  <2> QED BY <1>3, <2>2, ConfigAssumption DEF ExplainsFile, Tidy, Chosen
<1>5. \A k \in t.params \cap u.params : t.type[k] = u.type[k]
  BY <1>2, <1>4 DEF Tidy, Content
<1>6. PICK args \in Inputs :
        LET p == ProcessOptionnalParams(Merge(job.conf, args))
        IN  \/ job' = [job EXCEPT !.conf = SetToDefaults(p), !.args = args, !.arb = args]
            \/ \E answers \in Answers :
                  /\ Prompted(p, answers)
                  /\ job' = [job EXCEPT !.conf = AskMissing(p, answers), !.arb = args,
                                        !.args = Override(args, Answered(p, answers))]
  BY DEF UpdateMerge
<1> DEFINE p == ProcessOptionnalParams(Merge(job.conf, args))
           S(conf, given) == Saves(conf, args, u, Override(Carried(t, u, chosen), Given(u, given)))
<1>7. args \in Partial
  BY ConfigAssumption
<1>8. p = ProcessOptionnalParams(SetLooseValues(
             SetValuesSmartMerge(ExtractParams(u), SetValues(ExtractParams(t), keys)), args))
  BY <1>3 DEF Merge
<1>9. /\ S(SetToDefaults(p), args)
      /\ \A answers \in Answers :
            Prompted(p, answers) => S(AskMissing(p, answers), Override(args, Answered(p, answers)))
  <2> HIDE DEF p, t, u, keys
  <2>1. Answers \subseteq [Keys -> Values]
    BY ConfigAssumption
  <2> QED BY <1>2, <1>4, <1>5, <1>7, <1>8, <2>1, UpdateSaves
<1> HIDE DEF p, t, u, S
<1>10. \E conf, given : /\ job' = [job EXCEPT !.conf = conf, !.arb = args, !.args = given]
                        /\ S(conf, given)
  BY <1>6, <1>9 DEF p
<1>11. PICK conf, given : /\ job' = [job EXCEPT !.conf = conf, !.arb = args, !.args = given]
                          /\ S(conf, given)
  BY <1>10
<1>12. /\ job'.conf = conf /\ job'.arb = args /\ job'.args = given /\ job'.cmd = "update"
       /\ job'.dir = job.dir /\ job'.before = job.before
  BY <1>1, <1>11 DEF Jobs
<1>13. Wanted' = Override(Carried(t, u, chosen), Given(u, given)) /\ Content(job.dir)' = u
  <2>1. Content(job.dir)' = u
    BY <1>1, <1>12 DEF Content, u
  <2>2. Standing' = Carried(t, u, chosen)
    BY <1>1, <1>12, <2>1 DEF Standing, Carried, t
  <2>3. Asked(Content(job.dir))' = Given(u, given)
    BY <1>12, <2>1 DEF Asked, Given
  <2> QED BY <2>1, <2>2, <2>3 DEF Wanted
<1>14. Collected'
  BY <1>11, <1>12, <1>13 DEF Collected, S
<1> QED BY <1>1, <1>12, <1>14 DEF ExplainedInv, ExplainsFile, Compares, RendersWanted

\* What was collected is rendered, and then recorded.
LEMMA SaveExplained ==
    ASSUME Tidy, IInv, TypeInv, RenderedInv, ExplainedInv, SavesTidily,
           SaveRender \/ SaveTruncate \/ SaveWrite
    PROVE  ExplainedInv'
<1> DEFINE t == Content(job.dir)
<1>1. pc \in {"render", "truncate", "write"} /\ dirs[job.dir] # Missing /\ job.dir \in Dirs
  BY DEF SaveRender, SaveTruncate, SaveWrite, IInv, DirInv
<1>2. dirs[job.dir] \in Versions /\ t \in Templates /\ TidyTemplate(t) /\ t = Published[dirs[job.dir]]
  BY <1>1, BasicTypes DEF IInv, Tidy, Content
<1>3. CASE SaveRender \/ SaveTruncate
  <2>1. /\ UNCHANGED <<dirs, job, chosen, base>> /\ pc' \in {"truncate", "write"} /\ file' \in {file, Empty}
    BY <1>3 DEF SaveRender, SaveTruncate
  <2>2. UNCHANGED <<Wanted, Content(job.dir)>>
    BY <2>1 DEF Wanted, Standing, Asked, Content
  <2>3. RendersWanted'
    <3>1. CASE SaveRender
      <4>1. pc = "render" /\ rendered' = GetData(job.conf, job.arb)
        BY <3>1 DEF SaveRender
      <4>2. TidySave(job.conf, job.arb) /\ Saves(job.conf, job.arb, t, Wanted)
        BY <4>1 DEF SavesTidily, TidySave, ExplainedInv, Collected
      <4> HIDE DEF t
      <4>3. Chosen(t, Visible(t, Wanted)) /\ Explains(t, Visible(t, Wanted), GetData(job.conf, job.arb))
        BY <1>2, <4>2, SavedExplained DEF Saves
      <4> QED BY <2>2, <4>1, <4>3 DEF RendersWanted, t
    <3>2. CASE SaveTruncate
      <4>1. pc = "truncate" /\ rendered' = rendered
        BY <3>2 DEF SaveTruncate
      <4> QED BY <2>2, <4>1 DEF ExplainedInv, RendersWanted
    <3> QED BY <1>3, <3>1, <3>2
  <2> QED BY <2>1, <2>3 DEF ExplainedInv, ExplainsFile, Compares, Collected
<1>4. CASE SaveWrite
  <2>1. /\ pc = "write" /\ pc' = "idle" /\ job' = NoJob /\ base' = dirs[job.dir]
        /\ chosen' = Visible(t, Wanted)
    BY <1>4 DEF SaveWrite, Wanted
  <2>2. PICK keys \in Recorded(job.conf, job.arb) : file' = [keys |-> keys, config |-> RecordedConfig]
    BY <1>4 DEF SaveWrite
  <2>3. file'.keys = rendered
    BY <2>1, <2>2 DEF RenderedInv
  <2>4. Chosen(t, Visible(t, Wanted)) /\ Explains(t, Visible(t, Wanted), rendered)
    BY <2>1 DEF ExplainedInv, RendersWanted
  <2> HIDE DEF t
  <2>5. ExplainsFile(file)'
    BY <1>2, <2>1, <2>3, <2>4 DEF ExplainsFile
  <2> QED BY <2>1, <2>5, NoJobShape DEF ExplainedInv, ExplainsFile, Compares, Collected, RendersWanted
<1> QED BY <1>3, <1>4

\* All steps together.
LEMMA StepExplained ==
    ASSUME Tidy
    PROVE  IInv /\ TypeInv /\ RenderedInv /\ ExplainedInv /\ SavesTidily /\ [Next]_vars => ExplainedInv'
<1>1. ExplainedInv /\ UNCHANGED vars => ExplainedInv'
  BY DEF vars, ExplainedInv, ExplainsFile, Compares, Collected, AllGiven, RendersWanted, Wanted, Standing,
         Asked, Content
<1> QED BY <1>1, QuietExplained, LoadExplained, InitComputeExplained, BackupExplained, SetLoadExplained,
           MergeExplained, SaveExplained DEF Next

\* The inductive invariant of what is recorded.
THEOREM ExplainedInvariant ==
    ASSUME Tidy
    PROVE  Spec /\ []SavesTidily => [](TypeInv /\ ExplainedInv)
<1>1. Init => IInv /\ TypeInv /\ RenderedInv /\ ExplainedInv
  BY InitInvariant, InitTypes, InitRendered, InitExplained
<1>2. SavesTidily => SavesUnambiguously
  BY DEF SavesTidily, SavesUnambiguously, TidySave
<1>3. IInv /\ TypeInv /\ RenderedInv /\ ExplainedInv /\ SavesTidily /\ [Next]_vars
         => (IInv /\ TypeInv /\ RenderedInv /\ ExplainedInv)'
  BY <1>2, StepInvariant, StepTypes, StepRendered, StepExplained
<1> QED BY <1>1, <1>3, PTL DEF Spec

\* Between commands every value in values.yaml that is no switch is the one the user
\* last chose, or the default of the template it was written from, through any series of
\* inits, sets and updates.
THEOREM RecordedValuesAreExplained ==
    ASSUME Tidy
    PROVE  Spec /\ []SavesTidily => []ValuesAreExplained
<1>1. ExplainedInv => ValuesAreExplained
  BY DEF ExplainedInv, ExplainsFile, Explains, Explained, ValuesAreExplained, Written
<1> QED BY <1>1, ExplainedInvariant, PTL

\* A switch that was chosen off is recorded so, and one that was chosen on is not.
THEOREM SwitchChoiceIsKept ==
    ASSUME Tidy
    PROVE  Spec /\ []SavesTidily => []OptionalChoiceKept
<1>1. ExplainedInv => OptionalChoiceKept
  <2> SUFFICES ASSUME ExplainedInv, Written, NEW o \in Switches(Published[base]),
                      o \notin Hidden(Published[base], chosen)
               PROVE  (chosen[o] = "false") = (file.keys[o] = "false")
    BY DEF OptionalChoiceKept
  <2>1. base \in Versions /\ Explains(Published[base], chosen, file.keys)
    BY DEF ExplainedInv, ExplainsFile, Written
  <2>2. o \in Keys
    BY <2>1, ConfigAssumption DEF Switches, Templates
  <2>3. file.keys[o] = IF chosen[o] = "false" THEN "false" ELSE Nil
    BY <2>1, <2>2 DEF Explains, Explained
  <2>4. Nil # "false"
    BY KeysAssumption DEF Values
  <2> QED BY <2>3, <2>4
<1> QED BY <1>1, ExplainedInvariant, PTL

\* Only a switch has keys below it, all of them parameters, and none is given on the
\* command line together with all that is below it.
NestedBySwitches ==
    /\ \A v \in Versions, k \in Keys :
          Below[k] # {} => k \in Switches(Published[v]) /\ Below[k] \subseteq Published[v].params
    /\ \A args \in Inputs, o \in Keys : Below[o] # {} => \E k \in Below[o] \cup {o} : args[k] = Nil

\* Then what is saved is tidy.
LEMMA NestedSavesTidily ==
    ASSUME Tidy, NestedBySwitches, IInv, TypeInv, ExplainedInv
    PROVE  SavesTidily
<1> SUFFICES ASSUME pc = "render"
             PROVE  TidySave(job.conf, job.arb)
  BY DEF SavesTidily
<1> DEFINE t == Content(job.dir)
           p == job.conf
           arb == job.arb
           kept == KeptArbitrary(p, arb)
           off == SwitchedOff(p)
<1>1. /\ t \in Templates /\ TidyTemplate(t) /\ t.params \subseteq Keys
      /\ \A k \in Keys : Below[k] # {} => k \in Switches(t) /\ Below[k] \subseteq t.params
  BY BasicTypes DEF IInv, DirInv, Tidy, NestedBySwitches, Content, Templates
<1>2. \A k \in Keys : kept[k] = IF \E o \in off : k \in Below[o] THEN Nil ELSE arb[k]
  BY DEF KeptArbitrary
<1>3. \/ Saves(p, arb, t, Wanted)
      \/ ~Unambiguous(p, arb) /\ AllGiven
  BY DEF ExplainedInv, Collected
<1>4. CASE Saves(p, arb, t, Wanted)
  <2> DEFINE f == Wanted
  <2>1. p.live = Kept(t, f) /\ p.tpl = t /\ f \in Partial /\ Typed(t, f) /\ Fits(p, t, f)
    BY <1>4 DEF Saves, Fits
  <2> HIDE DEF f
  <2>2. off = {o \in Switches(t) : f[o] = "false"}
    BY <1>1, <2>1, ProcessFits
  <2> HIDE DEF t, p, arb, kept, off
  <2>3. \A k : k \in Hidden(t, f) <=> \E o \in off : k \in Below[o]
    BY <1>1, <2>1, <2>2, SwitchChoice DEF Hidden
  <2>4. \A k : k \in p.live <=> k \in t.params /\ k \notin Hidden(t, f) /\ (k \in Switches(t) => k \in off)
    BY <1>1, <2>1, <2>2, SwitchChoice DEF Kept
  <2>5. \A j, k \in Keys : j \in Below[k] =>
           /\ k \in Switches(t) /\ j \in t.params /\ j \notin Switches(t)
           /\ k \in off <=> j \in Hidden(t, f)
    <3> SUFFICES ASSUME NEW j \in Keys, NEW k \in Keys, j \in Below[k]
                 PROVE  /\ k \in Switches(t) /\ j \in t.params /\ j \notin Switches(t)
                        /\ k \in off <=> j \in Hidden(t, f)
      OBVIOUS
    <3>1. k \in Switches(t) /\ j \in t.params
      BY <1>1
    <3>2. j \notin Switches(t) /\ \A s \in Switches(t) : j \in Below[s] => s = k
      BY <1>1, <3>1 DEF TidyTemplate
    <3> QED BY <2>2, <2>3, <3>1, <3>2
  <2>6. \A k \in Keys : kept[k] # Nil => k \notin Hidden(t, f)
    BY <1>2, <2>3
  <2>7. p.live \subseteq Keys
    BY <1>1, <2>4
  <2>8. Unrelated(p.live)
    BY <2>4, <2>5, <2>7 DEF Unrelated, Related
  <2>9. Unrelated(Present(kept) \ p.live)
    BY <2>4, <2>5, <2>6 DEF Unrelated, Related, Present
  <2>10. \A k \in Present(kept) \ p.live, j \in p.live : k \notin Below[j]
    BY <2>4, <2>5, <2>6, <2>7 DEF Present
  <2>11. \A k \in Present(kept) \ (p.live \cup Switches(p.tpl)) : Below[k] \cap p.live = {}
    BY <2>1, <2>5, <2>7 DEF Present
  <2> QED BY <2>8, <2>9, <2>10, <2>11 DEF TidySave, Unambiguous, kept, p, arb
<1>5. CASE ~Unambiguous(p, arb) /\ AllGiven
  <2>1. \A k \in Keys : Below[k] = {}
    <3> SUFFICES ASSUME NEW k \in Keys, Below[k] # {}
                 PROVE  FALSE
      OBVIOUS
    <3>1. k \in t.params /\ Below[k] \subseteq t.params
      BY <1>1 DEF Switches
    <3>2. \A j \in Below[k] \cup {k} : job.args[j] # Nil
      BY <1>5, <3>1 DEF AllGiven
    <3> QED BY <1>5, <3>2 DEF AllGiven, NestedBySwitches
  <2>2. p.live \subseteq Keys /\ Present(kept) \subseteq Keys
    BY DEF TypeInv, Jobs, Params, Present
  <2>3. \A S \in SUBSET Keys : Unrelated(S)
    BY <2>1 DEF Unrelated, Related
  <2> QED BY <1>5, <2>1, <2>2, <2>3 DEF Unambiguous
<1> QED BY <1>3, <1>4, <1>5

\* Whatever the commands are.
LEMMA NestedAlwaysTidy ==
    ASSUME Tidy, NestedBySwitches
    PROVE  Spec => []SavesTidily /\ []SavesUnambiguously
<1>1. Init => IInv /\ TypeInv /\ RenderedInv /\ ExplainedInv
  BY InitInvariant, InitTypes, InitRendered, InitExplained
<1>2. SavesTidily => SavesUnambiguously
  BY DEF SavesTidily, SavesUnambiguously, TidySave
<1>3. IInv /\ TypeInv /\ RenderedInv /\ ExplainedInv /\ [Next]_vars
         => (IInv /\ TypeInv /\ RenderedInv /\ ExplainedInv)'
  BY <1>2, StepInvariant, StepTypes, StepRendered, StepExplained, NestedSavesTidily
<1>4. IInv /\ TypeInv /\ ExplainedInv => SavesTidily
  BY NestedSavesTidily
<1> QED BY <1>1, <1>2, <1>3, <1>4, PTL DEF Spec

\* The values are the user's, and the templates were rendered with them.
THEOREM NestedConfigurationIsKept ==
    ASSUME Tidy, NestedBySwitches
    PROVE  Spec => [](ValuesAreExplained /\ OptionalChoiceKept /\ RenderedIsRecorded)
  BY NestedAlwaysTidy, RecordedValuesAreExplained, SwitchChoiceIsKept, RenderedFilesAreRecorded, PTL

\* And a NixOS host switches to them.
THEOREM NestedSwitchAppliesWhatIsRecorded ==
    ASSUME Tidy, NestedBySwitches
    PROVE  NixSpec => []NextSwitchIsRecorded
  BY NestedAlwaysTidy, NixKeepsFolder, SwitchAppliesWhatIsRecorded, PTL
===============================================================================
