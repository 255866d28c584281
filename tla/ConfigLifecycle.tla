--------------------------- MODULE ConfigLifecycle ----------------------------
(***************************************************************************)
(* One configuration folder under `compose init`, `config set` and         *)
(* `compose update`: the template directories on disk, values.yaml and the *)
(* rendered files.  Commands run one after the other and write values.yaml *)
(* by truncating it; a command may be killed, or fail on an I/O error,     *)
(* between any two of its steps.                                           *)
(***************************************************************************)
EXTENDS ConfigParameters

CONSTANTS Versions,   \* of the template
          Published,  \* the content of each
          Latest,     \* the directory name "latest"
          Missing,    \* no such directory
          Inputs,     \* what a user may pass as key=value arguments
          Answers,    \* and answer when asked for values
          NoFile, Empty,
          InStore,   \* --config names a folder of ConfigsFolder, where backups look
          Failed,    \* no backup was made
          Other      \* one of another folder of that name

VARIABLES
    dirs,      \* template directory -> version of its content, or Missing
    file,      \* values.yaml: NoFile, Empty or [keys, config]
    rendered,  \* the values the templates were last rendered with
    pc, job,   \* the command in progress
    chosen,    \* history: what the user asked for and still stands
    base,      \* history: the version the last complete write was made from
    torn       \* history: rendering began and no write has followed

vars == <<dirs, file, rendered, pc, job, chosen, base, torn>>

Dirs  == Versions \cup {Latest}
Unset == [k \in Keys |-> Nil]
Files == {NoFile, Empty} \cup [keys : Partial, config : Dirs]
Steps == {"idle", "pull", "fetch", "compute", "backup", "render", "truncate", "write",
          "load", "prerun", "migrate", "merge"}

Written  == file \notin {NoFile, Empty}
NoJob    == [cmd |-> "none", dir |-> Latest, args |-> Unset, reload |-> FALSE,
             conf |-> ExtractParams(Published[CHOOSE v \in Versions : TRUE]),
             arb |-> Unset, before |-> NoFile, saved |-> NoFile]

ASSUME ConfigAssumption ==
    /\ Versions # {} /\ Latest \notin Versions /\ Missing \notin Versions \cup {Latest}
    /\ Published \in [Versions -> Templates]
    /\ Inputs \subseteq Partial /\ Answers \subseteq [Keys -> Values]
    /\ {NoFile, Empty} \cap [keys : Partial, config : Dirs] = {}
    /\ InStore \in BOOLEAN

Init ==
    /\ dirs = [d \in Dirs |-> Missing]
    /\ file = NoFile /\ rendered = Unset
    /\ pc = "idle" /\ job = NoJob
    /\ chosen = Unset /\ base = Missing /\ torn = FALSE

\* GetStamusFile and LoadConfigFrom need stamus.config and the directory it names.
Loadable  == Written /\ dirs[file.config] # Missing
Content(d) == Published[dirs[d]]
Loaded    == SetValues(ExtractParams(Content(file.config)), file.keys)

\* Rendering creates the configuration folder.
FolderExists == file # NoFile \/ rendered # Unset

-----------------------------------------------------------------------------
(***************************************************************************)
(* The commands.  The arguments of one are chosen where they are first     *)
(* used; set is one step as far as rendering.                              *)
(***************************************************************************)
Begin(cmd, step, dir) ==
    /\ pc = "idle"
    /\ pc' = step
    /\ job' = [NoJob EXCEPT !.cmd = cmd, !.dir = dir, !.before = file]
    /\ UNCHANGED <<dirs, file, rendered, chosen, base, torn>>

\* Mutant: the backup of an update is left to the commands that need none.
StartUpdateUnsaved == \E d \in Dirs : Begin("update", "load", d)

StartInit   == \E d \in Dirs : Begin("init", "pull", d)
StartUpdate == \E d \in Dirs : Begin("update", "backup", d)

Step(from, to) == pc = from /\ pc' = to

\* Killed, or an error that ends the command: what is on disk stays as it is.
Stop ==
    /\ pc # "idle"
    /\ pc' = "idle" /\ job' = NoJob
    /\ UNCHANGED <<dirs, file, rendered, chosen, base, torn>>

-----------------------------------------------------------------------------
(***************************************************************************)
(* PullConfigAndUnwrap, for each registry in turn.                         *)
(***************************************************************************)
AfterPull == IF job.cmd = "init" THEN "compute" ELSE "prerun"

\* ErrPullingImage comes before anything is removed; init then goes on with
\* what is there, update returns (Stop).
PullRefused ==
    /\ job.cmd = "init" /\ Step("pull", "compute")
    /\ UNCHANGED <<dirs, file, rendered, job, chosen, base, torn>>

PullRemove ==
    /\ Step("pull", "fetch")
    /\ dirs' = [dirs EXCEPT ![job.dir] = Missing]
    /\ UNCHANGED <<file, rendered, job, chosen, base, torn>>

\* The copy from the container fails and the next registry is tried.
PullRetry ==
    /\ Step("fetch", "pull")
    /\ UNCHANGED <<dirs, file, rendered, job, chosen, base, torn>>

\* Mutant: whatever was published last is unpacked.
PullInstallAny ==
    /\ Step("fetch", AfterPull)
    /\ \E v \in Versions : dirs' = [dirs EXCEPT ![job.dir] = v, ![v] = v]
    /\ UNCHANGED <<file, rendered, job, chosen, base, torn>>

\* Renamed into place, then copied to the directory of its own version.
PullInstall ==
    /\ Step("fetch", AfterPull)
    /\ \E v \in Versions :
          /\ job.dir \in {v, Latest}
          /\ dirs' = [dirs EXCEPT ![job.dir] = v, ![v] = v]
    /\ UNCHANGED <<file, rendered, job, chosen, base, torn>>

-----------------------------------------------------------------------------
(***************************************************************************)
(* init: the parameters of the new template, from the arguments and, when  *)
(* it is stamusctl that runs it, from prompts for what is missing.         *)
(***************************************************************************)
InitParameters(args, isDefault) ==
    LET p == SetLooseValues(ExtractParams(Content(job.dir)), args)
    IN  IF isDefault THEN SetToDefaults(p) ELSE p

\* Answers that the prompts take.
Prompted(p, answers) ==
    \A k \in Missed(ProcessOptionnalParams(p)) : AskUser(p, k, answers[k])

InitCompute ==
    /\ job.cmd = "init"
    /\ dirs[job.dir] # Missing
    /\ Step("compute", "backup")
    /\ \E args \in Inputs, isDefault \in BOOLEAN :
          LET p == InitParameters(args, isDefault)
          IN  \/ ValidateAll(p) /\ job' = [job EXCEPT !.conf = p, !.args = args, !.arb = args]
              \/ \E answers \in Answers :
                    /\ Prompted(p, answers)
                    /\ ValidateAll(AskMissing(p, answers))
                    /\ job' = [job EXCEPT !.conf = AskMissing(p, answers), !.arb = args,
                                          !.args = Override(args, Answered(p, answers))]
    /\ UNCHANGED <<dirs, file, rendered, chosen, base, torn>>

\* CreateBackup of type auto (BackupStore models the store) copies values.yaml with
\* the rest of the folder that the last part of the name has in ConfigsFolder, wherever
\* --config leads.  When that fails it is logged and the command goes on; an init
\* that finds no folder makes none, and the daemon's, which joins ConfigsFolder a
\* second time, never finds one.
Backups == {Failed} \cup (IF ~InStore THEN {Other} ELSE IF FolderExists THEN {file} ELSE {})

AutoBackup ==
    /\ Step("backup", IF job.cmd = "init" THEN "render" ELSE "load")
    /\ \E saved \in Backups : job' = [job EXCEPT !.saved = saved]
    /\ UNCHANGED <<dirs, file, rendered, chosen, base, torn>>

-----------------------------------------------------------------------------
(***************************************************************************)
(* set: the recorded values, overridden.                                   *)
(***************************************************************************)
SetLoad ==
    /\ Loadable /\ Step("idle", "render")
    /\ \E args \in Inputs, reload \in BOOLEAN :
          LET p == ProcessOptionnalParams(SetLooseValues(Loaded, args))
              kept == IF reload THEN Unset ELSE file.keys
          IN  /\ ValidateAll(p)
              /\ job' = [NoJob EXCEPT !.cmd = "set", !.dir = file.config, !.args = args,
                                      !.reload = reload, !.conf = p,
                                      !.arb = Override(kept, args)]
    /\ UNCHANGED <<dirs, file, rendered, chosen, base, torn>>

-----------------------------------------------------------------------------
(***************************************************************************)
(* update: the old configuration is read before the pull, so that its      *)
(* values are compared with the defaults they were chosen against.         *)
(***************************************************************************)
UpdateLoad ==
    /\ job.cmd = "update"
    /\ Loadable
    /\ Step("load", "pull")
    /\ job' = [job EXCEPT !.conf = Loaded]
    /\ UNCHANGED <<dirs, file, rendered, chosen, base, torn>>

\* No pre-run script, or one that prints nothing.
UpdateNoPreRun ==
    /\ job.cmd = "update" /\ Step("prerun", "merge")
    /\ UNCHANGED <<dirs, file, rendered, job, chosen, base, torn>>

\* The script prints values.yaml (here as it is); the file is truncated first.
UpdatePreRun ==
    /\ job.cmd = "update" /\ Written /\ Step("prerun", "migrate")
    /\ file' = Empty
    /\ UNCHANGED <<dirs, rendered, job, chosen, base, torn>>

\* Written and loaded again, now against the directories as the pull left them.
UpdateMigrate ==
    /\ job.cmd = "update" /\ Step("migrate", "merge")
    /\ file' = job.before
    /\ dirs[job.before.config] # Missing
    /\ job' = [job EXCEPT !.conf = SetValues(ExtractParams(Content(job.before.config)),
                                             job.before.keys)]
    /\ UNCHANGED <<dirs, rendered, chosen, base, torn>>

Merge(old, args) ==
    SetLooseValues(SetValuesSmartMerge(ExtractParams(Content(job.dir)), old), args)

\* Nothing validates the result.  What is missing is set to its default, or with
\* --interactive asked for; the daemon leaves it, and GetValue gives the default.
UpdateMerge ==
    /\ job.cmd = "update" /\ Step("merge", "render")
    /\ dirs[job.dir] # Missing
    /\ \E args \in Inputs :
          LET p == ProcessOptionnalParams(Merge(job.conf, args))
          IN  \/ job' = [job EXCEPT !.conf = SetToDefaults(p), !.args = args, !.arb = args]
              \/ \E answers \in Answers :
                    /\ Prompted(p, answers)
                    /\ job' = [job EXCEPT !.conf = AskMissing(p, answers), !.arb = args,
                                          !.args = Override(args, Answered(p, answers))]
    /\ UNCHANGED <<dirs, file, rendered, chosen, base, torn>>

-----------------------------------------------------------------------------
(***************************************************************************)
(* SaveConfigTo: the templates, then values.yaml.                          *)
(***************************************************************************)
SaveRender ==
    /\ Step("render", "truncate")
    /\ rendered' = GetData(job.conf, job.arb)
    /\ torn' = TRUE
    /\ UNCHANGED <<dirs, file, job, chosen, base>>

SaveTruncate ==
    /\ Step("truncate", "write")
    /\ file' = Empty
    /\ UNCHANGED <<dirs, rendered, job, chosen, base, torn>>

\* What the user asked for so far, and still does after this command.
Standing ==
    CASE job.cmd = "init" -> Unset
      [] job.cmd = "set" ->
            [k \in Keys |-> IF job.reload /\ k \notin Published[base].params
                            THEN Nil ELSE chosen[k]]
      [] job.cmd = "update" ->
            [k \in Keys |-> IF k \in Published[base].params \cap Content(job.dir).params
                               /\ chosen[k] # Published[base].default[k]
                            THEN chosen[k] ELSE Nil]

Asked(t) ==
    [k \in Keys |-> IF job.args[k] # Nil /\ k \in t.params /\ ~Accepts(t.type[k], job.args[k])
                    THEN Nil ELSE job.args[k]]

Choice(t, f, k) == IF f[k] # Nil THEN f[k] ELSE IF k \in t.params THEN t.default[k] ELSE Nil

Switches(t) == {k \in t.params : t.type[k] = "optional"}

\* keys below a switch that f and the defaults leave off
Hidden(t, f) == UNION {Below[o] : o \in {s \in Switches(t) : Choice(t, f, s) = "false"}}

Visible(t, f) == [k \in Keys |-> IF k \in Hidden(t, f) THEN Nil ELSE f[k]]

\* Mutant: the directory that was asked for, "latest" included.
RecordedConfigAsAsked == job.dir

\* stamus.config names the version directory, never latest.
RecordedConfig == IF job.dir = Latest THEN dirs[Latest] ELSE job.dir

SaveWrite ==
    /\ pc = "write"
    /\ \E keys \in Recorded(job.conf, job.arb) :
          file' = [keys |-> keys, config |-> RecordedConfig]
    /\ base' = dirs[job.dir]
    /\ chosen' = LET t == Content(job.dir) IN Visible(t, Override(Standing, Asked(t)))
    /\ torn' = FALSE
    /\ pc' = "idle" /\ job' = NoJob
    /\ UNCHANGED <<dirs, rendered>>

Next ==
    \/ StartInit \/ StartUpdate \/ Stop
    \/ PullRefused \/ PullRemove \/ PullRetry \/ PullInstall
    \/ InitCompute \/ AutoBackup
    \/ SetLoad
    \/ UpdateLoad \/ UpdateNoPreRun \/ UpdatePreRun \/ UpdateMigrate \/ UpdateMerge
    \/ SaveRender \/ SaveTruncate \/ SaveWrite

Spec == Init /\ [][Next]_vars

-----------------------------------------------------------------------------
(***************************************************************************)
(* Properties.                                                             *)
(***************************************************************************)
\* The variables keep their types, and a version directory holds that version.
TypeOK ==
    /\ dirs \in [Dirs -> Versions \cup {Missing}]
    /\ \A v \in Versions : dirs[v] \in {v, Missing}
    /\ file \in Files
    /\ rendered \in Partial /\ chosen \in Partial
    /\ pc \in Steps /\ (pc = "idle" => job = NoJob)
    /\ base \in Versions \cup {Missing}
    /\ torn \in BOOLEAN

\* After any sequence of init, set and update, every value in values.yaml that
\* is no switch is the one the user last chose, or where none stands the default
\* of the template it was written from; below a disabled switch there is none.
ValuesAreExplained ==
    Written /\ pc = "idle" =>
        LET t == Published[base]
        IN  \A k \in Keys \ Switches(t) :
               file.keys[k] = IF k \in Hidden(t, chosen) THEN Nil ELSE Choice(t, chosen, k)

\* A switch the user set to other than its default is still so: a customized
\* value is preserved, which for a switch that is on is recorded by omission.
OptionalChoiceKept ==
    Written /\ pc = "idle" =>
        \A o \in Switches(Published[base]) :
            o \notin Hidden(Published[base], chosen) /\ chosen[o] # Nil =>
               (chosen[o] = "false") = (file.keys[o] = "false")

\* What SetValuesSmartMerge says: an update preserves what the user customized, here
\* a switch set to other than its default in the template updated from.
CustomizedSwitchSurvivesUpdate ==
    [][job.cmd = "update" /\ pc = "write" /\ pc' = "idle" /\ file' # file /\ base # Missing =>
          \A o \in Switches(Published[base]) \cap Switches(Content(job.dir)) :
             /\ job.args[o] = Nil
             /\ chosen[o] \notin {Nil, Published[base].default[o]}
             => (file'.keys[o] = "false") = (chosen[o] = "false")]_vars

\* Unless a save was cut short, the rendered files were made from the values that
\* values.yaml records: nothing is rendered that the next command will not load,
\* such as what is below a disabled switch.
RenderedIsRecorded ==
    Written /\ pc = "idle" /\ ~torn =>
        \A k \in Keys : rendered[k] = file.keys[k]

\* The directory named by stamus.config, when it is there, holds the template the
\* values were written from, even after `latest` has moved on: an update compares
\* with the defaults the user saw.
LoadsWhatItWasWrittenFrom ==
    Written /\ dirs[file.config] # Missing => dirs[file.config] = base

\* "Creates a backup before making changes" (cmd/ctl/compose/update.go): an update
\* empties values.yaml, on any of its paths and at whichever step it does so first,
\* only when what it held at the start is in the automatic backup, or making one
\* failed and was logged.
BackedUpBeforeTruncated ==
    [][file' = Empty /\ file \notin {NoFile, Empty} /\ job.cmd = "update"
          => job.saved \in {job.before, Failed}]_vars
=============================================================================
