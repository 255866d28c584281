-------------------------- MODULE TemplateRegistry ---------------------------
(***************************************************************************)
(* internal/models/registry.go, the include part of config.go and the      *)
(* containers of internal/docker: commands of several processes unpack     *)
(* templates into one folder, load parameters from it with their includes, *)
(* local and remote, and run containers for a moment.  A template is       *)
(* unpacked file by file into <folder>/data and renamed to the tag that    *)
(* was asked for.  Nothing is locked; a command may be killed at any time. *)
(***************************************************************************)
EXTENDS FiniteSets, Naturals, Functions

CONSTANTS Commands,   \* processes
          Versions,   \* of the template
          First,      \* of them
          Latest,     \* the tag that moves
          DataOf,     \* for each version its files under /data
          SbinOf,     \* and under /sbin
          Includes,   \* for each version and file what it includes
          Remote,     \* the includes that name an image and a file in it
          Root,       \* config.yaml
          VersionFile,
          MaxIncludeDepth,
          MaxJobs,    \* commands that are started
          None, Empty

Tags  == Versions \cup {Latest}
Dirs  == Tags \cup {"data", "sbin"}
Nothing == [f \in {} |-> None]
Files == UNION {DataOf[v] \cup SbinOf[v] : v \in Versions}

ASSUME TemplatesAssumption ==
    /\ First \in Versions /\ Latest \notin Versions /\ {"data", "sbin"} \cap Tags = {}
    /\ {None, Empty} \cap Versions = {} /\ Empty \notin {None, "whole"}
    /\ \A v \in Versions : {Root, VersionFile} \subseteq DataOf[v] /\ DataOf[v] \cap (Remote \cup SbinOf[v]) = {}
    /\ \A v \in Versions : Includes[v] \in [DataOf[v] -> SUBSET (Files \cup Remote)]
    /\ {MaxIncludeDepth, MaxJobs} \subseteq Nat

VARIABLES
    published, \* the version that `latest` names in the registry
    images,    \* tag -> version of the local image, or None
    dirs,      \* directory -> file -> the version it is from
    cache,     \* remote include -> None, Empty or "whole"
    op,        \* what each command is doing
    jobs,      \* commands started so far
    orphan,    \* the last container left to itself since a command was started, and
               \* where: [kind, at]
    suspect,   \* history: tags a disturbed or unfinished pull has written
    cut        \* history: a write to the cache was cut short

vars == <<published, images, dirs, cache, op, jobs, orphan, suspect, cut>>

Idle == [kind |-> None, step |-> "idle", tag |-> Latest, from |-> None, left |-> {},
         container |-> FALSE, todo |-> {}, seen |-> {}, got |-> Nothing, file |-> None,
         over |-> FALSE, clean |-> TRUE]

Image(v) == [f \in DataOf[v] |-> v]

Init ==
    /\ published = First
    /\ images = [t \in Tags |-> None]
    /\ dirs = [d \in Dirs |-> Nothing]
    /\ cache = [f \in Remote |-> None]
    /\ op = [c \in Commands |-> Idle]
    /\ jobs = 0 /\ orphan = None /\ suspect = {} /\ cut = FALSE

At(c, kinds, step) == op[c].kind \in kinds /\ op[c].step = step

Unpacking(c) == op[c].kind = "template" /\ op[c].step \notin {"idle", "pull", "create", "start"}

Writing(c) == Unpacking(c) \/ op[c].step = "fill"

\* Files change under the other commands.
Disturb(c, o) ==
    op' = [b \in Commands |-> IF b = c THEN o
                              ELSE IF op[b].step = "idle" THEN op[b]
                              ELSE [op[b] EXCEPT !.clean = FALSE]]

Put(d, f, v) == dirs' = [dirs EXCEPT ![d] = [g \in DOMAIN @ \cup {f} |-> IF g = f THEN v ELSE @[g]]]

\* The registry moves `latest`, once.
Publish ==
    /\ published = First
    /\ published' \in Versions \ {First}
    /\ UNCHANGED <<images, dirs, cache, op, jobs, orphan, suspect, cut>>

-----------------------------------------------------------------------------
(***************************************************************************)
(* Containers: template and include (TryPullConfig), run (RunContainer,    *)
(* for the network interfaces) and pcap (readPcap).                        *)
(***************************************************************************)
\* The images of run and pcap are pulled as RetryBreaker has it.
FirstStep == [template |-> "pull", load |-> "load", run |-> "create", pcap |-> "resolve"]

Start(c, kind, tag) ==
    /\ op[c].step = "idle" /\ jobs < MaxJobs
    /\ jobs' = jobs + 1
    /\ op' = [op EXCEPT ![c] = [Idle EXCEPT
                !.kind = kind, !.step = FirstStep[kind], !.tag = tag,
                !.todo = IF kind = "load" THEN {<<Root, 0, Root>>} ELSE {},
                !.clean = ~\E b \in Commands : Writing(b)]]
    /\ orphan' = None
    /\ UNCHANGED <<published, images, dirs, cache, suspect, cut>>

StartTemplate(c) == \E tag \in Tags : Start(c, "template", tag)
StartLoad(c)     == \E tag \in Tags : Start(c, "load", tag)

\* The choices of an interface, listed by a container.
getInterfacesBusybox(c) == Start(c, "run", Latest)

PcapHandler(c) == Start(c, "pcap", Latest)

\* Only the container is left to be removed.
Ending(kind) == [Idle EXCEPT !.kind = kind, !.step = "remove", !.container = TRUE, !.over = TRUE]

Goto(c, step) == op' = [op EXCEPT ![c].step = step]

\* A stream that breaks off is not noticed: an older image of the tag, if there
\* is one, will do.
PullImage(c) ==
    /\ op[c].step = "pull"
    /\ Goto(c, "create")
    /\ \/ op[c].kind = "template"
          /\ images' = [images EXCEPT ![op[c].tag] = IF op[c].tag = Latest THEN published
                                                     ELSE op[c].tag]
       \/ UNCHANGED images
    /\ UNCHANGED <<published, dirs, cache, jobs, orphan, suspect, cut>>

\* The image of suricata: as docker compose or the compose file has it, or the one
\* that is built in.
ResolveImage(c) ==
    /\ At(c, {"pcap"}, "resolve")
    /\ Goto(c, "create")
    /\ UNCHANGED <<published, images, dirs, cache, jobs, orphan, suspect, cut>>

\* The image is there, and the container is named after it.
Create(c, kind, next, from) ==
    /\ At(c, {kind}, "create")
    /\ op' = [op EXCEPT ![c].step = next, ![c].container = TRUE, ![c].from = from]
    /\ UNCHANGED <<published, images, dirs, cache, jobs, orphan, suspect, cut>>

CreateTemplate(c) ==
    /\ images[op[c].tag] # None
    /\ Create(c, "template", "start", images[op[c].tag])

\* A remote include is read from a container that never starts.
CreateInclude(c) == Create(c, "load", "extract", None)

CreateRun(c)  == Create(c, "run", "start", None)
CreatePcap(c) == Create(c, "pcap", "start", None)

StartContainer(c, kind, next, mine) ==
    /\ At(c, {kind}, "start")
    /\ op' = [op EXCEPT ![c].step = next, ![c].container = mine]
    /\ UNCHANGED <<published, images, dirs, cache, jobs, orphan, suspect, cut>>

StartUnpacker(c) == StartContainer(c, "template", "clear", TRUE)
StartRun(c)      == StartContainer(c, "run", "wait", TRUE)

\* The container of a pcap removes itself when it ends.
StartPcap(c)     == StartContainer(c, "pcap", "stream", FALSE)

WaitAndLogs(c) ==
    /\ op[c].kind = "run" /\ op[c].step \in {"wait", "logs"}
    /\ op' = [op EXCEPT ![c] = IF @.step = "wait" THEN [@ EXCEPT !.step = "logs"] ELSE Ending("run")]
    /\ UNCHANGED <<published, images, dirs, cache, jobs, orphan, suspect, cut>>

\* Mutant: a template's container is removed when all went well.
RemovesWhenFailed(o) == o.kind = "load"

\* The removal is deferred: from the start on for a template, from the creation
\* on for a remote include, and not at all for a run.
RemovesOnFailure(o) == o.kind = "load" \/ (o.kind = "template" /\ o.step # "start")

\* Every call to Docker or to the file system may fail, and ends the command, but
\* for the deferred removal and the cache, whose errors are warnings.
Fail(c) ==
    /\ op[c].step \notin {"idle", "resolve", "load", "store", "fill", "remove"}
    /\ IF op[c].container /\ RemovesOnFailure(op[c])
       THEN /\ op' = [op EXCEPT ![c] = Ending(op[c].kind)]
            /\ UNCHANGED orphan
       ELSE /\ op' = [op EXCEPT ![c] = Idle]
            /\ orphan' = IF op[c].container
                          THEN [kind |-> op[c].kind, at |-> op[c].step]
                          ELSE orphan
    /\ UNCHANGED <<published, images, dirs, cache, jobs, suspect, cut>>

\* The end of the command, or of the pull of one include.
RemoveContainer(c) ==
    /\ op[c].step = "remove"
    /\ op' = [op EXCEPT ![c] = IF @.kind = "load" /\ ~@.over
                               THEN [@ EXCEPT !.step = "store", !.container = FALSE] ELSE Idle]
    /\ \/ UNCHANGED orphan
       \/ orphan' = [kind |-> op[c].kind, at |-> "remove"]
    /\ UNCHANGED <<published, images, dirs, cache, jobs, suspect, cut>>

Kill(c) ==
    /\ op[c].step # "idle"
    /\ op' = [op EXCEPT ![c] = Idle]
    /\ cut' = (cut \/ op[c].step = "fill")
    /\ UNCHANGED <<published, images, dirs, cache, jobs, orphan, suspect>>

-----------------------------------------------------------------------------
(***************************************************************************)
(* PullConfigAndUnwrap, from the files on.                                 *)
(***************************************************************************)
folderOnly == <<published, images, cache, jobs, orphan, cut>>

\* What data/ holds already will be part of the template.
Clear(c) ==
    /\ At(c, {"template"}, "clear")
    /\ dirs' = [dirs EXCEPT ![op[c].tag] = Nothing]
    /\ Disturb(c, [op[c] EXCEPT !.step = "copy",
                                !.left = DataOf[op[c].from] \cup SbinOf[op[c].from],
                                !.clean = @ /\ dirs["data"] = Nothing
                                            /\ ~\E b \in Commands \ {c} : Unpacking(b)])
    /\ UNCHANGED <<folderOnly, suspect>>

\* /data, then /sbin, which stays where it is copied to.
CopyFile(c) ==
    /\ At(c, {"template"}, "copy")
    /\ \E f \in op[c].left :
          /\ LET sbin == f \in SbinOf[op[c].from]
             IN  /\ sbin => op[c].left \subseteq SbinOf[op[c].from]
                 /\ Put(IF sbin THEN "sbin" ELSE "data", f, op[c].from)
          /\ Disturb(c, [op[c] EXCEPT !.left = @ \ {f}])
    /\ UNCHANGED <<folderOnly, suspect>>

\* Mutant: an error of the copy is overlooked.
CopiedAnyhow(o) == o.left # {}

Copied(o) == o.left = {}

\* Refused when data/ is gone or the tag is there again.
Rename(c) ==
    /\ At(c, {"template"}, "copy") /\ Copied(op[c])
    /\ dirs["data"] # Nothing /\ dirs[op[c].tag] = Nothing
    /\ dirs' = [dirs EXCEPT ![op[c].tag] = dirs["data"], !["data"] = Nothing]
    /\ Disturb(c, [op[c] EXCEPT !.step = "version"])
    /\ suspect' = IF op[c].clean THEN suspect \ {op[c].tag} ELSE suspect \cup {op[c].tag}
    /\ UNCHANGED folderOnly

\* A template that was pulled as latest is copied to its version as well.
ReadVersion(c) ==
    /\ At(c, {"template"}, "version")
    /\ LET here == dirs[op[c].tag]
       IN  /\ VersionFile \in DOMAIN here
           /\ IF here[VersionFile] = op[c].tag
              THEN op' = [op EXCEPT ![c] = Ending("template")] /\ UNCHANGED suspect
              ELSE /\ op' = [op EXCEPT ![c].step = "spread", ![c].left = DOMAIN here,
                                       ![c].from = here[VersionFile],
                                       ![c].clean = @ /\ here[VersionFile] \notin suspect]
                   /\ suspect' = suspect \cup {here[VersionFile]}
    /\ UNCHANGED <<folderOnly, dirs>>

SpreadFile(c) ==
    /\ At(c, {"template"}, "spread")
    /\ \E f \in op[c].left :
          /\ f \in DOMAIN dirs[op[c].tag]
          /\ Put(op[c].from, f, dirs[op[c].tag][f])
          /\ Disturb(c, [op[c] EXCEPT !.left = @ \ {f}])
    /\ UNCHANGED <<folderOnly, suspect>>

SpreadDone(c) ==
    /\ At(c, {"template"}, "spread") /\ op[c].left = {}
    /\ op' = [op EXCEPT ![c] = Ending("template")]
    /\ suspect' = IF op[c].clean THEN suspect \ {op[c].from} ELSE suspect
    /\ UNCHANGED <<folderOnly, dirs>>

-----------------------------------------------------------------------------
(***************************************************************************)
(* extractParamsWithTracking on the template in the directory of a tag.    *)
(***************************************************************************)
loadOnly == <<published, images, dirs, jobs, orphan, suspect>>

\* Mutant: what is included is not searched for includes.
VisitShallow(o, e, v, below) ==
    [o EXCEPT !.step = "load", !.seen = @ \cup {e[1]}, !.file = None,
              !.got = [g \in DOMAIN @ \cup {e[1]} |-> IF g = e[1] THEN v ELSE @[g]],
              !.todo = (@ \ {e}) \cup {<<g, e[2] + 1, e[1]>> : g \in IF e[2] = 0 THEN below ELSE {}}]

\* An entry of todo: a file, its depth and the file that includes it.
Visit(o, e, v, below) ==
    IF e[2] > MaxIncludeDepth THEN Idle
    ELSE [o EXCEPT !.step = "load", !.seen = @ \cup {e[1]}, !.file = None,
                   !.got = [g \in DOMAIN @ \cup {e[1]} |-> IF g = e[1] THEN v ELSE @[g]],
                   !.todo = (@ \ {e}) \cup {<<g, e[2] + 1, e[1]>> : g \in below}]

\* A file that is included twice is taken for a circle.
ReadFile(c) ==
    /\ At(c, {"load"}, "load")
    /\ \E e \in op[c].todo :
          /\ e[1] \notin Remote
          /\ LET here == dirs[op[c].tag]
             IN  op' = [op EXCEPT ![c] =
                    IF e[1] \in @.seen \/ e[1] \notin DOMAIN here THEN Idle
                    ELSE Visit(@, e, here[e[1]], Includes[here[e[1]]][e[1]])]
    /\ UNCHANGED <<loadOnly, cache, cut>>

\* The cache is asked first and never grows old.
ReadCache(c) ==
    /\ At(c, {"load"}, "load")
    /\ \E e \in op[c].todo :
          /\ e[1] \in Remote
          /\ op' = [op EXCEPT ![c] =
                IF e[1] \in @.seen THEN Idle
                ELSE IF cache[e[1]] = None THEN [@ EXCEPT !.step = "pull", !.file = e]
                ELSE Visit(@, e, cache[e[1]], {})]
    /\ UNCHANGED <<loadOnly, cache, cut>>

Extract(c) ==
    /\ At(c, {"load"}, "extract")
    /\ Goto(c, "remove")
    /\ UNCHANGED <<loadOnly, cache, cut>>

\* setCachedRemoteInclude creates the file empty and fills it; that either fails is
\* a warning.
Store(c) ==
    /\ At(c, {"load"}, "store")
    /\ \/ /\ cache' = [cache EXCEPT ![op[c].file[1]] = Empty]
          /\ Disturb(c, [op[c] EXCEPT !.step = "fill"])
       \/ /\ op' = [op EXCEPT ![c] = Visit(@, @.file, "whole", {})]
          /\ UNCHANGED cache
    /\ UNCHANGED <<loadOnly, cut>>

Fill(c) ==
    /\ At(c, {"load"}, "fill")
    /\ op' = [op EXCEPT ![c] = Visit(@, @.file, "whole", {})]
    /\ \/ cache' = [cache EXCEPT ![op[c].file[1]] = "whole"] /\ UNCHANGED cut
       \/ cut' = TRUE /\ UNCHANGED cache
    /\ UNCHANGED loadOnly

LoadDone(c) ==
    /\ At(c, {"load"}, "load") /\ op[c].todo = {}
    /\ op' = [op EXCEPT ![c] = Idle]
    /\ UNCHANGED <<loadOnly, cache, cut>>

PcapDone(c) ==
    /\ At(c, {"pcap"}, "stream")
    /\ op' = [op EXCEPT ![c] = Idle]
    /\ UNCHANGED <<loadOnly, cache, cut>>

Step(c) ==
    \/ StartTemplate(c) \/ StartLoad(c) \/ getInterfacesBusybox(c) \/ PcapHandler(c)
    \/ PullImage(c) \/ ResolveImage(c)
    \/ CreateTemplate(c) \/ CreateInclude(c) \/ CreateRun(c) \/ CreatePcap(c)
    \/ StartUnpacker(c) \/ StartRun(c) \/ StartPcap(c) \/ WaitAndLogs(c)
    \/ Fail(c) \/ RemoveContainer(c) \/ Kill(c)
    \/ Clear(c) \/ CopyFile(c) \/ Rename(c)
    \/ ReadVersion(c) \/ SpreadFile(c) \/ SpreadDone(c)
    \/ ReadFile(c) \/ ReadCache(c) \/ Extract(c) \/ Store(c) \/ Fill(c) \/ LoadDone(c)
    \/ PcapDone(c)

Next == Publish \/ \E c \in Commands : Step(c)

Spec == Init /\ [][Next]_vars

-----------------------------------------------------------------------------
(***************************************************************************)
(* Properties.                                                             *)
(***************************************************************************)
\* A template directory holds one version and all its files, no others, and that of
\* a version that version, at every moment, also while another pull removes, renames
\* or fails half way; unless two pulls overlapped, what an earlier one left in data/
\* was taken over, or a copy of latest to its version is not finished.
PulledIsWhole ==
    \A d \in Tags \ suspect :
        dirs[d] # Nothing => \E v \in Versions : d \in {v, Latest} /\ dirs[d] = Image(v)

\* A load that ends well, and during which no file was written, has read all that is
\* included from what it has read, of one version, and no remote include without its
\* content, unless a write to the cache was cut short.
LoadIsWhole ==
    \A c \in Commands :
        LET o == op[c]
            local == DOMAIN o.got \ Remote
        IN  At(c, {"load"}, "load") /\ o.todo = {} /\ o.clean /\ o.tag \notin suspect =>
               /\ \A f \in local : o.got[f] = o.got[Root]
               /\ \A f \in local : Includes[o.got[f]][f] \subseteq DOMAIN o.got
               /\ cut \/ \A f \in DOMAIN o.got \ local : o.got[f] = "whole"

\* No command leaves a container behind but one that failed to start or to be removed,
\* or that was run for its output and failed before that was read.
LeftoversHaveCause ==
    orphan # None =>
        orphan.at \in {"start", "remove"} \/ (orphan.kind = "run" /\ orphan.at \in {"wait", "logs"})
=============================================================================
