----------------------- MODULE TemplateRegistryProofs ------------------------
(***************************************************************************)
(* Theorems about TemplateRegistry, for any processes, versions, files and *)
(* includes, any depth of the includes and any number of commands.         *)
(***************************************************************************)
EXTENDS TemplateRegistry, TLAPS

Kinds == {"template", "load", "run", "pcap"}

StepsOf == [template |-> {"pull", "create", "start", "clear", "copy", "version", "spread", "remove"},
            load     |-> {"load", "pull", "create", "extract", "remove", "store", "fill"},
            run      |-> {"create", "start", "wait", "logs", "remove"},
            pcap     |-> {"resolve", "create", "start", "stream"}]

Steps == {"idle", "pull", "load", "resolve", "create", "start", "clear", "copy", "version", "spread",
          "wait", "logs", "stream", "extract", "remove", "store", "fill"}

\* What is included, and where in the includes.
Parts   == Files \cup Remote
Entries == Parts \X Nat \X Parts

\* The functions of some members of S into V.
Partial(S, V) == UNION {[D -> V] : D \in SUBSET S}

Op == [kind : Kinds \cup {None}, step : Steps, tag : Tags, from : Versions \cup {None},
       left : SUBSET Files, container : BOOLEAN, todo : SUBSET Entries, seen : SUBSET Parts,
       got : Partial(Parts, Versions \cup {Empty, "whole"}), file : Entries \cup {None},
       over : BOOLEAN, clean : BOOLEAN]

\* What a command does fits the step that it is at.
Fits(o) ==
    /\ o.step # "idle" => o.kind \in Kinds /\ o.step \in StepsOf[o.kind]
    /\ o.over => o.step = "remove"
    /\ o.container => \/ o.kind \in {"template", "load"}
                      \/ o.step = "start"
                      \/ o.kind = "run" /\ o.step \in {"wait", "logs", "remove"}
    /\ o.kind = "load" /\ o.step \notin {"idle", "load"} /\ ~o.over =>
          o.file \in o.todo /\ o.file[1] \in Remote
    /\ o.kind = "template" /\ o.step \in {"start", "clear", "copy", "version"} =>
          o.from \in Versions /\ o.tag \in {o.from, Latest}
    /\ o.kind = "template" /\ o.step = "copy" => o.left \subseteq DataOf[o.from] \cup SbinOf[o.from]
    /\ o.kind = "template" /\ o.step = "spread" => o.from \in Versions

\* A file of a version lies among the data of that version, but for the scripts.
DirsInv ==
    /\ dirs \in [Dirs -> Partial(Files, Versions)]
    /\ \A d \in Tags \cup {"data"} : \A f \in DOMAIN dirs[d] : f \in DataOf[dirs[d][f]]

TypeInv ==
    /\ published \in Versions
    /\ images \in [Tags -> Versions \cup {None}]
    /\ \A v \in Versions : images[v] \in {v, None}
    /\ DirsInv
    /\ cache \in [Remote -> {None, Empty, "whole"}]
    /\ op \in [Commands -> Op]
    /\ \A c \in Commands : Fits(op[c])
    /\ jobs \in Nat /\ suspect \subseteq Tags /\ cut \in BOOLEAN

\* A template is being written.
Busy(o) == o.kind = "template" /\ o.step \in {"copy", "version", "spread"}

\* A pull that was alone so far has written what its step says.
Undisturbed(o) ==
    /\ o.step = "copy" => dirs["data"] = [f \in DataOf[o.from] \ o.left |-> o.from]
    /\ o.step = "version" => dirs[o.tag] = Image(o.from)
    /\ o.step = "spread" =>
          /\ o.tag # o.from /\ dirs[o.tag] = Image(o.from)
          /\ \E D \in SUBSET DataOf[o.from] :
                /\ DataOf[o.from] \ o.left \subseteq D
                /\ dirs[o.from] = [f \in D |-> o.from]

\* What is being spread is suspect until that is done.
PullInv ==
    /\ \A c \in Commands : op[c].kind = "template" /\ op[c].step = "spread" => op[c].from \in suspect
    /\ \A c \in Commands : Busy(op[c]) /\ op[c].clean =>
          /\ Undisturbed(op[c])
          /\ \A b \in Commands \ {c} : ~Busy(op[b])
    /\ PulledIsWhole

\* What a load has read or is going to.
Reached(o) == DOMAIN o.got \cup {e[1] : e \in o.todo}

\* A load has read what lies in the directory, as long as nobody writes.
LoadInv(c) ==
    LET o == op[c]
    IN  o.kind = "load" /\ o.step # "idle" /\ ~o.over =>
           /\ Root \in Reached(o)
           /\ o.clean =>
                 /\ \A b \in Commands \ {c} : ~Busy(op[b]) /\ op[b].step # "fill"
                 /\ \A f \in DOMAIN o.got \ Remote :
                       /\ f \in DOMAIN dirs[o.tag] /\ o.got[f] = dirs[o.tag][f]
                       /\ Includes[o.got[f]][f] \subseteq Reached(o)
                 /\ cut \/ \A f \in DOMAIN o.got \cap Remote : o.got[f] = "whole"

\* A file of the cache is empty while it is being filled, or since that was cut short.
CacheInv ==
    cut \/ \A f \in Remote : cache[f] = Empty =>
              \E c \in Commands : op[c].kind = "load" /\ op[c].step = "fill" /\ op[c].file[1] = f

IInv == TypeInv /\ PullInv /\ (\A c \in Commands : LoadInv(c)) /\ CacheInv /\ LeftoversHaveCause

-----------------------------------------------------------------------------
(***************************************************************************)
(* Directories, and what the steps do to the commands.                     *)
(***************************************************************************)
\* What a partial function is.
LEMMA PartialIs ==
    ASSUME NEW S, NEW V, NEW g \in Partial(S, V)
    PROVE  /\ DOMAIN g \subseteq S
           /\ \A x \in DOMAIN g : g[x] \in V
           /\ g = [x \in DOMAIN g |-> g[x]]
BY DEF Partial

\* The empty directory is one.
LEMMA NothingIsPartial ==
    ASSUME NEW S, NEW V
    PROVE  Nothing \in Partial(S, V) /\ DOMAIN Nothing = {}
BY DEF Partial, Nothing

\* One more place, or a new value at a place.
LEMMA PartialPut ==
    ASSUME NEW S, NEW V, NEW g \in Partial(S, V), NEW x \in S, NEW v \in V
    PROVE  [y \in DOMAIN g \cup {x} |-> IF y = x THEN v ELSE g[y]] \in Partial(S, V)
<1> DEFINE D == DOMAIN g \cup {x}
           h == [y \in D |-> IF y = x THEN v ELSE g[y]]
<1>1. D \in SUBSET S /\ \A y \in DOMAIN g : g[y] \in V
  BY PartialIs
<1>2. h \in [D -> V]
  BY <1>1
<1> QED
  BY <1>1, <1>2 DEF Partial

\* A directory that holds one version of some files.
LEMMA OneVersion ==
    ASSUME NEW S, NEW V, NEW g \in Partial(S, V), NEW D, NEW v,
           DOMAIN g = D, \A x \in D : g[x] = v
    PROVE  g = [x \in D |-> v]
<1>1. g = [x \in DOMAIN g |-> g[x]]
  BY PartialIs
<1> QED
  BY <1>1

\* The files of a version are files, its data and scripts are apart.
LEMMA FilesOf ==
    ASSUME NEW v \in Versions
    PROVE  /\ DataOf[v] \subseteq Files /\ SbinOf[v] \subseteq Files
           /\ Root \in DataOf[v] /\ VersionFile \in DataOf[v]
           /\ DataOf[v] \cap SbinOf[v] = {} /\ DataOf[v] \cap Remote = {}
           /\ \A f \in DataOf[v] : Includes[v][f] \subseteq Parts
           /\ v \in Tags /\ v # Latest
BY TemplatesAssumption DEF Files, Tags, Parts

\* Image(v) as a function.
LEMMA ImageIs ==
    ASSUME NEW v \in Versions
    PROVE  /\ DOMAIN Image(v) = DataOf[v]
           /\ \A f \in DataOf[v] : Image(v)[f] = v
           /\ Image(v) # Nothing
<1>1. DOMAIN Image(v) = DataOf[v] /\ \A f \in DataOf[v] : Image(v)[f] = v
  BY DEF Image
<1> QED
  BY <1>1, FilesOf, NothingIsPartial

\* A command that has not been started, and one that has only its container left.
LEMMA IdleFits ==
    /\ Idle \in Op /\ Fits(Idle) /\ Idle.step = "idle" /\ Idle.kind = None
    /\ \A k \in {"template", "load", "run"} :
          /\ Ending(k) \in Op /\ Fits(Ending(k))
          /\ Ending(k).kind = k /\ Ending(k).step = "remove" /\ Ending(k).over
<1>1. Latest \in Tags /\ Nothing \in Partial(Parts, Versions \cup {Empty, "whole"})
  BY NothingIsPartial DEF Tags
<1>2. Idle \in Op
  BY <1>1 DEF Idle, Op, Steps
<1>3. Fits(Idle) /\ Idle.step = "idle" /\ Idle.kind = None
  BY DEF Idle, Fits
<1>4. ASSUME NEW k \in {"template", "load", "run"}
      PROVE  /\ Ending(k) \in Op /\ Fits(Ending(k))
             /\ Ending(k).kind = k /\ Ending(k).step = "remove" /\ Ending(k).over
  <2>1. Ending(k) = [Idle EXCEPT !.kind = k, !.step = "remove", !.container = TRUE, !.over = TRUE]
    BY DEF Ending
  <2>2. /\ Ending(k).kind = k /\ Ending(k).step = "remove" /\ Ending(k).over
        /\ Ending(k) \in Op
    BY <1>2, <1>4, <2>1 DEF Op, Steps, Kinds
  <2>3. Fits(Ending(k))
    BY <1>4, <2>2 DEF Fits, Kinds, StepsOf
  <2> QED
    BY <2>2, <2>3
<1> QED
  BY <1>2, <1>3, <1>4

\* That files change under a command does not matter to where it is.
LEMMA UncleanFits ==
    ASSUME NEW o \in Op, Fits(o)
    PROVE  LET u == [o EXCEPT !.clean = FALSE]
           IN  /\ u \in Op /\ Fits(u) /\ ~u.clean
               /\ u.kind = o.kind /\ u.step = o.step /\ u.from = o.from /\ u.file = o.file
               /\ u.got = o.got /\ u.todo = o.todo /\ u.over = o.over /\ u.tag = o.tag
               /\ u.container = o.container /\ u.left = o.left
<1> DEFINE u == [o EXCEPT !.clean = FALSE]
<1>1. /\ u \in Op /\ ~u.clean
      /\ u.kind = o.kind /\ u.step = o.step /\ u.from = o.from /\ u.file = o.file
      /\ u.got = o.got /\ u.todo = o.todo /\ u.over = o.over /\ u.tag = o.tag
      /\ u.container = o.container /\ u.left = o.left
  BY DEF Op
<1>2. Fits(u)
  BY <1>1 DEF Fits
<1> QED
  BY <1>1, <1>2

\* The other commands stay as they are, or only learn that files have changed.
Others(c) ==
    \A b \in Commands \ {c} :
        \/ op'[b] = op[b]
        \/ op'[b] = [op[b] EXCEPT !.clean = FALSE]

\* The other commands are not idle and unaware of a change.
AllTold(c) == \A b \in Commands \ {c} : op'[b].step = "idle" \/ ~op'[b].clean

\* A step of one command, with or without a change of files.
LEMMA OneMoves ==
    ASSUME TypeInv, NEW c \in Commands, NEW o \in Op, Fits(o),
           op' = [op EXCEPT ![c] = o] \/ Disturb(c, o)
    PROVE  /\ op' \in [Commands -> Op] /\ (\A b \in Commands : Fits(op'[b]))
           /\ op'[c] = o /\ Others(c)
           /\ Disturb(c, o) => AllTold(c)
<1>1. op \in [Commands -> Op] /\ \A b \in Commands : op[b] \in Op /\ Fits(op[b])
  BY DEF TypeInv
<1>2. CASE op' = [op EXCEPT ![c] = o] /\ ~Disturb(c, o)
  BY <1>1, <1>2 DEF Others
<1>3. CASE Disturb(c, o)
  <2>1. op' = [b \in Commands |-> IF b = c THEN o
                                  ELSE IF op[b].step = "idle" THEN op[b]
                                  ELSE [op[b] EXCEPT !.clean = FALSE]]
    BY <1>3 DEF Disturb
  <2>2. op'[c] = o /\ Others(c)
    BY <2>1 DEF Others
  <2>3. ASSUME NEW b \in Commands
        PROVE  op'[b] \in Op /\ Fits(op'[b])
    BY <1>1, <2>1, UncleanFits
  <2>4. AllTold(c)
    <3> SUFFICES ASSUME NEW b \in Commands \ {c}
                 PROVE  op'[b].step = "idle" \/ ~op'[b].clean
      BY DEF AllTold
    <3> QED
      BY <1>1, <2>1, UncleanFits
  <2> QED
    BY <2>1, <2>2, <2>3, <2>4
<1> QED
  BY <1>2, <1>3

\* Reading one include: the end, or what was read is there and what it includes is
\* to be read.
LEMMA VisitFits ==
    ASSUME NEW o \in Op, Fits(o), o.kind = "load", ~o.over, NEW e \in o.todo,
           NEW v \in Versions \cup {Empty, "whole"}, NEW below \in SUBSET Parts
    PROVE  LET r == Visit(o, e, v, below)
           IN  /\ r \in Op /\ Fits(r)
               /\ \/ r = Idle
                  \/ /\ r.kind = "load" /\ r.step = "load" /\ ~r.over
                     /\ r.tag = o.tag /\ r.clean = o.clean
                     /\ r.got = [g \in DOMAIN o.got \cup {e[1]} |-> IF g = e[1] THEN v ELSE o.got[g]]
                     /\ Reached(r) = Reached(o) \cup below
<1> DEFINE n == [g \in DOMAIN o.got \cup {e[1]} |-> IF g = e[1] THEN v ELSE o.got[g]]
           t == (o.todo \ {e}) \cup {<<g, e[2] + 1, e[1]>> : g \in below}
           w == [o EXCEPT !.step = "load", !.seen = @ \cup {e[1]}, !.file = None, !.got = n, !.todo = t]
<1>1. /\ o.todo \in SUBSET Entries /\ o.seen \in SUBSET Parts
      /\ o.got \in Partial(Parts, Versions \cup {Empty, "whole"})
  BY DEF Op
<1>2. e \in Entries /\ e[1] \in Parts /\ e[2] \in Nat
  BY <1>1 DEF Entries
<1>3. n \in Partial(Parts, Versions \cup {Empty, "whole"})
  BY <1>1, <1>2, PartialPut
<1>4. t \in SUBSET Entries
  <2>1. \A g \in below : <<g, e[2] + 1, e[1]>> \in Entries
    BY <1>2 DEF Entries
  <2> QED
    BY <1>1, <2>1
<1>5. /\ w \in Op /\ w.kind = "load" /\ w.step = "load" /\ ~w.over
      /\ w.tag = o.tag /\ w.clean = o.clean /\ w.got = n /\ w.todo = t
      /\ w.container = o.container
  <2> HIDE DEF n, t
  <2>1. o.seen \cup {e[1]} \in SUBSET Parts
    BY <1>1, <1>2
  <2> QED
    BY <1>3, <1>4, <2>1 DEF Op, Steps
<1>6. Fits(w)
  BY <1>5 DEF Fits, Kinds, StepsOf
<1>7. Reached(w) = Reached(o) \cup below
  <2>1. Reached(w) = DOMAIN n \cup {x[1] : x \in t}
    BY <1>5 DEF Reached
  <2>2. {x[1] : x \in t} = {x[1] : x \in o.todo \ {e}} \cup below
    <3> DEFINE a(g) == <<g, e[2] + 1, e[1]>>
               m == {a(g) : g \in below}
    <3>1. \A g \in below : a(g)[1] = g
      OBVIOUS
    <3>2. (\A x \in m : x[1] \in below) /\ \A g \in below : \E x \in m : x[1] = g
      <4> HIDE DEF a
      <4> QED
        BY <3>1
    <3>3. {x[1] : x \in m} = below
      <4> HIDE DEF m
      <4> QED
        BY <3>2
    <3> HIDE DEF m
    <3>4. {x[1] : x \in (o.todo \ {e}) \cup m} = {x[1] : x \in o.todo \ {e}} \cup {x[1] : x \in m}
      OBVIOUS
    <3>5. t = (o.todo \ {e}) \cup m
      BY DEF m
    <3> QED
      BY <3>3, <3>4, <3>5
  <2>3. DOMAIN n = DOMAIN o.got \cup {e[1]}
    OBVIOUS
  <2>4. {x[1] : x \in o.todo} = {x[1] : x \in o.todo \ {e}} \cup {e[1]}
    OBVIOUS
  <2> QED
    BY <2>1, <2>2, <2>3, <2>4 DEF Reached
<1>8. Visit(o, e, v, below) = Idle \/ Visit(o, e, v, below) = w
  BY DEF Visit
<1> QED
  BY <1>5, <1>6, <1>7, <1>8, IdleFits

\* What a step does to the command that takes it.
OneStep(c) ==
    /\ op'[c] \in Op /\ Fits(op'[c])
    /\ op' = [op EXCEPT ![c] = op'[c]] \/ Disturb(c, op'[c])

\* Every change of a command fits.
LEMMA GoesOn ==
    ASSUME TypeInv, NEW c \in Commands, NEW o \in Op, Fits(o),
           op' = [op EXCEPT ![c] = o] \/ Disturb(c, o)
    PROVE  OneStep(c) /\ op'[c] = o
BY OneMoves DEF OneStep

\* A command that is started.
LEMMA StartFits ==
    ASSUME TypeInv, NEW c \in Commands, NEW kind \in Kinds, NEW tag \in Tags, Start(c, kind, tag)
    PROVE  /\ OneStep(c) /\ op' = [op EXCEPT ![c] = op'[c]]
           /\ op'[c].kind = kind /\ op'[c].step = FirstStep[kind] /\ op'[c].tag = tag
           /\ op'[c].got = Nothing /\ ~op'[c].over /\ ~op'[c].container
           /\ op'[c].todo = IF kind = "load" THEN {<<Root, 0, Root>>} ELSE {}
           /\ op'[c].clean = ~\E b \in Commands : Writing(b)
<1> DEFINE t == IF kind = "load" THEN {<<Root, 0, Root>>} ELSE {}
           q == ~\E b \in Commands : Writing(b)
           o == [Idle EXCEPT !.kind = kind, !.step = FirstStep[kind], !.tag = tag,
                             !.todo = t, !.clean = q]
<1>1. op' = [op EXCEPT ![c] = o]
  BY DEF Start
<1>2. t \in SUBSET Entries
  BY TemplatesAssumption, FilesOf DEF Entries, Parts
<1>3. q \in BOOLEAN
  OBVIOUS
<1>4. Idle \in Op /\ Idle.got = Nothing /\ Idle.over = FALSE /\ Idle.container = FALSE
  BY IdleFits DEF Idle
<1>5. FirstStep[kind] \in {"pull", "load", "create", "resolve"} /\ FirstStep[kind] \in StepsOf[kind]
      /\ (kind = "load" => FirstStep[kind] = "load")
  BY DEF Kinds, FirstStep, StepsOf
<1>6. /\ o \in Op /\ o.kind = kind /\ o.step = FirstStep[kind] /\ o.tag = tag /\ o.todo = t /\ o.clean = q
      /\ o.got = Nothing /\ ~o.over /\ ~o.container
  <2> HIDE DEF t, q
  <2> QED
    BY <1>2, <1>3, <1>4, <1>5 DEF Op, Steps
<1>7. Fits(o)
  <2> HIDE DEF o
  <2> QED
    BY <1>5, <1>6 DEF Fits
<1>8. OneStep(c) /\ op'[c] = o
  <2> HIDE DEF o
  <2> QED
    BY <1>1, <1>6, <1>7, GoesOn
<1> QED
  BY <1>1, <1>6, <1>8

-----------------------------------------------------------------------------
(***************************************************************************)
(* Commands that write no file.                                            *)
(***************************************************************************)
\* A load that goes on has what it had.
SameLoad(o, n) ==
    n.kind = "load" /\ n.step # "idle" /\ ~n.over =>
        /\ o.kind = "load" /\ o.step # "idle" /\ ~o.over
        /\ n.tag = o.tag /\ n.got = o.got /\ n.todo = o.todo /\ n.clean = o.clean

\* A command goes on and writes nothing.
Quiet(c) ==
    /\ OneStep(c) /\ op' = [op EXCEPT ![c] = op'[c]]
    /\ ~Busy(op'[c]) /\ op'[c].step # "fill" /\ SameLoad(op[c], op'[c])
    /\ UNCHANGED <<dirs, cache, suspect>>

\* Pulling an image, or looking for it.
LEMMA PullsQuietly ==
    ASSUME TypeInv, NEW c \in Commands, PullImage(c) \/ ResolveImage(c)
    PROVE  Quiet(c) /\ images' \in [Tags -> Versions \cup {None}]
           /\ \A v \in Versions : images'[v] \in {v, None}
<1> DEFINE o == op[c]
           n == [o EXCEPT !.step = "create", !.container = o.container, !.from = o.from]
<1>1. o \in Op /\ Fits(o)
  BY DEF TypeInv
<1>2. /\ n \in Op /\ n.step = "create" /\ n.container = o.container /\ n.from = o.from
      /\ n.kind = o.kind /\ n.tag = o.tag /\ n.left = o.left /\ n.todo = o.todo
      /\ n.got = o.got /\ n.file = o.file /\ n.over = o.over /\ n.clean = o.clean
  <2>1. "create" \in Steps /\ o.container \in BOOLEAN /\ o.from \in Versions \cup {None}
    BY <1>1 DEF Op, Steps
  <2> HIDE DEF o
  <2> QED
    BY <1>1, <2>1 DEF Op
<1>3. op' = [op EXCEPT ![c] = n]
  BY <1>1 DEF PullImage, ResolveImage, Goto, Op
<1>4. o.step \in {"pull", "resolve"} /\ o.kind \in {"template", "load", "pcap"} /\ ~o.over
  BY <1>1 DEF PullImage, ResolveImage, At, Fits, Kinds, StepsOf
<1>5. Fits(n)
  <2> HIDE DEF n, o
  <2> QED
    BY <1>1, <1>2, <1>4 DEF Fits, Kinds, StepsOf
<1>6. ~Busy(n) /\ SameLoad(o, n) /\ n.step # "fill"
  <2> HIDE DEF n, o
  <2> QED
    BY <1>2, <1>4 DEF Busy, SameLoad
<1>7. Quiet(c)
  <2>1. OneStep(c) /\ op'[c] = n
    <3> HIDE DEF n
    <3> QED
      BY <1>2, <1>3, <1>5, GoesOn
  <2> HIDE DEF n
  <2> QED
    BY <1>3, <1>6, <2>1 DEF Quiet, PullImage, ResolveImage
<1>8. /\ images' \in [Tags -> Versions \cup {None}]
      /\ \A v \in Versions : images'[v] \in {v, None}
  <2>1. images \in [Tags -> Versions \cup {None}] /\ published \in Versions
        /\ \A v \in Versions : images[v] \in {v, None}
    BY DEF TypeInv
  <2>2. o.tag \in Versions \cup {Latest} /\ Latest \notin Versions
    BY <1>1, TemplatesAssumption DEF Op, Tags
  <2> QED
    BY <2>1, <2>2 DEF PullImage, ResolveImage, Tags
<1> QED
  BY <1>7, <1>8

\* Creating a container, starting it and reading its output.
LEMMA ContainersQuiet ==
    ASSUME TypeInv, NEW c \in Commands,
           \/ CreateTemplate(c) \/ CreateInclude(c) \/ CreateRun(c) \/ CreatePcap(c)
           \/ StartUnpacker(c) \/ StartRun(c) \/ StartPcap(c)
    PROVE  Quiet(c)
<1> DEFINE o == op[c]
           f == IF o.step = "start" THEN o.from
                ELSE IF o.kind = "template" THEN images[o.tag] ELSE None
           s == IF o.step = "start"
                THEN IF o.kind = "template" THEN "clear" ELSE IF o.kind = "run" THEN "wait" ELSE "stream"
                ELSE IF o.kind = "load" THEN "extract" ELSE "start"
           k == o.step = "create" \/ o.kind # "pcap"
           n == [o EXCEPT !.step = s, !.container = k, !.from = f]
<1>1. o \in Op /\ Fits(o)
  BY DEF TypeInv
<1>2. /\ o.kind \in {"template", "load", "run", "pcap"} /\ o.step \in {"create", "start"} /\ ~o.over
      /\ o.step = "start" => o.kind # "load"
  BY <1>1 DEF CreateTemplate, CreateInclude, CreateRun, CreatePcap, Create, StartUnpacker, StartRun, StartPcap,
              StartContainer, At, Fits
<1>3. /\ f \in Versions \cup {None} /\ s \in Steps /\ k \in BOOLEAN
      /\ o.kind = "template" /\ o.step = "create" => f \in Versions /\ o.tag \in {f, Latest}
  <2>1. images \in [Tags -> Versions \cup {None}] /\ \A v \in Versions : images[v] \in {v, None}
    BY DEF TypeInv
  <2>2. o.tag \in Versions \cup {Latest} /\ o.from \in Versions \cup {None}
    BY <1>1 DEF Op, Tags
  <2>3. o.kind = "template" /\ o.step = "create" => images[o.tag] # None
    BY <1>2 DEF CreateTemplate, CreateInclude, CreateRun, CreatePcap, Create, StartUnpacker, StartRun, StartPcap,
              StartContainer, At
  <2> QED
    BY <1>2, <2>1, <2>2, <2>3 DEF Tags, Steps
<1>4. /\ n \in Op /\ n.step = s /\ n.container = k /\ n.from = f
      /\ n.kind = o.kind /\ n.tag = o.tag /\ n.left = o.left /\ n.todo = o.todo
      /\ n.got = o.got /\ n.file = o.file /\ n.over = o.over /\ n.clean = o.clean
  <2> HIDE DEF o, f, s, k
  <2> QED
    BY <1>1, <1>3 DEF Op
<1>5. op' = [op EXCEPT ![c] = n]
  <2>1. CASE CreateTemplate(c) \/ CreateInclude(c) \/ CreateRun(c) \/ CreatePcap(c)
    <3>1. op' = [op EXCEPT ![c].step = s, ![c].container = TRUE, ![c].from = f] /\ k = TRUE
      BY <2>1 DEF CreateTemplate, CreateInclude, CreateRun, CreatePcap, Create, At
    <3> HIDE DEF s, f, k
    <3> QED
      BY <3>1
  <2>2. CASE StartUnpacker(c) \/ StartRun(c) \/ StartPcap(c)
    <3>1. op' = [op EXCEPT ![c].step = s, ![c].container = k] /\ f = o.from
      BY <2>2 DEF StartUnpacker, StartRun, StartPcap, StartContainer, At
    <3> HIDE DEF s, f, k
    <3>2. [op[c] EXCEPT !.step = s, !.container = k] = n
      BY <1>1, <3>1 DEF Op
    <3>3. op' = [op EXCEPT ![c] = [op[c] EXCEPT !.step = s, !.container = k]]
      BY <3>1
    <3> HIDE DEF o, n
    <3> QED
      BY <3>2, <3>3
  <2> QED
    BY <2>1, <2>2
<1>6. Fits(n)
  <2>1. n.step # "idle" /\ n.step \in StepsOf[o.kind] /\ n.step \notin {"copy", "version", "spread"}
    BY <1>2, <1>4 DEF StepsOf
  <2>2. /\ n.kind = o.kind /\ n.over = o.over /\ n.tag = o.tag /\ n.file = o.file /\ n.todo = o.todo
        /\ n.container => o.kind # "pcap" \/ n.step = "start"
        /\ o.kind = "run" => n.step \in {"start", "wait"}
        /\ o.kind = "template" => n.from \in Versions /\ n.tag \in {n.from, Latest}
    BY <1>1, <1>2, <1>3, <1>4 DEF Fits
  <2> HIDE DEF n, o
  <2> QED
    BY <1>1, <1>2, <2>1, <2>2 DEF Fits, Kinds
<1>7. ~Busy(n) /\ SameLoad(o, n) /\ n.step # "fill"
  <2> HIDE DEF n, o
  <2> QED
    BY <1>2, <1>4 DEF Busy, SameLoad
<1>8. OneStep(c) /\ op'[c] = n
  <2> HIDE DEF n
  <2> QED
    BY <1>4, <1>5, <1>6, GoesOn
<1> HIDE DEF n
<1> QED
  BY <1>5, <1>7, <1>8 DEF Quiet, CreateTemplate, CreateInclude, CreateRun, CreatePcap, Create, StartUnpacker,
                          StartRun, StartPcap, StartContainer

\* What is left when a command ends is not a load that goes on.
LEMMA EndsQuietly ==
    ASSUME TypeInv, NEW c \in Commands, NEW n,
           n = Idle \/ \E k \in {"template", "load", "run"} : n = Ending(k),
           op' = [op EXCEPT ![c] = n]
    PROVE  /\ OneStep(c) /\ op' = [op EXCEPT ![c] = op'[c]] /\ op'[c] = n
           /\ ~Busy(op'[c]) /\ op'[c].step # "fill" /\ SameLoad(op[c], op'[c])
<1>1. n \in Op /\ Fits(n) /\ n.step \in {"idle", "remove"} /\ (n.step = "remove" => n.over)
  BY IdleFits
<1>2. OneStep(c) /\ op'[c] = n
  BY <1>1, GoesOn
<1>3. ~Busy(n) /\ n.step # "fill" /\ SameLoad(op[c], n)
  BY <1>1 DEF Busy, SameLoad
<1> QED
  BY <1>2, <1>3

\* The end of a command, of any kind.
LEMMA EndsQuiet ==
    ASSUME TypeInv, NEW c \in Commands, Fail(c) \/ Kill(c) \/ LoadDone(c) \/ PcapDone(c)
    PROVE  /\ Quiet(c)
           /\ op'[c] = Idle \/ op'[c] = Ending(op[c].kind)
<1>1. op[c] \in Op /\ Fits(op[c])
  BY DEF TypeInv
<1>2. /\ UNCHANGED <<dirs, cache, suspect>>
      /\ \/ op' = [op EXCEPT ![c] = Idle]
         \/ /\ op' = [op EXCEPT ![c] = Ending(op[c].kind)]
            /\ op[c].kind \in {"template", "load", "run"}
  <2>1. CASE Fail(c)
    BY <2>1 DEF Fail, RemovesOnFailure
  <2>2. CASE Kill(c)
    BY <2>2 DEF Kill
  <2>3. CASE LoadDone(c) \/ PcapDone(c)
    BY <2>3 DEF LoadDone, PcapDone, loadOnly
  <2> QED
    BY <2>1, <2>2, <2>3
<1>3. CASE op' = [op EXCEPT ![c] = Idle]
  <2>1. /\ OneStep(c) /\ op' = [op EXCEPT ![c] = op'[c]] /\ op'[c] = Idle
        /\ ~Busy(op'[c]) /\ op'[c].step # "fill" /\ SameLoad(op[c], op'[c])
    BY <1>3, EndsQuietly
  <2> QED
    BY <1>2, <2>1 DEF Quiet
<1>4. CASE op' = [op EXCEPT ![c] = Ending(op[c].kind)] /\ op[c].kind \in {"template", "load", "run"}
  <2>1. /\ OneStep(c) /\ op' = [op EXCEPT ![c] = op'[c]] /\ op'[c] = Ending(op[c].kind)
        /\ ~Busy(op'[c]) /\ op'[c].step # "fill" /\ SameLoad(op[c], op'[c])
    BY <1>4, EndsQuietly
  <2> QED
    BY <1>2, <2>1 DEF Quiet
<1> QED
  BY <1>2, <1>3, <1>4

\* The output of a container, the files of a remote include and the removal.
LEMMA OutputQuiet ==
    ASSUME TypeInv, NEW c \in Commands, WaitAndLogs(c) \/ Extract(c) \/ RemoveContainer(c)
    PROVE  Quiet(c)
<1> DEFINE o == op[c]
           s == IF o.step = "wait" THEN "logs" ELSE IF o.step = "extract" THEN "remove" ELSE "store"
           k == IF s = "store" THEN FALSE ELSE o.container
           n == [o EXCEPT !.step = s, !.container = k]
<1>1. o \in Op /\ Fits(o)
  BY DEF TypeInv
<1>2. UNCHANGED <<dirs, cache, suspect>>
  BY DEF WaitAndLogs, Extract, RemoveContainer, loadOnly
<1>3. \/ op' = [op EXCEPT ![c] = Idle] \/ op' = [op EXCEPT ![c] = Ending("run")]
      \/ /\ op' = [op EXCEPT ![c] = n] /\ ~o.over
         /\ \/ o.kind = "run" /\ s = "logs"
            \/ o.kind = "load" /\ o.step = "extract" /\ s = "remove"
            \/ o.kind = "load" /\ o.step = "remove" /\ s = "store"
  <2>1. CASE WaitAndLogs(c)
    <3>1. CASE o.step = "wait"
      <4>1. op' = [op EXCEPT ![c] = [op[c] EXCEPT !.step = "logs"]] /\ o.kind = "run" /\ ~o.over
        BY <1>1, <2>1, <3>1 DEF WaitAndLogs, Fits
      <4>2. s = "logs" /\ [op[c] EXCEPT !.step = "logs"] = n
        BY <1>1, <3>1 DEF Op
      <4> QED
        BY <4>1, <4>2
    <3>2. CASE o.step # "wait"
      BY <2>1, <3>2 DEF WaitAndLogs
    <3> QED
      BY <3>1, <3>2
  <2>2. CASE Extract(c)
    <3>1. op' = [op EXCEPT ![c] = [op[c] EXCEPT !.step = "remove"]] /\ o.kind = "load" /\ ~o.over /\ o.step = "extract"
      BY <1>1, <2>2 DEF Extract, Goto, At, Fits
    <3>2. s = "remove" /\ [op[c] EXCEPT !.step = "remove"] = n
      BY <1>1, <3>1 DEF Op
    <3> QED
      BY <3>1, <3>2
  <2>3. CASE RemoveContainer(c)
    <3>1. CASE o.kind = "load" /\ ~o.over
      <4>1. op' = [op EXCEPT ![c] = [op[c] EXCEPT !.step = "store", !.container = FALSE]] /\ o.step = "remove"
        BY <2>3, <3>1 DEF RemoveContainer
      <4>2. s = "store" /\ k = FALSE
        BY <4>1
      <4> HIDE DEF s, k
      <4> QED
        BY <3>1, <4>1, <4>2
    <3>2. CASE ~(o.kind = "load" /\ ~o.over)
      BY <2>3, <3>2 DEF RemoveContainer
    <3> QED
      BY <3>1, <3>2
  <2> QED
    BY <2>1, <2>2, <2>3
<1>4. CASE op' = [op EXCEPT ![c] = Idle] \/ op' = [op EXCEPT ![c] = Ending("run")]
  <2>1. \E m : /\ m = Idle \/ \E x \in {"template", "load", "run"} : m = Ending(x)
               /\ op' = [op EXCEPT ![c] = m]
    BY <1>4
  <2>2. PICK m : /\ m = Idle \/ \E x \in {"template", "load", "run"} : m = Ending(x)
                 /\ op' = [op EXCEPT ![c] = m]
    BY <2>1
  <2>3. /\ OneStep(c) /\ op' = [op EXCEPT ![c] = op'[c]] /\ op'[c] = m
        /\ ~Busy(op'[c]) /\ op'[c].step # "fill" /\ SameLoad(op[c], op'[c])
    BY <2>2, EndsQuietly
  <2> QED
    BY <1>2, <2>3 DEF Quiet
<1>5. CASE /\ op' = [op EXCEPT ![c] = n] /\ ~o.over
           /\ \/ o.kind = "run" /\ s = "logs"
              \/ o.kind = "load" /\ o.step = "extract" /\ s = "remove"
              \/ o.kind = "load" /\ o.step = "remove" /\ s = "store"
  <2>1. /\ n \in Op /\ n.step = s /\ n.container = k
        /\ n.kind = o.kind /\ n.tag = o.tag /\ n.todo = o.todo
        /\ n.got = o.got /\ n.file = o.file /\ n.over = o.over /\ n.clean = o.clean
    <3>1. s \in Steps /\ k \in BOOLEAN
      BY <1>1 DEF Op, Steps
    <3> HIDE DEF o, s, k
    <3> QED
      BY <1>1, <3>1 DEF Op
  <2>2. Fits(n) /\ ~Busy(n) /\ SameLoad(o, n) /\ n.step # "fill"
    <3> HIDE DEF n, o, s, k
    <3> QED
      BY <1>1, <1>5, <2>1 DEF Fits, Kinds, StepsOf, Busy, SameLoad
  <2>3. OneStep(c) /\ op'[c] = n
    <3> HIDE DEF n
    <3> QED
      BY <1>5, <2>1, <2>2, GoesOn
  <2> HIDE DEF n
  <2> QED
    BY <1>2, <1>5, <2>2, <2>3 DEF Quiet
<1> QED
  BY <1>3, <1>4, <1>5

-----------------------------------------------------------------------------
(***************************************************************************)
(* A template is written.                                                  *)
(***************************************************************************)
\* A file is put into a directory.
LEMMA PutFits ==
    ASSUME DirsInv, NEW d \in Dirs, NEW f \in Files, NEW v \in Versions, Put(d, f, v),
           d # "sbin" => f \in DataOf[v]
    PROVE  /\ DirsInv'
           /\ dirs' = [dirs EXCEPT ![d] = dirs'[d]]
           /\ dirs'[d] = [g \in DOMAIN dirs[d] \cup {f} |-> IF g = f THEN v ELSE dirs[d][g]]
<1> DEFINE p == [g \in DOMAIN dirs[d] \cup {f} |-> IF g = f THEN v ELSE dirs[d][g]]
<1>1. dirs' = [dirs EXCEPT ![d] = p]
  BY DEF Put
<1>2. p \in Partial(Files, Versions)
  BY PartialPut DEF DirsInv
<1>3. dirs' \in [Dirs -> Partial(Files, Versions)] /\ dirs'[d] = p
  BY <1>1, <1>2 DEF DirsInv
<1>4. ASSUME NEW e \in Tags \cup {"data"}, NEW g \in DOMAIN dirs'[e]
      PROVE  g \in DataOf[dirs'[e][g]]
  <2>1. e \in Dirs /\ e # "sbin"
    BY <1>4, TemplatesAssumption DEF Dirs
  <2>2. CASE e # d
    BY <1>1, <1>4, <2>1, <2>2 DEF DirsInv
  <2>3. CASE e = d
    <3>1. g \in DOMAIN dirs[d] \cup {f} /\ p[g] = IF g = f THEN v ELSE dirs[d][g]
      BY <1>3, <1>4, <2>3
    <3> HIDE DEF p
    <3> QED
      BY <1>3, <1>4, <2>1, <2>3, <3>1 DEF DirsInv
  <2> QED
    BY <2>2, <2>3
<1> HIDE DEF p
<1>5. DirsInv'
  BY <1>3, <1>4 DEF DirsInv
<1> QED
  BY <1>1, <1>3, <1>5 DEF p

\* The directory is removed before anything is unpacked.
LEMMA ClearDoes ==
    ASSUME TypeInv, NEW c \in Commands, Clear(c)
    PROVE  LET o == op[c]
               n == op'[c]
           IN  /\ OneStep(c) /\ Disturb(c, n) /\ DirsInv'
               /\ o.kind = "template" /\ o.step = "clear"
               /\ n.kind = "template" /\ n.step = "copy" /\ n.tag = o.tag /\ n.from = o.from
               /\ n.left = DataOf[n.from] \cup SbinOf[n.from]
               /\ n.clean => dirs["data"] = Nothing /\ ~\E b \in Commands \ {c} : Unpacking(b)
               /\ n.tag \in Tags /\ n.from \in Versions
               /\ dirs' = [dirs EXCEPT ![n.tag] = Nothing]
<1> DEFINE o == op[c]
           l == DataOf[o.from] \cup SbinOf[o.from]
           q == o.clean /\ dirs["data"] = Nothing /\ ~\E b \in Commands \ {c} : Unpacking(b)
           n == [o EXCEPT !.step = "copy", !.left = l, !.clean = q]
<1>1. o \in Op /\ Fits(o) /\ o.kind = "template" /\ o.step = "clear" /\ o.clean \in BOOLEAN
  BY DEF TypeInv, Clear, At, Op
<1>2. Disturb(c, n) /\ dirs' = [dirs EXCEPT ![o.tag] = Nothing]
  BY DEF Clear
<1>3. o.from \in Versions /\ o.tag \in {o.from, Latest} /\ o.tag \in Tags /\ ~o.over
  BY <1>1 DEF Fits, Op
<1>4. l \in SUBSET Files /\ q \in BOOLEAN
  BY <1>3, FilesOf
<1>5. /\ n \in Op /\ n.kind = "template" /\ n.step = "copy" /\ n.tag = o.tag /\ n.from = o.from
      /\ n.left = l /\ n.clean = q /\ n.over = o.over /\ n.container = o.container
  <2> HIDE DEF o, l, q
  <2> QED
    BY <1>1, <1>4 DEF Op, Steps
<1>6. Fits(n)
  <2> HIDE DEF n, o, q
  <2> QED
    BY <1>1, <1>3, <1>5 DEF Fits, Kinds, StepsOf
<1>7. OneStep(c) /\ op'[c] = n
  <2> HIDE DEF n
  <2> QED
    BY <1>2, <1>5, <1>6, GoesOn
<1>8. DirsInv'
  <2>1. Nothing \in Partial(Files, Versions) /\ DOMAIN Nothing = {}
    BY NothingIsPartial
  <2>2. dirs \in [Dirs -> Partial(Files, Versions)] /\ o.tag \in Dirs
    BY <1>3 DEF TypeInv, DirsInv, Dirs
  <2>3. dirs' \in [Dirs -> Partial(Files, Versions)] /\ dirs'[o.tag] = Nothing
    BY <1>2, <2>1, <2>2
  <2>4. ASSUME NEW e \in Tags \cup {"data"}, NEW g \in DOMAIN dirs'[e]
        PROVE  g \in DataOf[dirs'[e][g]]
    <3>1. e # o.tag
      BY <2>1, <2>3, <2>4
    <3>2. dirs'[e] = dirs[e]
      BY <1>2, <2>2, <2>4, <3>1 DEF Dirs
    <3> QED
      BY <2>4, <3>2 DEF TypeInv, DirsInv
  <2> QED
    BY <2>3, <2>4 DEF DirsInv
<1> HIDE DEF n
<1>9. Disturb(c, op'[c])
  BY <1>2, <1>7
<1> QED
  BY <1>1, <1>2, <1>3, <1>5, <1>7, <1>8, <1>9

\* A file is copied to data/ or to sbin/.
LEMMA CopyDoes ==
    ASSUME TypeInv, NEW c \in Commands, CopyFile(c)
    PROVE  LET o == op[c]
               n == op'[c]
           IN  /\ OneStep(c) /\ Disturb(c, n) /\ DirsInv'
               /\ o.kind = "template" /\ o.step = "copy"
               /\ n.kind = "template" /\ n.step = "copy" /\ n.tag = o.tag /\ n.from = o.from
               /\ n.clean = o.clean /\ n.from \in Versions /\ n.tag \in Tags
               /\ o.left \subseteq DataOf[n.from] \cup SbinOf[n.from]
               /\ \A t \in Tags : dirs'[t] = dirs[t]
               /\ \E f \in o.left :
                     /\ n.left = o.left \ {f}
                     /\ IF f \in SbinOf[n.from]
                        THEN dirs'["data"] = dirs["data"]
                        ELSE dirs'["data"] = [g \in DOMAIN dirs["data"] \cup {f} |->
                                                  IF g = f THEN n.from ELSE dirs["data"][g]]
<1> DEFINE o == op[c]
<1>1. o \in Op /\ Fits(o) /\ o.kind = "template" /\ o.step = "copy" /\ o.clean \in BOOLEAN
  BY DEF TypeInv, CopyFile, At, Op
<1>2. /\ o.from \in Versions /\ o.tag \in {o.from, Latest} /\ o.tag \in Tags /\ ~o.over
      /\ o.left \subseteq DataOf[o.from] \cup SbinOf[o.from]
  BY <1>1 DEF Fits, Op
<1>3. PICK f \in o.left :
         /\ Put(IF f \in SbinOf[o.from] THEN "sbin" ELSE "data", f, o.from)
         /\ Disturb(c, [o EXCEPT !.left = o.left \ {f}])
  BY DEF CopyFile
<1> DEFINE n == [o EXCEPT !.left = o.left \ {f}]
           d == IF f \in SbinOf[o.from] THEN "sbin" ELSE "data"
<1>4. /\ n \in Op /\ n.kind = "template" /\ n.step = "copy" /\ n.tag = o.tag /\ n.from = o.from
      /\ n.left = o.left \ {f} /\ n.clean = o.clean /\ n.over = o.over /\ n.container = o.container
  <2> HIDE DEF o
  <2> QED
    BY <1>1 DEF Op
<1>5. Fits(n)
  <2> HIDE DEF n, o
  <2> QED
    BY <1>1, <1>2, <1>4 DEF Fits, Kinds, StepsOf
<1>6. OneStep(c) /\ op'[c] = n
  <2> HIDE DEF n
  <2> QED
    BY <1>3, <1>4, <1>5, GoesOn DEF n
<1>7. f \in Files /\ d \in Dirs /\ (d # "sbin" => f \in DataOf[o.from]) /\ d \notin Tags
  BY <1>2, <1>3, FilesOf, TemplatesAssumption DEF Dirs
<1>8. /\ DirsInv' /\ dirs' = [dirs EXCEPT ![d] = dirs'[d]]
      /\ dirs'[d] = [g \in DOMAIN dirs[d] \cup {f} |-> IF g = f THEN o.from ELSE dirs[d][g]]
  <2>1. DirsInv /\ Put(d, f, o.from)
    BY <1>3 DEF TypeInv
  <2> HIDE DEF d, o
  <2> QED
    BY <1>2, <1>7, <2>1, PutFits
<1>9. \A t \in Tags : dirs'[t] = dirs[t]
  <2>1. DOMAIN dirs = Dirs
    BY DEF TypeInv, DirsInv
  <2> HIDE DEF d
  <2> QED
    BY <1>7, <1>8, <2>1 DEF Dirs
<1>10. IF f \in SbinOf[o.from]
       THEN dirs'["data"] = dirs["data"]
       ELSE dirs'["data"] = [g \in DOMAIN dirs["data"] \cup {f} |->
                                 IF g = f THEN o.from ELSE dirs["data"][g]]
  <2>1. DOMAIN dirs = Dirs /\ "data" \in Dirs /\ "data" # "sbin"
    BY DEF TypeInv, DirsInv, Dirs
  <2>2. CASE f \in SbinOf[o.from]
    BY <1>8, <2>1, <2>2
  <2>3. CASE f \notin SbinOf[o.from]
    BY <1>8, <2>3
  <2> QED
    BY <2>2, <2>3
<1>11. Disturb(c, op'[c])
  BY <1>3, <1>6
<1> HIDE DEF n, d
<1> QED
  BY <1>1, <1>2, <1>3, <1>4, <1>6, <1>8, <1>9, <1>10, <1>11

\* What lies in data/ becomes the template.
LEMMA RenameDoes ==
    ASSUME TypeInv, NEW c \in Commands, Rename(c)
    PROVE  LET o == op[c]
               n == op'[c]
           IN  /\ OneStep(c) /\ Disturb(c, n) /\ DirsInv'
               /\ o.kind = "template" /\ o.step = "copy" /\ o.left = {}
               /\ n.kind = "template" /\ n.step = "version" /\ n.tag = o.tag /\ n.from = o.from
               /\ n.clean = o.clean /\ n.from \in Versions /\ n.tag \in {n.from, Latest}
               /\ n.tag \in Tags
               /\ dirs'[n.tag] = dirs["data"]
               /\ \A t \in Tags \ {n.tag} : dirs'[t] = dirs[t]
               /\ suspect' = IF n.clean THEN suspect \ {n.tag} ELSE suspect \cup {n.tag}
<1> DEFINE o == op[c]
           n == [o EXCEPT !.step = "version"]
<1>1. o \in Op /\ Fits(o) /\ o.kind = "template" /\ o.step = "copy" /\ o.clean \in BOOLEAN /\ o.left = {}
  BY DEF TypeInv, Rename, Copied, At, Op
<1>2. /\ o.from \in Versions /\ o.tag \in {o.from, Latest} /\ o.tag \in Tags /\ ~o.over
  BY <1>1 DEF Fits, Op
<1>3. /\ Disturb(c, n) /\ dirs' = [dirs EXCEPT ![o.tag] = dirs["data"], !["data"] = Nothing]
      /\ suspect' = IF o.clean THEN suspect \ {o.tag} ELSE suspect \cup {o.tag}
  BY DEF Rename
<1>4. /\ n \in Op /\ n.kind = "template" /\ n.step = "version" /\ n.tag = o.tag /\ n.from = o.from
      /\ n.clean = o.clean /\ n.over = o.over /\ n.container = o.container
  <2> HIDE DEF o
  <2> QED
    BY <1>1 DEF Op, Steps
<1>5. Fits(n)
  <2> HIDE DEF n, o
  <2> QED
    BY <1>1, <1>2, <1>4 DEF Fits, Kinds, StepsOf
<1>6. OneStep(c) /\ op'[c] = n
  <2> HIDE DEF n
  <2> QED
    BY <1>3, <1>4, <1>5, GoesOn
<1>7. /\ dirs \in [Dirs -> Partial(Files, Versions)] /\ "data" \in Dirs /\ "data" \notin Tags
      /\ o.tag \in Dirs /\ Nothing \in Partial(Files, Versions) /\ DOMAIN Nothing = {}
  BY <1>2, TemplatesAssumption, NothingIsPartial DEF TypeInv, DirsInv, Dirs
<1>8. /\ dirs' \in [Dirs -> Partial(Files, Versions)] /\ dirs'[o.tag] = dirs["data"] /\ dirs'["data"] = Nothing
      /\ \A t \in Tags \ {o.tag} : dirs'[t] = dirs[t]
  BY <1>2, <1>3, <1>7 DEF Dirs
<1>9. DirsInv'
  BY <1>2, <1>7, <1>8 DEF TypeInv, DirsInv
<1> HIDE DEF n
<1>10. Disturb(c, op'[c])
  BY <1>3, <1>6
<1> QED
  BY <1>1, <1>2, <1>3, <1>4, <1>6, <1>8, <1>9, <1>10

\* The version of the template is read: the end, or it is copied there.
LEMMA VersionDoes ==
    ASSUME TypeInv, NEW c \in Commands, ReadVersion(c)
    PROVE  LET o == op[c]
               n == op'[c]
           IN  /\ OneStep(c) /\ op' = [op EXCEPT ![c] = n] /\ dirs' = dirs
               /\ o.kind = "template" /\ o.step = "version"
               /\ \/ n = Ending("template") /\ suspect' = suspect
                  \/ /\ n.kind = "template" /\ n.step = "spread" /\ n.tag = o.tag
                     /\ VersionFile \in DOMAIN dirs[n.tag] /\ n.from = dirs[n.tag][VersionFile]
                     /\ n.left = DOMAIN dirs[n.tag] /\ n.from # n.tag
                     /\ n.clean => o.clean /\ n.from \notin suspect
                     /\ n.from \in Versions /\ n.tag \in Tags
                     /\ suspect' = suspect \cup {n.from}
<1> DEFINE o == op[c]
           here == dirs[o.tag]
           q == o.clean /\ here[VersionFile] \notin suspect
           n == [o EXCEPT !.step = "spread", !.left = DOMAIN here, !.from = here[VersionFile], !.clean = q]
<1>1. o \in Op /\ Fits(o) /\ o.kind = "template" /\ o.step = "version" /\ o.clean \in BOOLEAN
  BY DEF TypeInv, ReadVersion, At, Op
<1>2. /\ o.from \in Versions /\ o.tag \in {o.from, Latest} /\ o.tag \in Tags /\ ~o.over
  BY <1>1 DEF Fits, Op
<1>3. VersionFile \in DOMAIN here /\ dirs' = dirs
  BY DEF ReadVersion
<1>4. here[VersionFile] \in Versions /\ DOMAIN here \subseteq Files
  <2>1. here \in Partial(Files, Versions)
    BY <1>2 DEF TypeInv, DirsInv, Dirs
  <2> HIDE DEF here
  <2> QED
    BY <1>3, <2>1, PartialIs
<1>5. CASE here[VersionFile] = o.tag
  <2>1. op' = [op EXCEPT ![c] = Ending("template")] /\ suspect' = suspect
    BY <1>5 DEF ReadVersion
  <2>2. OneStep(c) /\ op' = [op EXCEPT ![c] = op'[c]] /\ op'[c] = Ending("template")
    BY <2>1, EndsQuietly
  <2> QED
    BY <1>1, <1>3, <2>1, <2>2
<1>6. CASE here[VersionFile] # o.tag
  <2>1. op' = [op EXCEPT ![c] = n] /\ suspect' = suspect \cup {here[VersionFile]}
    <3>1. op' = [op EXCEPT ![c].step = "spread", ![c].left = DOMAIN here, ![c].from = here[VersionFile],
                           ![c].clean = q] /\ suspect' = suspect \cup {here[VersionFile]}
      BY <1>6 DEF ReadVersion
    <3> HIDE DEF here, q
    <3> QED
      BY <3>1
  <2>2. /\ n \in Op /\ n.kind = "template" /\ n.step = "spread" /\ n.tag = o.tag /\ n.from = here[VersionFile]
        /\ n.left = DOMAIN here /\ n.clean = q /\ n.over = o.over /\ n.container = o.container
    <3> HIDE DEF o, here
    <3> QED
      BY <1>1, <1>4 DEF Op, Steps
  <2>3. Fits(n)
    <3> HIDE DEF n, o, here
    <3> QED
      BY <1>1, <1>2, <1>4, <2>2 DEF Fits, Kinds, StepsOf
  <2>4. OneStep(c) /\ op'[c] = n
    <3> HIDE DEF n
    <3> QED
      BY <2>1, <2>2, <2>3, GoesOn
  <2> HIDE DEF n
  <2> QED
    BY <1>1, <1>2, <1>3, <1>4, <1>6, <2>1, <2>2, <2>4
<1> QED
  BY <1>5, <1>6

\* A file is copied from the directory of latest to that of the version.
LEMMA SpreadDoes ==
    ASSUME TypeInv, NEW c \in Commands, SpreadFile(c)
    PROVE  LET o == op[c]
               n == op'[c]
           IN  /\ OneStep(c) /\ Disturb(c, n) /\ DirsInv'
               /\ o.kind = "template" /\ o.step = "spread"
               /\ n.kind = "template" /\ n.step = "spread" /\ n.tag = o.tag /\ n.from = o.from
               /\ n.clean = o.clean /\ n.from \in Versions /\ n.tag \in Tags
               /\ \E f \in o.left :
                     /\ f \in DOMAIN dirs[n.tag] /\ n.left = o.left \ {f}
                     /\ dirs' = [dirs EXCEPT ![n.from] = dirs'[n.from]]
                     /\ dirs'[n.from] = [g \in DOMAIN dirs[n.from] \cup {f} |->
                                             IF g = f THEN dirs[n.tag][f] ELSE dirs[n.from][g]]
<1> DEFINE o == op[c]
<1>1. o \in Op /\ Fits(o) /\ o.kind = "template" /\ o.step = "spread" /\ o.clean \in BOOLEAN
  BY DEF TypeInv, SpreadFile, At, Op
<1>2. o.from \in Versions /\ o.tag \in Tags /\ ~o.over
  BY <1>1 DEF Fits, Op
<1>3. PICK f \in o.left :
         /\ f \in DOMAIN dirs[o.tag]
         /\ Put(o.from, f, dirs[o.tag][f])
         /\ Disturb(c, [o EXCEPT !.left = o.left \ {f}])
  BY DEF SpreadFile
<1> DEFINE n == [o EXCEPT !.left = o.left \ {f}]
<1>4. /\ n \in Op /\ n.kind = "template" /\ n.step = "spread" /\ n.tag = o.tag /\ n.from = o.from
      /\ n.left = o.left \ {f} /\ n.clean = o.clean /\ n.over = o.over /\ n.container = o.container
  <2> HIDE DEF o
  <2> QED
    BY <1>1 DEF Op
<1>5. Fits(n)
  <2> HIDE DEF n, o
  <2> QED
    BY <1>1, <1>2, <1>4 DEF Fits, Kinds, StepsOf
<1>6. OneStep(c) /\ op'[c] = n
  <2> HIDE DEF n
  <2> QED
    BY <1>3, <1>4, <1>5, GoesOn DEF n
<1>7. /\ f \in Files /\ dirs[o.tag][f] \in Versions /\ f \in DataOf[dirs[o.tag][f]] /\ o.from \in Dirs
  <2>1. dirs[o.tag] \in Partial(Files, Versions) /\ \A g \in DOMAIN dirs[o.tag] : g \in DataOf[dirs[o.tag][g]]
    BY <1>2 DEF TypeInv, DirsInv, Dirs
  <2> QED
    BY <1>2, <1>3, <2>1, PartialIs DEF Dirs, Tags
<1>8. /\ DirsInv' /\ dirs' = [dirs EXCEPT ![o.from] = dirs'[o.from]]
      /\ dirs'[o.from] = [g \in DOMAIN dirs[o.from] \cup {f} |->
                               IF g = f THEN dirs[o.tag][f] ELSE dirs[o.from][g]]
  <2>1. DirsInv /\ Put(o.from, f, dirs[o.tag][f])
    BY <1>3 DEF TypeInv
  <2> HIDE DEF o
  <2> QED
    BY <1>7, <2>1, PutFits
<1>9. Disturb(c, op'[c])
  BY <1>3, <1>6
<1> HIDE DEF n
<1> QED
  BY <1>1, <1>2, <1>3, <1>4, <1>6, <1>8, <1>9

\* The copy is finished.
LEMMA SpreadEnds ==
    ASSUME TypeInv, NEW c \in Commands, SpreadDone(c)
    PROVE  /\ OneStep(c) /\ op' = [op EXCEPT ![c] = op'[c]] /\ dirs' = dirs
           /\ op[c].kind = "template" /\ op[c].step = "spread" /\ op[c].left = {}
           /\ op'[c] = Ending("template")
           /\ suspect' = IF op[c].clean THEN suspect \ {op[c].from} ELSE suspect
BY EndsQuietly DEF SpreadDone, At

-----------------------------------------------------------------------------
(***************************************************************************)
(* A template is loaded.                                                   *)
(***************************************************************************)
\* What was included is there, and what that includes is to be read.
Reads(o, n, f, v, below) ==
    \/ n = Idle
    \/ /\ n.kind = "load" /\ n.step = "load" /\ ~n.over
       /\ n.tag = o.tag /\ n.clean = o.clean
       /\ n.got = [g \in DOMAIN o.got \cup {f} |-> IF g = f THEN v ELSE o.got[g]]
       /\ Reached(n) = Reached(o) \cup below

\* A file of the template, with what it includes.
LEMMA ReadDoes ==
    ASSUME TypeInv, NEW c \in Commands, ReadFile(c)
    PROVE  LET o == op[c]
               n == op'[c]
           IN  /\ OneStep(c) /\ op' = [op EXCEPT ![c] = n]
               /\ UNCHANGED <<dirs, cache, suspect, cut>>
               /\ o.kind = "load" /\ o.step = "load" /\ ~o.over
               /\ \/ n = Idle
                  \/ \E f \in DOMAIN dirs[o.tag] \ Remote :
                        /\ f \in Reached(o)
                        /\ Reads(o, n, f, dirs[o.tag][f], Includes[dirs[o.tag][f]][f])
<1> DEFINE o == op[c]
           here == dirs[o.tag]
<1>1. o \in Op /\ Fits(o) /\ o.kind = "load" /\ o.step = "load" /\ ~o.over /\ o.tag \in Tags
  BY DEF TypeInv, ReadFile, At, Op, Fits
<1>2. UNCHANGED <<dirs, cache, suspect, cut>>
  BY DEF ReadFile, loadOnly
<1>3. PICK e \in o.todo :
         /\ e[1] \notin Remote
         /\ \/ op' = [op EXCEPT ![c] = Idle]
            \/ /\ e[1] \in DOMAIN here
               /\ op' = [op EXCEPT ![c] = Visit(o, e, here[e[1]], Includes[here[e[1]]][e[1]])]
  BY DEF ReadFile
<1>4. CASE op' = [op EXCEPT ![c] = Idle]
  <2>1. OneStep(c) /\ op' = [op EXCEPT ![c] = op'[c]] /\ op'[c] = Idle
    BY <1>4, EndsQuietly
  <2> QED
    BY <1>1, <1>2, <2>1
<1>5. CASE /\ e[1] \in DOMAIN here
           /\ op' = [op EXCEPT ![c] = Visit(o, e, here[e[1]], Includes[here[e[1]]][e[1]])]
  <2> DEFINE v == here[e[1]]
             below == Includes[v][e[1]]
             n == Visit(o, e, v, below)
  <2>1. v \in Versions /\ e[1] \in DataOf[v]
    <3>1. here \in Partial(Files, Versions) /\ \A g \in DOMAIN here : g \in DataOf[here[g]]
      BY <1>1 DEF TypeInv, DirsInv, Dirs
    <3> HIDE DEF here
    <3> QED
      BY <1>5, <3>1, PartialIs
  <2>2. below \in SUBSET Parts
    BY <2>1, FilesOf
  <2>3. n \in Op /\ Fits(n) /\ Reads(o, n, e[1], v, below)
    <3> HIDE DEF v, below, o
    <3> QED
      BY <1>1, <2>1, <2>2, VisitFits DEF Reads
  <2>4. OneStep(c) /\ op'[c] = n
    <3> HIDE DEF n
    <3> QED
      BY <1>5, <2>3, GoesOn DEF n
  <2>5. e[1] \in Reached(o)
    BY DEF Reached
  <2>6. op' = [op EXCEPT ![c] = op'[c]]
    BY <1>5, <2>4
  <2>7. \E f \in DOMAIN here \ Remote : /\ f \in Reached(o)
                                         /\ Reads(o, op'[c], f, here[f], Includes[here[f]][f])
    <3> HIDE DEF n, o, here
    <3> QED
      BY <1>3, <1>5, <2>3, <2>4, <2>5
  <2> HIDE DEF n
  <2> QED
    BY <1>1, <1>2, <2>4, <2>6, <2>7
<1> QED
  BY <1>3, <1>4, <1>5

\* A remote include that lies in the cache, or its image is to be pulled.
LEMMA CacheDoes ==
    ASSUME TypeInv, NEW c \in Commands, ReadCache(c)
    PROVE  LET o == op[c]
               n == op'[c]
           IN  /\ OneStep(c) /\ op' = [op EXCEPT ![c] = n]
               /\ UNCHANGED <<dirs, cache, suspect, cut>>
               /\ o.kind = "load" /\ o.step = "load" /\ ~o.over
               /\ \/ n = Idle
                  \/ SameLoad(o, n) /\ n.kind = "load" /\ n.step = "pull"
                  \/ \E f \in Remote : /\ cache[f] \in {Empty, "whole"}
                                       /\ Reads(o, n, f, cache[f], {})
<1> DEFINE o == op[c]
<1>1. o \in Op /\ Fits(o) /\ o.kind = "load" /\ o.step = "load" /\ ~o.over /\ o.tag \in Tags
  BY DEF TypeInv, ReadCache, At, Op, Fits
<1>2. UNCHANGED <<dirs, cache, suspect, cut>>
  BY DEF ReadCache, loadOnly
<1>3. PICK e \in o.todo :
         /\ e[1] \in Remote
         /\ \/ op' = [op EXCEPT ![c] = Idle]
            \/ op' = [op EXCEPT ![c] = [o EXCEPT !.step = "pull", !.file = e]]
            \/ cache[e[1]] # None /\ op' = [op EXCEPT ![c] = Visit(o, e, cache[e[1]], {})]
  BY DEF ReadCache
<1>4. CASE op' = [op EXCEPT ![c] = Idle]
  <2>1. OneStep(c) /\ op' = [op EXCEPT ![c] = op'[c]] /\ op'[c] = Idle
    BY <1>4, EndsQuietly
  <2> QED
    BY <1>1, <1>2, <2>1
<1>5. CASE op' = [op EXCEPT ![c] = [o EXCEPT !.step = "pull", !.file = e]]
  <2> DEFINE n == [o EXCEPT !.step = "pull", !.file = e]
  <2>1. /\ n \in Op /\ n.kind = "load" /\ n.step = "pull" /\ n.file = e /\ n.todo = o.todo
        /\ n.tag = o.tag /\ n.got = o.got /\ n.clean = o.clean /\ n.over = o.over
        /\ n.container = o.container
    <3>1. e \in Entries
      BY <1>1 DEF Op
    <3> HIDE DEF o
    <3> QED
      BY <1>1, <3>1 DEF Op, Steps
  <2>2. Fits(n) /\ SameLoad(o, n)
    <3> HIDE DEF n, o
    <3> QED
      BY <1>1, <1>3, <2>1 DEF Fits, Kinds, StepsOf, SameLoad
  <2>3. OneStep(c) /\ op'[c] = n
    <3> HIDE DEF n
    <3> QED
      BY <1>5, <2>1, <2>2, GoesOn DEF n
  <2>4. op' = [op EXCEPT ![c] = op'[c]]
    BY <1>5, <2>3
  <2> HIDE DEF n
  <2> QED
    BY <1>1, <1>2, <2>1, <2>2, <2>3, <2>4
<1>6. CASE cache[e[1]] # None /\ op' = [op EXCEPT ![c] = Visit(o, e, cache[e[1]], {})]
  <2> DEFINE v == cache[e[1]]
             n == Visit(o, e, v, {})
  <2>1. v \in {Empty, "whole"}
    BY <1>3, <1>6 DEF TypeInv
  <2>2. n \in Op /\ Fits(n) /\ Reads(o, n, e[1], v, {})
    <3> DEFINE below == {}
               m == Visit(o, e, v, below)
    <3>1. below \in SUBSET Parts
      OBVIOUS
    <3>2. m \in Op /\ Fits(m) /\ Reads(o, m, e[1], v, below)
      <4> HIDE DEF o, v, below
      <4> QED
        BY <1>1, <2>1, <3>1, VisitFits DEF Reads
    <3> QED
      BY <3>2
  <2>3. OneStep(c) /\ op'[c] = n
    <3> HIDE DEF n
    <3> QED
      BY <1>6, <2>2, GoesOn DEF n
  <2>4. op' = [op EXCEPT ![c] = op'[c]]
    BY <1>6, <2>3
  <2> HIDE DEF n, o
  <2> QED
    BY <1>1, <1>2, <1>3, <2>1, <2>2, <2>3, <2>4 DEF o
<1> QED
  BY <1>3, <1>4, <1>5, <1>6

\* What was extracted is kept in the cache, which creates it empty first, or is not.
LEMMA StoreDoes ==
    ASSUME TypeInv, NEW c \in Commands, Store(c) \/ Fill(c)
    PROVE  LET o == op[c]
               n == op'[c]
           IN  /\ OneStep(c) /\ UNCHANGED <<dirs, suspect>>
               /\ o.kind = "load" /\ o.step \in {"store", "fill"} /\ ~o.over /\ o.file[1] \in Remote
               /\ \/ /\ Disturb(c, n) /\ SameLoad(o, n) /\ n.kind = "load" /\ n.step = "fill"
                     /\ n.file = o.file
                     /\ cache' = [cache EXCEPT ![o.file[1]] = Empty] /\ cut' = cut
                  \/ /\ op' = [op EXCEPT ![c] = n]
                     /\ Reads(o, n, o.file[1], "whole", {})
                     /\ \/ cache' = cache /\ cut' = cut /\ o.step = "store"
                        \/ cache' = [cache EXCEPT ![o.file[1]] = "whole"] /\ cut' = cut
                        \/ cache' = cache /\ cut'
<1> DEFINE o == op[c]
<1>1. /\ o \in Op /\ Fits(o) /\ o.kind = "load" /\ o.step \in {"store", "fill"} /\ ~o.over
      /\ o.file \in o.todo /\ o.file[1] \in Remote
  <2>1. o \in Op /\ Fits(o) /\ o.kind = "load" /\ o.step \in {"store", "fill"}
    BY DEF TypeInv, Store, Fill, At
  <2> HIDE DEF o
  <2> QED
    BY <2>1 DEF Fits
<1>2. UNCHANGED <<dirs, suspect>>
  BY DEF Store, Fill, loadOnly
<1>3. CASE Disturb(c, [o EXCEPT !.step = "fill"]) /\ cache' = [cache EXCEPT ![o.file[1]] = Empty] /\ cut' = cut
  <2> DEFINE n == [o EXCEPT !.step = "fill"]
  <2>1. /\ n \in Op /\ n.kind = "load" /\ n.step = "fill" /\ n.file = o.file /\ n.todo = o.todo
        /\ n.tag = o.tag /\ n.got = o.got /\ n.clean = o.clean /\ n.over = o.over
        /\ n.container = o.container
    <3> HIDE DEF o
    <3> QED
      BY <1>1 DEF Op, Steps
  <2>2. Fits(n) /\ SameLoad(o, n)
    <3> HIDE DEF n, o
    <3> QED
      BY <1>1, <2>1 DEF Fits, Kinds, StepsOf, SameLoad
  <2>3. OneStep(c) /\ op'[c] = n
    <3> HIDE DEF n
    <3> QED
      BY <1>3, <2>1, <2>2, GoesOn DEF n
  <2>4. Disturb(c, op'[c])
    BY <1>3, <2>3
  <2> HIDE DEF n
  <2> QED
    BY <1>1, <1>2, <1>3, <2>1, <2>2, <2>3, <2>4
<1>4. CASE /\ op' = [op EXCEPT ![c] = Visit(o, o.file, "whole", {})]
           /\ \/ cache' = cache /\ cut' = cut /\ o.step = "store"
              \/ cache' = [cache EXCEPT ![o.file[1]] = "whole"] /\ cut' = cut
              \/ cache' = cache /\ cut'
  <2> DEFINE below == {}
             e == o.file
             v == "whole"
             n == Visit(o, e, v, below)
  <2>1. below \in SUBSET Parts /\ v \in {Empty, "whole"} /\ e \in o.todo
    BY <1>1
  <2>2. n \in Op /\ Fits(n) /\ Reads(o, n, e[1], v, below)
    <3> HIDE DEF o, v, below, e
    <3> QED
      BY <1>1, <2>1, VisitFits DEF Reads
  <2>3. OneStep(c) /\ op'[c] = n
    <3> HIDE DEF n
    <3> QED
      BY <1>4, <2>2, GoesOn DEF n
  <2>4. op' = [op EXCEPT ![c] = op'[c]]
    BY <1>4, <2>3
  <2> HIDE DEF n
  <2> QED
    BY <1>1, <1>2, <1>4, <2>2, <2>3, <2>4
<1>5. \/ Disturb(c, [o EXCEPT !.step = "fill"]) /\ cache' = [cache EXCEPT ![o.file[1]] = Empty] /\ cut' = cut
      \/ /\ op' = [op EXCEPT ![c] = Visit(o, o.file, "whole", {})]
         /\ \/ cache' = cache /\ cut' = cut /\ o.step = "store"
            \/ cache' = [cache EXCEPT ![o.file[1]] = "whole"] /\ cut' = cut
            \/ cache' = cache /\ cut'
  <2>1. CASE Store(c)
    BY <2>1 DEF Store, At, loadOnly
  <2>2. CASE Fill(c)
    BY <2>2 DEF Fill
  <2> QED
    BY <2>1, <2>2
<1> QED
  BY <1>3, <1>4, <1>5

-----------------------------------------------------------------------------
(***************************************************************************)
(* The types and where a container may stay behind.                        *)
(***************************************************************************)
\* What a step is, by what it may change.
Starts(c) == StartTemplate(c) \/ StartLoad(c) \/ getInterfacesBusybox(c) \/ PcapHandler(c)
Pulls(c)  == PullImage(c) \/ ResolveImage(c)
Contains(c) == \/ CreateTemplate(c) \/ CreateInclude(c) \/ CreateRun(c) \/ CreatePcap(c)
               \/ StartUnpacker(c) \/ StartRun(c) \/ StartPcap(c)
Outputs(c) == WaitAndLogs(c) \/ Extract(c) \/ RemoveContainer(c)
Ends(c)    == Fail(c) \/ Kill(c) \/ LoadDone(c) \/ PcapDone(c)

\* The steps of a command but for those that start it are silent, or change files.
LEMMA SilentSteps ==
    ASSUME TypeInv, NEW c \in Commands, Pulls(c) \/ Contains(c) \/ Outputs(c) \/ Ends(c)
    PROVE  Quiet(c)
BY PullsQuietly, ContainersQuiet, OutputQuiet, EndsQuiet DEF Pulls, Contains, Outputs, Ends

\* A step keeps the types.
LEMMA TypeStep ==
    ASSUME TypeInv, NEW c \in Commands, Step(c)
    PROVE  TypeInv'
<1> USE DEF TypeInv
<1>1. ASSUME OneStep(c), DirsInv', images' = images, published' = published,
             cache' \in [Remote -> {None, Empty, "whole"}], suspect' \subseteq Tags,
             cut' \in BOOLEAN, jobs' \in Nat
      PROVE  TypeInv'
  <2>1. op' \in [Commands -> Op] /\ \A b \in Commands : Fits(op'[b])
    BY <1>1, OneMoves DEF OneStep
  <2> QED
    BY <1>1, <2>1
<1>2. ASSUME UNCHANGED dirs
      PROVE  DirsInv'
  BY <1>2 DEF DirsInv
<1>3. CASE Starts(c)
  <2>1. PICK kind \in Kinds, tag \in Tags : Start(c, kind, tag)
    BY <1>3 DEF Starts, StartTemplate, StartLoad, getInterfacesBusybox, PcapHandler, Kinds, Tags
  <2>2. OneStep(c)
    BY <2>1, StartFits
  <2>3. UNCHANGED <<published, images, dirs, cache, suspect, cut>> /\ jobs' = jobs + 1
    BY <2>1 DEF Start
  <2> QED
    BY <1>1, <1>2, <2>2, <2>3
<1>4. CASE Pulls(c)
  <2>1. /\ OneStep(c) /\ images' \in [Tags -> Versions \cup {None}]
        /\ \A v \in Versions : images'[v] \in {v, None}
        /\ UNCHANGED <<published, dirs, cache, jobs, suspect, cut>>
    BY <1>4, PullsQuietly DEF Quiet, Pulls, PullImage, ResolveImage
  <2>2. op' \in [Commands -> Op] /\ \A b \in Commands : Fits(op'[b])
    BY <2>1, OneMoves DEF OneStep
  <2> QED
    BY <1>2, <2>1, <2>2
<1>5. CASE Contains(c) \/ Outputs(c) \/ Ends(c)
  <2>1. Quiet(c)
    BY <1>5, SilentSteps
  <2>2. UNCHANGED <<published, images, jobs>> /\ cut' \in BOOLEAN
    <3>1. CASE Contains(c)
      BY <3>1 DEF Contains, CreateTemplate, CreateInclude, CreateRun, CreatePcap, Create, StartUnpacker,
                  StartRun, StartPcap, StartContainer
    <3>2. CASE Outputs(c)
      BY <3>2 DEF Outputs, WaitAndLogs, Extract, RemoveContainer, loadOnly
    <3>3. CASE Ends(c)
      BY <3>3 DEF Ends, Fail, Kill, LoadDone, PcapDone, loadOnly
    <3> QED
      BY <1>5, <3>1, <3>2, <3>3
  <2> QED
    BY <1>1, <1>2, <2>1, <2>2 DEF Quiet
<1>6. CASE Clear(c)
  <2>1. OneStep(c) /\ DirsInv'
    BY <1>6, ClearDoes
  <2>2. UNCHANGED <<published, images, cache, jobs, cut, suspect>>
    BY <1>6 DEF Clear, folderOnly
  <2> QED
    BY <1>1, <2>1, <2>2
<1>7. CASE CopyFile(c)
  <2>1. OneStep(c) /\ DirsInv'
    BY <1>7, CopyDoes
  <2>2. UNCHANGED <<published, images, cache, jobs, cut, suspect>>
    BY <1>7 DEF CopyFile, folderOnly
  <2> QED
    BY <1>1, <2>1, <2>2
<1>8. CASE Rename(c)
  <2>1. OneStep(c) /\ DirsInv' /\ suspect' \subseteq Tags
    BY <1>8, RenameDoes
  <2>2. UNCHANGED <<published, images, cache, jobs, cut>>
    BY <1>8 DEF Rename, folderOnly
  <2> QED
    BY <1>1, <2>1, <2>2
<1>9. CASE ReadVersion(c)
  <2>1. OneStep(c) /\ dirs' = dirs /\ suspect' \subseteq Tags
    BY <1>9, VersionDoes DEF Tags
  <2> QED
    BY <1>1, <1>2, <1>9, <2>1 DEF ReadVersion, folderOnly
<1>10. CASE SpreadFile(c)
  <2>1. OneStep(c) /\ DirsInv'
    BY <1>10, SpreadDoes
  <2>2. UNCHANGED <<published, images, cache, jobs, cut, suspect>>
    BY <1>10 DEF SpreadFile, folderOnly
  <2> QED
    BY <1>1, <2>1, <2>2
<1>11. CASE SpreadDone(c)
  <2>1. OneStep(c) /\ dirs' = dirs /\ suspect' \subseteq Tags
    BY <1>11, SpreadEnds
  <2> QED
    BY <1>1, <1>2, <1>11, <2>1 DEF SpreadDone, folderOnly
<1>12. CASE ReadFile(c)
  BY <1>1, <1>2, <1>12, ReadDoes DEF ReadFile, loadOnly
<1>13. CASE ReadCache(c)
  BY <1>1, <1>2, <1>13, CacheDoes DEF ReadCache, loadOnly
<1>14. CASE Store(c) \/ Fill(c)
  <2>1. /\ OneStep(c) /\ UNCHANGED <<dirs, suspect>>
        /\ cache' \in [Remote -> {None, Empty, "whole"}] /\ cut' \in BOOLEAN
    BY <1>14, StoreDoes
  <2>2. UNCHANGED <<images, published, jobs>>
    BY <1>14 DEF Store, Fill, loadOnly
  <2> QED
    BY <1>1, <1>2, <2>1, <2>2
<1> QED
  BY <1>3, <1>4, <1>5, <1>6, <1>7, <1>8, <1>9, <1>10, <1>11, <1>12, <1>13, <1>14
     DEF Step, Starts, Pulls, Contains, Outputs, Ends

\* A step leaves a container only where a failure finds it without a removal deferred.
LEMMA LeftoversStep ==
    ASSUME TypeInv, LeftoversHaveCause, NEW c \in Commands, Step(c)
    PROVE  LeftoversHaveCause'
<1>1. ASSUME UNCHANGED orphan
      PROVE  LeftoversHaveCause'
  BY <1>1 DEF LeftoversHaveCause
<1>2. CASE Starts(c)
  BY <1>2 DEF Starts, StartTemplate, StartLoad, getInterfacesBusybox, PcapHandler, Start, LeftoversHaveCause
<1>3. CASE Fail(c)
  <2>1. Fits(op[c]) /\ op[c].step \notin {"idle", "resolve", "load", "store", "fill", "remove"}
    BY <1>3 DEF TypeInv, Fail
  <2>2. \/ UNCHANGED orphan
        \/ /\ op[c].container /\ ~RemovesOnFailure(op[c])
           /\ orphan' = [kind |-> op[c].kind, at |-> op[c].step]
    BY <1>3 DEF Fail
  <2>3. op[c].container /\ ~RemovesOnFailure(op[c]) =>
            op[c].step = "start" \/ (op[c].kind = "run" /\ op[c].step \in {"wait", "logs"})
    BY <2>1 DEF Fits, RemovesOnFailure
  <2> QED
    BY <1>1, <2>2, <2>3 DEF LeftoversHaveCause
<1>4. CASE RemoveContainer(c)
  BY <1>1, <1>4 DEF RemoveContainer, LeftoversHaveCause
<1>5. CASE Pulls(c) \/ Contains(c) \/ WaitAndLogs(c) \/ Kill(c)
  BY <1>1, <1>5 DEF Pulls, Contains, PullImage, ResolveImage, WaitAndLogs, Kill, CreateTemplate, CreateInclude,
                    CreateRun, CreatePcap, Create, StartUnpacker, StartRun, StartPcap, StartContainer
<1>6. CASE \/ Clear(c) \/ CopyFile(c) \/ Rename(c) \/ ReadVersion(c) \/ SpreadFile(c) \/ SpreadDone(c)
           \/ ReadFile(c) \/ ReadCache(c) \/ Extract(c) \/ Store(c) \/ Fill(c) \/ LoadDone(c) \/ PcapDone(c)
  BY <1>1, <1>6 DEF Clear, CopyFile, Rename, ReadVersion, SpreadFile, SpreadDone, folderOnly,
                    ReadFile, ReadCache, Extract, Store, Fill, LoadDone, PcapDone, loadOnly
<1> QED
  BY <1>2, <1>3, <1>4, <1>5, <1>6 DEF Step, Starts, Pulls, Contains

-----------------------------------------------------------------------------
(***************************************************************************)
(* What is pulled is whole.                                                *)
(***************************************************************************)
\* The other commands stay where they are.
LEMMA OthersKeep ==
    ASSUME TypeInv, NEW c \in Commands, Others(c), NEW b \in Commands \ {c}
    PROVE  /\ op'[b].kind = op[b].kind /\ op'[b].step = op[b].step /\ op'[b].from = op[b].from
           /\ op'[b].tag = op[b].tag /\ op'[b].left = op[b].left /\ op'[b].file = op[b].file
           /\ op'[b].got = op[b].got /\ op'[b].todo = op[b].todo /\ op'[b].over = op[b].over
           /\ (Busy(op'[b]) <=> Busy(op[b])) /\ (op'[b].clean => op[b].clean)
<1>1. op[b] \in Op /\ Fits(op[b])
  BY DEF TypeInv
<1>2. op'[b] = op[b] \/ op'[b] = [op[b] EXCEPT !.clean = FALSE]
  BY DEF Others
<1>3. CASE op'[b] = op[b]
  BY <1>3
<1>4. CASE op'[b] = [op[b] EXCEPT !.clean = FALSE]
  BY <1>1, <1>4, UncleanFits DEF Busy
<1> QED
  BY <1>2, <1>3, <1>4

\* A command that is not writing a template now changes nothing about those that are.
LEMMA PullFrame ==
    ASSUME TypeInv, PullInv, NEW c \in Commands, Others(c), UNCHANGED <<dirs, suspect>>,
           op'[c] \in Op, ~Busy(op'[c])
    PROVE  PullInv'
<1>1. \A b \in Commands \ {c} :
          /\ op'[b].kind = op[b].kind /\ op'[b].step = op[b].step /\ op'[b].from = op[b].from
          /\ op'[b].tag = op[b].tag /\ op'[b].left = op[b].left
          /\ (Busy(op'[b]) <=> Busy(op[b])) /\ (op'[b].clean => op[b].clean)
  BY OthersKeep
<1>2. ASSUME NEW b \in Commands, op'[b].kind = "template", op'[b].step = "spread"
      PROVE  op'[b].from \in suspect'
  <2>1. b # c
    BY <1>2 DEF Busy
  <2> QED
    BY <1>1, <1>2, <2>1 DEF PullInv
<1>3. ASSUME NEW b \in Commands, Busy(op'[b]), op'[b].clean
      PROVE  Undisturbed(op[b])' /\ \A a \in Commands \ {b} : ~Busy(op'[a])
  <2>1. b # c
    BY <1>3
  <2>2. Busy(op[b]) /\ op[b].clean
    BY <1>1, <1>3, <2>1
  <2>3. Undisturbed(op[b]) /\ \A a \in Commands \ {b} : ~Busy(op[a])
    BY <2>2 DEF PullInv
  <2>4. Undisturbed(op[b])'
    BY <1>1, <2>1, <2>3 DEF Undisturbed
  <2>5. \A a \in Commands \ {b} : ~Busy(op'[a])
    BY <1>1, <2>3
  <2> QED
    BY <2>4, <2>5
<1>4. PulledIsWhole'
  BY DEF PullInv, PulledIsWhole
<1> QED
  BY <1>2, <1>3, <1>4 DEF PullInv

\* When files change under the others, only the command that changes them can be alone.
LEMMA PullTold ==
    ASSUME TypeInv, NEW c \in Commands, Others(c), AllTold(c),
           Busy(op'[c]) /\ op'[c].clean =>
               Undisturbed(op[c])' /\ \A b \in Commands \ {c} : ~Busy(op[b]),
           \A b \in Commands : op'[b].kind = "template" /\ op'[b].step = "spread" =>
               op'[b].from \in suspect',
           PulledIsWhole'
    PROVE  PullInv'
<1>1. ASSUME NEW b \in Commands, Busy(op'[b]), op'[b].clean
      PROVE  Undisturbed(op[b])' /\ \A a \in Commands \ {b} : ~Busy(op'[a])
  <2>1. b = c
    BY <1>1 DEF AllTold, Busy
  <2> QED
    BY <1>1, <2>1, OthersKeep
<1> QED
  BY <1>1 DEF PullInv

\* The old template is gone, and nothing lies in data/ but what is copied there.
LEMMA PullClear ==
    ASSUME TypeInv, PullInv, NEW c \in Commands, Clear(c)
    PROVE  PullInv'
<1> DEFINE o == op[c]
           n == op'[c]
<1>1. /\ OneStep(c) /\ Disturb(c, n)
      /\ o.kind = "template" /\ o.step = "clear"
      /\ n.kind = "template" /\ n.step = "copy" /\ n.left = DataOf[n.from] \cup SbinOf[n.from]
      /\ n.clean => dirs["data"] = Nothing /\ ~\E b \in Commands \ {c} : Unpacking(b)
      /\ n.tag \in Tags /\ n.from \in Versions
      /\ dirs' = [dirs EXCEPT ![n.tag] = Nothing]
  BY ClearDoes
<1>2. suspect' = suspect
  BY DEF Clear
<1>3. Others(c) /\ AllTold(c)
  BY <1>1, OneMoves DEF OneStep
<1>4. /\ DOMAIN dirs = Dirs /\ "data" \in Dirs /\ "data" # n.tag /\ n.tag \in Dirs
  BY <1>1, TemplatesAssumption DEF TypeInv, DirsInv, Dirs
<1>5. ASSUME n.clean
      PROVE  Undisturbed(op[c])' /\ \A b \in Commands \ {c} : ~Busy(op[b])
  <2>1. dirs'["data"] = Nothing
    BY <1>1, <1>4, <1>5
  <2>2. [f \in DataOf[n.from] \ n.left |-> n.from] = Nothing
    <3>1. DataOf[n.from] \ n.left = {}
      BY <1>1
    <3> HIDE DEF n
    <3> QED
      BY <3>1 DEF Nothing
  <2>3. \A b \in Commands \ {c} : ~Busy(op[b])
    BY <1>1, <1>5 DEF Busy, Unpacking
  <2> QED
    BY <1>1, <2>1, <2>2, <2>3 DEF Undisturbed
<1>6. \A b \in Commands : op'[b].kind = "template" /\ op'[b].step = "spread" =>
          op'[b].from \in suspect'
  BY <1>1, <1>2, <1>3, OthersKeep DEF PullInv
<1>7. PulledIsWhole'
  BY <1>1, <1>2, <1>4 DEF PullInv, PulledIsWhole, Dirs
<1> QED
  BY <1>1, <1>3, <1>5, <1>6, <1>7, PullTold

\* A file more of the version that is unpacked.
LEMMA PullCopy ==
    ASSUME TypeInv, PullInv, NEW c \in Commands, CopyFile(c)
    PROVE  PullInv'
<1> DEFINE o == op[c]
           n == op'[c]
<1>1. /\ OneStep(c) /\ Disturb(c, n)
      /\ o.kind = "template" /\ o.step = "copy"
      /\ n.kind = "template" /\ n.step = "copy" /\ n.tag = o.tag /\ n.from = o.from
      /\ n.clean = o.clean /\ n.from \in Versions
      /\ o.left \subseteq DataOf[n.from] \cup SbinOf[n.from]
      /\ \A t \in Tags : dirs'[t] = dirs[t]
  BY CopyDoes
<1>2. PICK f \in o.left :
         /\ n.left = o.left \ {f}
         /\ IF f \in SbinOf[n.from]
            THEN dirs'["data"] = dirs["data"]
            ELSE dirs'["data"] = [g \in DOMAIN dirs["data"] \cup {f} |->
                                      IF g = f THEN n.from ELSE dirs["data"][g]]
  BY CopyDoes
<1>3. suspect' = suspect
  BY DEF CopyFile
<1>4. Others(c) /\ AllTold(c)
  BY <1>1, OneMoves DEF OneStep
<1>5. ASSUME n.clean
      PROVE  Undisturbed(op[c])' /\ \A b \in Commands \ {c} : ~Busy(op[b])
  <2>1. Undisturbed(op[c]) /\ \A b \in Commands \ {c} : ~Busy(op[b])
    BY <1>1, <1>5 DEF PullInv, Busy
  <2>2. dirs["data"] = [g \in DataOf[n.from] \ o.left |-> n.from]
    BY <1>1, <2>1 DEF Undisturbed
  <2>3. dirs'["data"] = [g \in DataOf[n.from] \ n.left |-> n.from]
    <3>1. CASE f \in SbinOf[n.from]
      <4>1. DataOf[n.from] \ n.left = DataOf[n.from] \ o.left
        BY <1>1, <1>2, <3>1, FilesOf
      <4> HIDE DEF n, o
      <4> QED
        BY <1>2, <2>2, <3>1, <4>1
    <3>2. CASE f \notin SbinOf[n.from]
      <4>1. DataOf[n.from] \ n.left = (DataOf[n.from] \ o.left) \cup {f}
        BY <1>1, <1>2, <3>2
      <4> HIDE DEF n, o
      <4> QED
        BY <1>2, <2>2, <3>2, <4>1
    <3> QED
      BY <3>1, <3>2
  <2> QED
    BY <1>1, <2>1, <2>3 DEF Undisturbed
<1>6. \A b \in Commands : op'[b].kind = "template" /\ op'[b].step = "spread" => op'[b].from \in suspect'
  BY <1>1, <1>3, <1>4, OthersKeep DEF PullInv
<1>7. PulledIsWhole'
  BY <1>1, <1>3 DEF PullInv, PulledIsWhole
<1> QED
  BY <1>4, <1>5, <1>6, <1>7, PullTold

\* What is renamed is the whole version, or the tag is suspect from then on.
LEMMA PullRename ==
    ASSUME TypeInv, PullInv, NEW c \in Commands, Rename(c)
    PROVE  PullInv'
<1> DEFINE o == op[c]
           n == op'[c]
<1>1. /\ OneStep(c) /\ Disturb(c, n)
      /\ o.kind = "template" /\ o.step = "copy" /\ o.left = {}
      /\ n.kind = "template" /\ n.step = "version" /\ n.tag = o.tag /\ n.from = o.from
      /\ n.clean = o.clean /\ n.from \in Versions /\ n.tag \in {n.from, Latest}
      /\ n.tag \in Tags
      /\ dirs'[n.tag] = dirs["data"]
      /\ \A t \in Tags \ {n.tag} : dirs'[t] = dirs[t]
      /\ suspect' = IF n.clean THEN suspect \ {n.tag} ELSE suspect \cup {n.tag}
  BY RenameDoes
<1>2. Others(c) /\ AllTold(c)
  BY <1>1, OneMoves DEF OneStep
<1>3. ASSUME n.clean
      PROVE  /\ dirs'[n.tag] = Image(n.from)
             /\ Undisturbed(op[c])' /\ \A b \in Commands \ {c} : ~Busy(op[b])
  <2>1. Undisturbed(op[c]) /\ \A b \in Commands \ {c} : ~Busy(op[b])
    BY <1>1, <1>3 DEF PullInv, Busy
  <2>2. dirs["data"] = [g \in DataOf[n.from] \ o.left |-> n.from]
    BY <1>1, <2>1 DEF Undisturbed
  <2>3. dirs'[n.tag] = Image(n.from)
    <3>1. DataOf[n.from] \ o.left = DataOf[n.from]
      BY <1>1
    <3> HIDE DEF n, o
    <3> QED
      BY <1>1, <2>2, <3>1 DEF Image
  <2> QED
    BY <1>1, <2>1, <2>3 DEF Undisturbed
<1>4. ASSUME NEW b \in Commands, op'[b].kind = "template", op'[b].step = "spread"
      PROVE  op'[b].from \in suspect'
  <2>1. b # c
    BY <1>1, <1>4
  <2>2. op[b].kind = "template" /\ op[b].step = "spread" /\ op'[b].from = op[b].from
    BY <1>2, <1>4, <2>1, OthersKeep
  <2>3. op[b].from \in suspect /\ Busy(op[b])
    BY <2>2 DEF PullInv, Busy
  <2>4. ~n.clean
    BY <1>3, <2>1, <2>3
  <2> QED
    BY <1>1, <2>2, <2>3, <2>4
<1>5. PulledIsWhole'
  <2> SUFFICES ASSUME NEW d \in Tags, d \notin suspect', dirs'[d] # Nothing
               PROVE  \E v \in Versions : d \in {v, Latest} /\ dirs'[d] = Image(v)
    BY DEF PulledIsWhole, Image
  <2>1. CASE d = n.tag
    <3>1. n.clean
      BY <1>1, <2>1
    <3> QED
      BY <1>1, <1>3, <2>1, <3>1
  <2>2. CASE d # n.tag
    <3>1. d \notin suspect /\ dirs'[d] = dirs[d]
      BY <1>1, <2>2
    <3> QED
      BY <3>1 DEF PullInv, PulledIsWhole
  <2> QED
    BY <2>1, <2>2
<1> QED
  BY <1>2, <1>3, <1>4, <1>5, PullTold

\* The version that a template of latest is copied to is suspect until that is done.
LEMMA PullVersion ==
    ASSUME TypeInv, PullInv, NEW c \in Commands, ReadVersion(c)
    PROVE  PullInv'
<1> DEFINE o == op[c]
           n == op'[c]
<1>1. /\ OneStep(c) /\ op' = [op EXCEPT ![c] = n] /\ dirs' = dirs
      /\ o.kind = "template" /\ o.step = "version"
      /\ \/ n = Ending("template") /\ suspect' = suspect
         \/ /\ n.kind = "template" /\ n.step = "spread" /\ n.tag = o.tag
            /\ VersionFile \in DOMAIN dirs[n.tag] /\ n.from = dirs[n.tag][VersionFile]
            /\ n.left = DOMAIN dirs[n.tag] /\ n.from # n.tag
            /\ n.clean => o.clean /\ n.from \notin suspect
            /\ n.from \in Versions /\ n.tag \in Tags
            /\ suspect' = suspect \cup {n.from}
  BY VersionDoes
<1>2. Others(c)
  BY <1>1, OneMoves DEF OneStep
<1>3. CASE n = Ending("template") /\ suspect' = suspect
  <2>1. n \in Op /\ ~Busy(n)
    BY <1>3, IdleFits DEF Busy
  <2> QED
    BY <1>1, <1>2, <1>3, <2>1, PullFrame
<1>4. CASE /\ n.kind = "template" /\ n.step = "spread" /\ n.tag = o.tag
           /\ VersionFile \in DOMAIN dirs[n.tag] /\ n.from = dirs[n.tag][VersionFile]
           /\ n.left = DOMAIN dirs[n.tag] /\ n.from # n.tag
           /\ n.clean => o.clean /\ n.from \notin suspect
           /\ n.from \in Versions /\ n.tag \in Tags
           /\ suspect' = suspect \cup {n.from}
  <2>1. ASSUME NEW b \in Commands, op'[b].kind = "template", op'[b].step = "spread"
        PROVE  op'[b].from \in suspect'
    <3>1. CASE b = c
      BY <1>4, <3>1
    <3>2. CASE b # c
      BY <1>2, <1>4, <2>1, <3>2, OthersKeep DEF PullInv
    <3> QED
      BY <3>1, <3>2
  <2>2. ASSUME n.clean
        PROVE  Undisturbed(op[c])' /\ \A b \in Commands \ {c} : ~Busy(op[b])
    <3>1. Undisturbed(o) /\ \A b \in Commands \ {c} : ~Busy(op[b])
      BY <1>1, <1>4, <2>2 DEF PullInv, Busy
    <3>2. o.from \in Versions /\ dirs[n.tag] = Image(o.from)
      BY <1>1, <1>4, <3>1 DEF TypeInv, Fits, Undisturbed
    <3>3. n.from = o.from /\ n.left = DataOf[n.from]
      <4>1. VersionFile \in DataOf[o.from] /\ DOMAIN Image(o.from) = DataOf[o.from]
            /\ Image(o.from)[VersionFile] = o.from
        BY <3>2, FilesOf, ImageIs
      <4> HIDE DEF n, o
      <4> QED
        BY <1>4, <3>2, <4>1
    <3>4. \E D \in SUBSET DataOf[n.from] :
             /\ DataOf[n.from] \ n.left \subseteq D
             /\ dirs[n.from] = [f \in D |-> n.from]
      <4>1. n.from \in Tags /\ n.from # Latest
        BY <1>4, FilesOf
      <4>2. dirs[n.from] = Nothing \/ dirs[n.from] = Image(n.from)
        BY <1>4, <2>2, <4>1 DEF PullInv, PulledIsWhole
      <4>3. CASE dirs[n.from] = Nothing
        <5>1. dirs[n.from] = [f \in {} |-> n.from]
          BY <4>3 DEF Nothing
        <5>2. DataOf[n.from] \ n.left \subseteq {} /\ {} \in SUBSET DataOf[n.from]
          BY <3>3
        <5> HIDE DEF n
        <5> QED
          BY <5>1, <5>2
      <4>4. CASE dirs[n.from] = Image(n.from)
        <5>1. dirs[n.from] = [f \in DataOf[n.from] |-> n.from]
          BY <4>4 DEF Image
        <5> HIDE DEF n
        <5> QED
          BY <5>1
      <4> QED
        BY <4>2, <4>3, <4>4
    <3>5. n.tag # n.from /\ dirs[n.tag] = Image(n.from)
      BY <1>4, <3>2, <3>3
    <3> QED
      BY <1>1, <1>4, <3>1, <3>4, <3>5 DEF Undisturbed, Image
  <2>3. ASSUME NEW b \in Commands, Busy(op'[b]), op'[b].clean
        PROVE  Undisturbed(op[b])' /\ \A a \in Commands \ {b} : ~Busy(op'[a])
    <3>1. Busy(o) /\ c \in Commands
      BY <1>1 DEF Busy
    <3>2. b = c
      <4> SUFFICES ASSUME b # c
                   PROVE  FALSE
        OBVIOUS
      <4>1. Busy(op[b]) /\ op[b].clean
        BY <1>2, <2>3, OthersKeep
      <4> QED
        BY <3>1, <4>1 DEF PullInv
    <3> QED
      BY <1>2, <2>2, <2>3, <3>2, OthersKeep
  <2>4. PulledIsWhole'
    BY <1>1, <1>4 DEF PullInv, PulledIsWhole, Image
  <2> QED
    BY <2>1, <2>3, <2>4 DEF PullInv
<1> QED
  BY <1>1, <1>3, <1>4

\* A file more of the copy.
LEMMA PullSpread ==
    ASSUME TypeInv, PullInv, NEW c \in Commands, SpreadFile(c)
    PROVE  PullInv'
<1> DEFINE o == op[c]
           n == op'[c]
<1>1. /\ OneStep(c) /\ Disturb(c, n)
      /\ o.kind = "template" /\ o.step = "spread"
      /\ n.kind = "template" /\ n.step = "spread" /\ n.tag = o.tag /\ n.from = o.from
      /\ n.clean = o.clean /\ n.from \in Versions /\ n.tag \in Tags
  BY SpreadDoes
<1>2. PICK f \in o.left :
         /\ f \in DOMAIN dirs[n.tag] /\ n.left = o.left \ {f}
         /\ dirs' = [dirs EXCEPT ![n.from] = dirs'[n.from]]
         /\ dirs'[n.from] = [g \in DOMAIN dirs[n.from] \cup {f} |->
                                 IF g = f THEN dirs[n.tag][f] ELSE dirs[n.from][g]]
  BY SpreadDoes
<1>3. suspect' = suspect /\ n.from \in suspect /\ n.from \in Tags /\ DOMAIN dirs = Dirs
  BY <1>1, FilesOf DEF SpreadFile, PullInv, TypeInv, DirsInv
<1>4. Others(c) /\ AllTold(c)
  BY <1>1, OneMoves DEF OneStep
<1>5. ASSUME n.clean
      PROVE  Undisturbed(op[c])' /\ \A b \in Commands \ {c} : ~Busy(op[b])
  <2>1. Undisturbed(op[c]) /\ \A b \in Commands \ {c} : ~Busy(op[b])
    BY <1>1, <1>5 DEF PullInv, Busy
  <2>2. n.tag # n.from /\ dirs[n.tag] = Image(n.from)
    BY <1>1, <2>1 DEF Undisturbed
  <2>3. PICK D \in SUBSET DataOf[n.from] :
           /\ DataOf[n.from] \ o.left \subseteq D
           /\ dirs[n.from] = [g \in D |-> n.from]
    BY <1>1, <2>1 DEF Undisturbed
  <2>4. dirs'[n.tag] = Image(n.from)
    <3>1. n.tag \in Dirs
      BY <1>1 DEF Dirs
    <3> HIDE DEF n, o
    <3> QED
      BY <1>2, <1>3, <2>2, <3>1
  <2>5. f \in DataOf[n.from] /\ dirs[n.tag][f] = n.from
    BY <1>1, <1>2, <2>2, ImageIs
  <2>6. dirs'[n.from] = [g \in D \cup {f} |-> n.from]
    <3> HIDE DEF n, o
    <3> QED
      BY <1>2, <2>3, <2>5
  <2>7. D \cup {f} \in SUBSET DataOf[n.from] /\ DataOf[n.from] \ n.left \subseteq D \cup {f}
    BY <1>2, <2>3, <2>5
  <2>8. \E E \in SUBSET DataOf[n.from] :
           /\ DataOf[n.from] \ n.left \subseteq E
           /\ dirs'[n.from] = [g \in E |-> n.from]
    <3> HIDE DEF n, o
    <3> QED
      BY <2>6, <2>7
  <2> QED
    BY <1>1, <2>1, <2>2, <2>4, <2>8 DEF Undisturbed, Image
<1>6. \A b \in Commands : op'[b].kind = "template" /\ op'[b].step = "spread" => op'[b].from \in suspect'
  BY <1>1, <1>3, <1>4, OthersKeep DEF PullInv
<1>7. PulledIsWhole'
  <2> SUFFICES ASSUME NEW d \in Tags, d \notin suspect', dirs'[d] # Nothing
               PROVE  \E v \in Versions : d \in {v, Latest} /\ dirs'[d] = Image(v)
    BY DEF PulledIsWhole, Image
  <2>1. d # n.from /\ d \notin suspect
    BY <1>3
  <2>2. dirs'[d] = dirs[d]
    BY <1>2, <1>3, <2>1 DEF Dirs
  <2> QED
    BY <2>1, <2>2 DEF PullInv, PulledIsWhole
<1> QED
  BY <1>4, <1>5, <1>6, <1>7, PullTold

\* A copy that is finished, and was made by one pull alone, is whole.
LEMMA PullSpreadEnd ==
    ASSUME TypeInv, PullInv, NEW c \in Commands, SpreadDone(c)
    PROVE  PullInv'
<1> DEFINE o == op[c]
<1>1. /\ OneStep(c) /\ op' = [op EXCEPT ![c] = op'[c]] /\ dirs' = dirs
      /\ o.kind = "template" /\ o.step = "spread" /\ o.left = {}
      /\ op'[c] = Ending("template")
      /\ suspect' = IF o.clean THEN suspect \ {o.from} ELSE suspect
  BY SpreadEnds
<1>2. Others(c) /\ op'[c] \in Op /\ ~Busy(op'[c])
  BY <1>1, OneMoves, IdleFits DEF OneStep, Busy
<1>3. CASE ~o.clean
  BY <1>1, <1>2, <1>3, PullFrame
<1>4. CASE o.clean
  <2>1. Undisturbed(o) /\ \A b \in Commands \ {c} : ~Busy(op[b])
    BY <1>1, <1>4 DEF PullInv, Busy
  <2>2. \A b \in Commands : ~Busy(op'[b])
    BY <1>2, <2>1, OthersKeep
  <2>3. o.from \in Versions /\ dirs[o.from] = Image(o.from)
    <3>1. o.from \in Versions
      BY <1>1 DEF TypeInv, Fits
    <3>2. PICK D \in SUBSET DataOf[o.from] :
             /\ DataOf[o.from] \ o.left \subseteq D
             /\ dirs[o.from] = [g \in D |-> o.from]
      BY <1>1, <2>1 DEF Undisturbed
    <3>3. D = DataOf[o.from]
      BY <1>1, <3>2
    <3> QED
      BY <3>1, <3>2, <3>3 DEF Image
  <2>4. PulledIsWhole'
    <3> SUFFICES ASSUME NEW d \in Tags, d \notin suspect', dirs'[d] # Nothing
                 PROVE  \E v \in Versions : d \in {v, Latest} /\ dirs'[d] = Image(v)
      BY DEF PulledIsWhole, Image
    <3>1. CASE d = o.from
      BY <1>1, <2>3, <3>1
    <3>2. CASE d # o.from
      BY <1>1, <1>4, <3>2 DEF PullInv, PulledIsWhole
    <3> QED
      BY <3>1, <3>2
  <2> QED
    BY <2>2, <2>4 DEF PullInv, Busy
<1> QED
  BY <1>3, <1>4

\* A step keeps what is pulled whole.
LEMMA PullStep ==
    ASSUME TypeInv, PullInv, NEW c \in Commands, Step(c)
    PROVE  PullInv'
<1>1. CASE Starts(c)
  <2>1. PICK kind \in Kinds, tag \in Tags : Start(c, kind, tag)
    BY <1>1 DEF Starts, StartTemplate, StartLoad, getInterfacesBusybox, PcapHandler, Kinds, Tags
  <2>2. OneStep(c) /\ op' = [op EXCEPT ![c] = op'[c]] /\ op'[c].step = FirstStep[kind]
    BY <2>1, StartFits
  <2>3. ~Busy(op'[c])
    BY <2>2 DEF Busy, Kinds, FirstStep
  <2>4. Others(c) /\ op'[c] \in Op
    BY <2>2, OneMoves DEF OneStep
  <2>5. UNCHANGED <<dirs, suspect>>
    BY <2>1 DEF Start
  <2> QED
    BY <2>3, <2>4, <2>5, PullFrame
<1>2. CASE Pulls(c) \/ Contains(c) \/ Outputs(c) \/ Ends(c)
  <2>1. Quiet(c)
    BY <1>2, SilentSteps
  <2>2. Others(c) /\ op'[c] \in Op
    BY <2>1, OneMoves DEF OneStep, Quiet
  <2> QED
    BY <2>1, <2>2, PullFrame DEF Quiet
<1>3. CASE ReadFile(c) \/ ReadCache(c) \/ Store(c) \/ Fill(c)
  <2>1. OneStep(c) /\ UNCHANGED <<dirs, suspect>> /\ ~Busy(op'[c])
    <3>1. CASE ReadFile(c)
      BY <3>1, ReadDoes, IdleFits DEF Busy, Reads
    <3>2. CASE ReadCache(c)
      BY <3>2, CacheDoes, IdleFits DEF Busy, Reads
    <3>3. CASE Store(c) \/ Fill(c)
      BY <3>3, StoreDoes, IdleFits DEF Busy, Reads
    <3> QED
      BY <1>3, <3>1, <3>2, <3>3
  <2>2. Others(c) /\ op'[c] \in Op
    BY <2>1, OneMoves DEF OneStep
  <2> QED
    BY <2>1, <2>2, PullFrame
<1> QED
  BY <1>1, <1>2, <1>3, PullClear, PullCopy, PullRename, PullVersion, PullSpread, PullSpreadEnd
     DEF Step, Starts, Pulls, Contains, Outputs, Ends

-----------------------------------------------------------------------------
(***************************************************************************)
(* What is loaded is whole.                                                *)
(***************************************************************************)
\* A write that was cut short is not forgotten, and one that was going on is cut short
\* when its command ends.
LEMMA CutStays ==
    ASSUME TypeInv, NEW c \in Commands, Step(c)
    PROVE  /\ cut => cut'
           /\ op[c].step = "fill" => Fill(c) \/ cut'
<1>1. CASE Starts(c)
  <2>1. PICK kind \in Kinds, tag \in Tags : Start(c, kind, tag)
    BY <1>1 DEF Starts, StartTemplate, StartLoad, getInterfacesBusybox, PcapHandler, Kinds, Tags
  <2>2. cut' = cut /\ op[c].step = "idle"
    BY <2>1 DEF Start
  <2> QED
    BY <2>2
<1>2. CASE Pulls(c) \/ Contains(c) \/ WaitAndLogs(c) \/ RemoveContainer(c)
  <2>1. cut' = cut /\ op[c].step # "fill"
    <3>1. CASE Pulls(c)
      BY <3>1 DEF Pulls, PullImage, ResolveImage, At
    <3>2. CASE Contains(c)
      BY <3>2 DEF Contains, CreateTemplate, CreateInclude, CreateRun, CreatePcap, Create, StartUnpacker,
                  StartRun, StartPcap, StartContainer, At
    <3>3. CASE WaitAndLogs(c) \/ RemoveContainer(c)
      BY <3>3 DEF WaitAndLogs, RemoveContainer
    <3> QED
      BY <1>2, <3>1, <3>2, <3>3
  <2> QED
    BY <2>1
<1>4. CASE Fail(c) \/ Kill(c)
  <2>1. cut \in BOOLEAN
    BY DEF TypeInv
  <2>2. CASE Fail(c)
    BY <2>2 DEF Fail
  <2>3. CASE Kill(c)
    BY <2>1, <2>3 DEF Kill
  <2> QED
    BY <1>4, <2>2, <2>3
<1>5. CASE Clear(c) \/ CopyFile(c) \/ Rename(c) \/ ReadVersion(c) \/ SpreadFile(c) \/ SpreadDone(c)
  <2>1. cut' = cut /\ op[c].step # "fill"
    BY <1>5 DEF Clear, CopyFile, Rename, ReadVersion, SpreadFile, SpreadDone, folderOnly, At
  <2> QED
    BY <2>1
<1>6. CASE ReadFile(c) \/ ReadCache(c) \/ Extract(c) \/ Store(c) \/ LoadDone(c) \/ PcapDone(c)
  <2>1. cut' = cut /\ op[c].step # "fill"
    BY <1>6 DEF ReadFile, ReadCache, Extract, Store, LoadDone, PcapDone, At
  <2> QED
    BY <2>1
<1>3. CASE Fill(c)
  BY <1>3 DEF Fill
<1> QED
  BY <1>1, <1>2, <1>3, <1>4, <1>5, <1>6 DEF Step, Starts, Pulls, Contains

\* A load of another command has not changed, or knows that files have.
LEMMA LoadOther ==
    ASSUME TypeInv, NEW c \in Commands, Others(c), cut => cut',
           \/ AllTold(c)
           \/ /\ dirs' = dirs
              /\ Busy(op'[c]) => Busy(op[c])
              /\ op'[c].step = "fill" => op[c].step = "fill",
           NEW b \in Commands \ {c}, LoadInv(b)
    PROVE  LoadInv(b)'
<1> DEFINE o == op[b]
           n == op'[b]
<1>1. /\ n.kind = o.kind /\ n.step = o.step /\ n.tag = o.tag
      /\ n.got = o.got /\ n.todo = o.todo /\ n.over = o.over
      /\ n.clean => o.clean
  BY OthersKeep
<1>2. Reached(n) = Reached(o)
  BY <1>1 DEF Reached
<1> SUFFICES ASSUME n.kind = "load", n.step # "idle", ~n.over
             PROVE  /\ Root \in Reached(n)
                    /\ n.clean =>
                          /\ \A a \in Commands \ {b} : ~Busy(op'[a]) /\ op'[a].step # "fill"
                          /\ \A f \in DOMAIN n.got \ Remote :
                                /\ f \in DOMAIN dirs'[n.tag] /\ n.got[f] = dirs'[n.tag][f]
                                /\ Includes[n.got[f]][f] \subseteq Reached(n)
                          /\ cut' \/ \A f \in DOMAIN n.got \cap Remote : n.got[f] = "whole"
  BY DEF LoadInv, Reached
<1>3. Root \in Reached(n)
  BY <1>1, <1>2 DEF LoadInv
<1>4. CASE AllTold(c)
  BY <1>3, <1>4 DEF AllTold
<1>5. CASE /\ dirs' = dirs
           /\ Busy(op'[c]) => Busy(op[c])
           /\ op'[c].step = "fill" => op[c].step = "fill"
  <2> SUFFICES ASSUME n.clean
               PROVE  /\ \A a \in Commands \ {b} : ~Busy(op'[a]) /\ op'[a].step # "fill"
                      /\ \A f \in DOMAIN n.got \ Remote :
                            /\ f \in DOMAIN dirs'[n.tag] /\ n.got[f] = dirs'[n.tag][f]
                            /\ Includes[n.got[f]][f] \subseteq Reached(n)
                      /\ cut' \/ \A f \in DOMAIN n.got \cap Remote : n.got[f] = "whole"
    BY <1>3
  <2>1. /\ \A a \in Commands \ {b} : ~Busy(op[a]) /\ op[a].step # "fill"
        /\ \A f \in DOMAIN o.got \ Remote :
              /\ f \in DOMAIN dirs[o.tag] /\ o.got[f] = dirs[o.tag][f]
              /\ Includes[o.got[f]][f] \subseteq Reached(o)
        /\ cut \/ \A f \in DOMAIN o.got \cap Remote : o.got[f] = "whole"
    BY <1>1 DEF LoadInv
  <2>2. \A a \in Commands \ {b} : ~Busy(op'[a]) /\ op'[a].step # "fill"
    BY <1>5, <2>1, OthersKeep
  <2> HIDE DEF o, n
  <2> QED
    BY <1>1, <1>2, <1>5, <2>1, <2>2
<1> QED
  BY <1>4, <1>5

\* A load that goes on unchanged, with the files of the template as they were.
LEMMA LoadSame ==
    ASSUME TypeInv, NEW c \in Commands, Others(c), cut => cut', dirs' = dirs,
           SameLoad(op[c], op'[c]), LoadInv(c)
    PROVE  LoadInv(c)'
<1> DEFINE o == op[c]
           n == op'[c]
<1> SUFFICES ASSUME n.kind = "load", n.step # "idle", ~n.over
             PROVE  LoadInv(c)'
  BY DEF LoadInv
<1>1. /\ o.kind = "load" /\ o.step # "idle" /\ ~o.over
      /\ n.tag = o.tag /\ n.got = o.got /\ n.todo = o.todo /\ n.clean = o.clean
      /\ Reached(n) = Reached(o)
  BY DEF SameLoad, Reached
<1>2. Root \in Reached(o)
  BY <1>1 DEF LoadInv
<1>3. ASSUME o.clean
      PROVE  /\ \A a \in Commands \ {c} : ~Busy(op'[a]) /\ op'[a].step # "fill"
             /\ \A f \in DOMAIN o.got \ Remote :
                   /\ f \in DOMAIN dirs[o.tag] /\ o.got[f] = dirs[o.tag][f]
                   /\ Includes[o.got[f]][f] \subseteq Reached(o)
             /\ cut' \/ \A f \in DOMAIN o.got \cap Remote : o.got[f] = "whole"
  <2>1. \A a \in Commands \ {c} : ~Busy(op[a]) /\ op[a].step # "fill"
    BY <1>1, <1>3 DEF LoadInv
  <2>2. \A a \in Commands \ {c} : ~Busy(op'[a]) /\ op'[a].step # "fill"
    BY <2>1, OthersKeep
  <2> QED
    BY <1>1, <1>3, <2>2 DEF LoadInv
<1> QED
  BY <1>1, <1>2, <1>3 DEF LoadInv, Reached

\* A load that has read one part more.
LEMMA LoadReads ==
    ASSUME TypeInv, NEW c \in Commands, LoadInv(c), Others(c), cut => cut', dirs' = dirs,
           op[c].kind = "load", op[c].step # "idle", ~op[c].over,
           NEW f, NEW v, NEW below, Reads(op[c], op'[c], f, v, below),
           IF f \in Remote
           THEN op[c].clean => cut' \/ v = "whole"
           ELSE f \in DOMAIN dirs[op[c].tag] /\ v = dirs[op[c].tag][f] /\ below = Includes[v][f]
    PROVE  LoadInv(c)'
<1> DEFINE o == op[c]
           n == op'[c]
<1>1. CASE n = Idle
  BY <1>1, IdleFits DEF LoadInv
<1>2. CASE /\ n.kind = "load" /\ n.step = "load" /\ ~n.over
           /\ n.tag = o.tag /\ n.clean = o.clean
           /\ n.got = [g \in DOMAIN o.got \cup {f} |-> IF g = f THEN v ELSE o.got[g]]
           /\ Reached(n) = Reached(o) \cup below
  <2>1. Root \in Reached(n)
    BY <1>2 DEF LoadInv
  <2>2. DOMAIN n.got = DOMAIN o.got \cup {f} /\ \A g \in DOMAIN n.got : n.got[g] = IF g = f THEN v ELSE o.got[g]
    <3> HIDE DEF n, o
    <3> QED
      BY <1>2
  <2>3. ASSUME o.clean
        PROVE  /\ \A a \in Commands \ {c} : ~Busy(op'[a]) /\ op'[a].step # "fill"
               /\ \A g \in DOMAIN n.got \ Remote :
                     /\ g \in DOMAIN dirs[n.tag] /\ n.got[g] = dirs[n.tag][g]
                     /\ Includes[n.got[g]][g] \subseteq Reached(n)
               /\ cut' \/ \A g \in DOMAIN n.got \cap Remote : n.got[g] = "whole"
    <3>1. /\ \A a \in Commands \ {c} : ~Busy(op[a]) /\ op[a].step # "fill"
          /\ \A g \in DOMAIN o.got \ Remote :
                /\ g \in DOMAIN dirs[o.tag] /\ o.got[g] = dirs[o.tag][g]
                /\ Includes[o.got[g]][g] \subseteq Reached(o)
          /\ cut \/ \A g \in DOMAIN o.got \cap Remote : o.got[g] = "whole"
      BY <2>3 DEF LoadInv
    <3>2. \A a \in Commands \ {c} : ~Busy(op'[a]) /\ op'[a].step # "fill"
      BY <3>1, OthersKeep
    <3>3. ASSUME NEW g \in DOMAIN n.got \ Remote
          PROVE  /\ g \in DOMAIN dirs[n.tag] /\ n.got[g] = dirs[n.tag][g]
                 /\ Includes[n.got[g]][g] \subseteq Reached(n)
      <4>1. CASE g = f
        <5>1. g \in DOMAIN dirs[o.tag] /\ v = dirs[o.tag][g] /\ below = Includes[v][g] /\ n.got[g] = v
          BY <2>2, <3>3, <4>1
        <5> HIDE DEF n, o
        <5> QED
          BY <1>2, <5>1
      <4>2. CASE g # f
        <5>1. g \in DOMAIN o.got \ Remote /\ n.got[g] = o.got[g]
          BY <2>2, <3>3, <4>2
        <5> HIDE DEF n, o
        <5> QED
          BY <1>2, <3>1, <5>1
      <4> QED
        BY <4>1, <4>2
    <3>4. cut' \/ \A g \in DOMAIN n.got \cap Remote : n.got[g] = "whole"
      BY <2>2, <2>3, <3>1
    <3> QED
      BY <3>2, <3>3, <3>4
  <2> QED
    BY <1>2, <2>1, <2>3 DEF LoadInv, Reached
<1> QED
  BY <1>1, <1>2 DEF Reads

\* What is not a load, or one that ends, has nothing to keep.
LEMMA NoLoad ==
    ASSUME NEW c \in Commands, op'[c].kind # "load" \/ op'[c].step = "idle" \/ op'[c].over
    PROVE  LoadInv(c)'
BY DEF LoadInv

\* A load that is started has read nothing, and is alone if nobody writes.
LEMMA LoadStarts ==
    ASSUME TypeInv, NEW c \in Commands, NEW kind \in Kinds, NEW tag \in Tags, Start(c, kind, tag)
    PROVE  LoadInv(c)'
<1> DEFINE n == op'[c]
<1>1. /\ OneStep(c) /\ op' = [op EXCEPT ![c] = n] /\ n.kind = kind
      /\ n.got = Nothing /\ n.todo = IF kind = "load" THEN {<<Root, 0, Root>>} ELSE {}
      /\ n.clean = ~\E b \in Commands : Writing(b)
  BY StartFits
<1>2. CASE kind # "load"
  BY <1>1, <1>2, NoLoad
<1>3. CASE kind = "load"
  <2>1. DOMAIN n.got = {}
    BY <1>1, NothingIsPartial
  <2>2. Root \in Reached(n)
    <3>1. <<Root, 0, Root>> \in n.todo /\ <<Root, 0, Root>>[1] = Root
      BY <1>1, <1>3
    <3> QED
      BY <3>1 DEF Reached
  <2>3. Others(c)
    BY <1>1, OneMoves DEF OneStep
  <2>4. ASSUME n.clean
        PROVE  \A a \in Commands \ {c} : ~Busy(op'[a]) /\ op'[a].step # "fill"
    <3>1. \A a \in Commands : ~Writing(a)
      BY <1>1, <2>4
    <3>2. \A a \in Commands : ~Busy(op[a]) /\ op[a].step # "fill"
      BY <3>1 DEF Writing, Unpacking, Busy
    <3> QED
      BY <2>3, <3>2, OthersKeep
  <2> QED
    BY <2>1, <2>2, <2>4 DEF LoadInv, Reached
<1> QED
  BY <1>2, <1>3

\* A step keeps what is loaded whole.
LEMMA LoadStep ==
    ASSUME TypeInv, CacheInv, NEW c \in Commands, Step(c), \A b \in Commands : LoadInv(b)
    PROVE  \A b \in Commands : LoadInv(b)'
<1>1. cut => cut'
  BY CutStays
<1>2. ASSUME Others(c), dirs' = dirs, Busy(op'[c]) => Busy(op[c]),
             op'[c].step = "fill" => op[c].step = "fill"
      PROVE  \A b \in Commands \ {c} : LoadInv(b)'
  BY <1>1, <1>2, LoadOther
<1>3. ASSUME Others(c), AllTold(c)
      PROVE  \A b \in Commands \ {c} : LoadInv(b)'
  BY <1>1, <1>3, LoadOther
<1>4. CASE Starts(c)
  <2>1. PICK kind \in Kinds, tag \in Tags : Start(c, kind, tag)
    BY <1>4 DEF Starts, StartTemplate, StartLoad, getInterfacesBusybox, PcapHandler, Kinds, Tags
  <2>2. OneStep(c) /\ op' = [op EXCEPT ![c] = op'[c]] /\ op'[c].step = FirstStep[kind]
    BY <2>1, StartFits
  <2>3. ~Busy(op'[c]) /\ op'[c].step # "fill"
    BY <2>2 DEF Busy, Kinds, FirstStep
  <2>4. Others(c) /\ dirs' = dirs
    BY <2>1, <2>2, OneMoves DEF OneStep, Start
  <2> QED
    BY <1>2, <2>1, <2>3, <2>4, LoadStarts
<1>5. CASE Pulls(c) \/ Contains(c) \/ Outputs(c) \/ Ends(c)
  <2>1. Quiet(c)
    BY <1>5, SilentSteps
  <2>2. Others(c)
    BY <2>1, OneMoves DEF OneStep, Quiet
  <2>3. LoadInv(c)'
    BY <1>1, <2>1, <2>2, LoadSame DEF Quiet
  <2> QED
    BY <1>2, <2>1, <2>2, <2>3 DEF Quiet
<1>6. CASE Clear(c) \/ CopyFile(c) \/ Rename(c) \/ SpreadFile(c)
  <2>1. OneStep(c) /\ Disturb(c, op'[c]) /\ op'[c].kind = "template"
    <3>1. CASE Clear(c)
      BY <3>1, ClearDoes
    <3>2. CASE CopyFile(c)
      BY <3>2, CopyDoes
    <3>3. CASE Rename(c)
      BY <3>3, RenameDoes
    <3>4. CASE SpreadFile(c)
      BY <3>4, SpreadDoes
    <3> QED
      BY <1>6, <3>1, <3>2, <3>3, <3>4
  <2>2. Others(c) /\ AllTold(c)
    BY <2>1, OneMoves DEF OneStep
  <2> QED
    BY <1>3, <2>1, <2>2, NoLoad
<1>7. CASE ReadVersion(c) \/ SpreadDone(c)
  <2>1. /\ OneStep(c) /\ dirs' = dirs /\ Busy(op[c]) /\ op'[c].kind = "template" /\ op'[c].step # "fill"
    <3>1. CASE ReadVersion(c)
      BY <3>1, VersionDoes, IdleFits DEF Busy
    <3>2. CASE SpreadDone(c)
      BY <3>2, SpreadEnds, IdleFits DEF Busy
    <3> QED
      BY <1>7, <3>1, <3>2
  <2>2. Others(c)
    BY <2>1, OneMoves DEF OneStep
  <2> QED
    BY <1>2, <2>1, <2>2, NoLoad
<1>8. CASE ReadFile(c)
  <2>1. /\ OneStep(c) /\ op' = [op EXCEPT ![c] = op'[c]] /\ dirs' = dirs
        /\ op[c].kind = "load" /\ op[c].step = "load" /\ ~op[c].over
        /\ \/ op'[c] = Idle
           \/ \E f \in DOMAIN dirs[op[c].tag] \ Remote :
                 Reads(op[c], op'[c], f, dirs[op[c].tag][f], Includes[dirs[op[c].tag][f]][f])
    BY <1>8, ReadDoes
  <2>2. Others(c)
    BY <2>1, OneMoves DEF OneStep
  <2>3. ~Busy(op'[c]) /\ op'[c].step # "fill"
    BY <2>1, IdleFits DEF Reads, Busy
  <2>4. LoadInv(c)'
    <3>1. CASE op'[c] = Idle
      BY <3>1, IdleFits, NoLoad
    <3>2. CASE op'[c] # Idle
      <4>1. PICK f \in DOMAIN dirs[op[c].tag] \ Remote :
               Reads(op[c], op'[c], f, dirs[op[c].tag][f], Includes[dirs[op[c].tag][f]][f])
        BY <2>1, <3>2
      <4> DEFINE v == dirs[op[c].tag][f]
                 below == Includes[v][f]
      <4>2. Reads(op[c], op'[c], f, v, below)
        BY <4>1
      <4>3. f \notin Remote /\ f \in DOMAIN dirs[op[c].tag] /\ v = dirs[op[c].tag][f] /\ below = Includes[v][f]
        BY <4>1
      <4>4. op[c].step # "idle"
        BY <2>1
      <4> HIDE DEF v, below
      <4> QED
        BY <1>1, <2>1, <2>2, <4>2, <4>3, <4>4, LoadReads
    <3> QED
      BY <3>1, <3>2
  <2> QED
    BY <1>2, <2>1, <2>2, <2>3, <2>4
<1>9. CASE ReadCache(c)
  <2>1. /\ OneStep(c) /\ op' = [op EXCEPT ![c] = op'[c]] /\ dirs' = dirs /\ cut' = cut
        /\ op[c].kind = "load" /\ op[c].step = "load" /\ ~op[c].over
        /\ \/ op'[c] = Idle
           \/ SameLoad(op[c], op'[c]) /\ op'[c].kind = "load" /\ op'[c].step = "pull"
           \/ \E f \in Remote : cache[f] \in {Empty, "whole"} /\ Reads(op[c], op'[c], f, cache[f], {})
    BY <1>9, CacheDoes
  <2>2. Others(c)
    BY <2>1, OneMoves DEF OneStep
  <2>3. ~Busy(op'[c]) /\ op'[c].step # "fill"
    BY <2>1, IdleFits DEF Reads, Busy
  <2>4. LoadInv(c)'
    <3>1. CASE op'[c] = Idle
      BY <3>1, IdleFits, NoLoad
    <3>2. CASE SameLoad(op[c], op'[c])
      BY <1>1, <2>1, <2>2, <3>2, LoadSame
    <3>3. CASE \E f \in Remote : cache[f] \in {Empty, "whole"} /\ Reads(op[c], op'[c], f, cache[f], {})
      <4>1. PICK f \in Remote : cache[f] \in {Empty, "whole"} /\ Reads(op[c], op'[c], f, cache[f], {})
        BY <3>3
      <4>2. op[c].clean => cut' \/ cache[f] = "whole"
        <5> SUFFICES ASSUME op[c].clean, cache[f] = Empty
                     PROVE  cut'
          BY <4>1
        <5>1. \A a \in Commands \ {c} : op[a].step # "fill"
          BY <2>1 DEF LoadInv
        <5> QED
          BY <1>1, <2>1, <4>1, <5>1 DEF CacheInv
      <4> DEFINE v == cache[f]
                 below == {}
      <4>3. Reads(op[c], op'[c], f, v, below) /\ (op[c].clean => cut' \/ v = "whole") /\ op[c].step # "idle"
        BY <2>1, <4>1, <4>2
      <4> HIDE DEF v, below
      <4> QED
        BY <1>1, <2>1, <2>2, <4>1, <4>3, LoadReads
    <3> QED
      BY <2>1, <3>1, <3>2, <3>3
  <2> QED
    BY <1>2, <2>1, <2>2, <2>3, <2>4
<1>10. CASE Store(c) \/ Fill(c)
  <2>1. /\ OneStep(c) /\ dirs' = dirs
        /\ op[c].kind = "load" /\ op[c].step \in {"store", "fill"} /\ ~op[c].over /\ op[c].file[1] \in Remote
        /\ \/ Disturb(c, op'[c]) /\ SameLoad(op[c], op'[c])
           \/ op' = [op EXCEPT ![c] = op'[c]] /\ Reads(op[c], op'[c], op[c].file[1], "whole", {})
    BY <1>10, StoreDoes
  <2>2. CASE Disturb(c, op'[c]) /\ SameLoad(op[c], op'[c])
    <3>1. Others(c) /\ AllTold(c)
      BY <2>1, <2>2, OneMoves DEF OneStep
    <3> QED
      BY <1>1, <1>3, <2>1, <2>2, <3>1, LoadSame
  <2>3. CASE op' = [op EXCEPT ![c] = op'[c]] /\ Reads(op[c], op'[c], op[c].file[1], "whole", {})
    <3>1. Others(c)
      BY <2>1, OneMoves DEF OneStep
    <3>2. ~Busy(op'[c]) /\ op'[c].step # "fill"
      BY <2>3, IdleFits DEF Reads, Busy
    <3> DEFINE f == op[c].file[1]
               v == "whole"
               below == {}
    <3>3. Reads(op[c], op'[c], f, v, below) /\ f \in Remote /\ v = "whole" /\ op[c].step # "idle"
      BY <2>1, <2>3
    <3> HIDE DEF f, v, below
    <3>4. LoadInv(c)'
      BY <1>1, <2>1, <3>1, <3>3, LoadReads
    <3> QED
      BY <1>2, <2>1, <3>1, <3>2, <3>4
  <2> QED
    BY <2>1, <2>2, <2>3
<1> QED
  BY <1>4, <1>5, <1>6, <1>7, <1>8, <1>9, <1>10 DEF Step, Starts, Pulls, Contains, Outputs, Ends

\* A step keeps the cache: an empty file is being filled, or that was cut short.
LEMMA CacheStep ==
    ASSUME TypeInv, CacheInv, NEW c \in Commands, Step(c)
    PROVE  CacheInv'
<1> DEFINE Filling(f) == \E b \in Commands : op[b].kind = "load" /\ op[b].step = "fill" /\ op[b].file[1] = f
<1> SUFFICES ASSUME ~cut', NEW f \in Remote, cache'[f] = Empty
             PROVE  Filling(f)'
  BY DEF CacheInv
<1>1. ~cut /\ (op[c].step = "fill" => Fill(c))
  BY CutStays
<1>2. Others(c)
  <2>1. CASE Starts(c)
    <3>1. PICK kind \in Kinds, tag \in Tags : Start(c, kind, tag)
      BY <2>1 DEF Starts, StartTemplate, StartLoad, getInterfacesBusybox, PcapHandler, Kinds, Tags
    <3> QED
      BY <3>1, StartFits, OneMoves DEF OneStep
  <2>2. CASE Pulls(c) \/ Contains(c) \/ Outputs(c) \/ Ends(c)
    BY <2>2, SilentSteps, OneMoves DEF OneStep, Quiet
  <2>3. CASE Clear(c) \/ CopyFile(c) \/ Rename(c) \/ ReadVersion(c) \/ SpreadFile(c) \/ SpreadDone(c)
    <3>1. OneStep(c)
      BY <2>3, ClearDoes, CopyDoes, RenameDoes, VersionDoes, SpreadDoes, SpreadEnds
    <3> QED
      BY <3>1, OneMoves DEF OneStep
  <2>4. CASE ReadFile(c) \/ ReadCache(c) \/ Store(c) \/ Fill(c)
    <3>1. OneStep(c)
      BY <2>4, ReadDoes, CacheDoes, StoreDoes
    <3> QED
      BY <3>1, OneMoves DEF OneStep
  <2> QED
    BY <2>1, <2>2, <2>3, <2>4 DEF Step, Starts, Pulls, Contains, Outputs, Ends
<1>3. ASSUME cache[f] = Empty, op[c].step # "fill"
      PROVE  Filling(f)'
  <2>1. PICK b \in Commands : op[b].kind = "load" /\ op[b].step = "fill" /\ op[b].file[1] = f
    BY <1>1, <1>3 DEF CacheInv
  <2>2. op'[b].kind = "load" /\ op'[b].step = "fill" /\ op'[b].file = op[b].file
    BY <1>2, <1>3, <2>1, OthersKeep
  <2> QED
    BY <2>1, <2>2
<1>4. CASE Store(c) \/ Fill(c)
  <2>1. \/ /\ op'[c].kind = "load" /\ op'[c].step = "fill" /\ op'[c].file = op[c].file
           /\ cache' = [cache EXCEPT ![op[c].file[1]] = Empty]
        \/ cache' = cache /\ op[c].step = "store"
        \/ cache' = [cache EXCEPT ![op[c].file[1]] = "whole"]
    BY <1>4, StoreDoes
  <2>2. /\ cache \in [Remote -> {None, Empty, "whole"}] /\ Empty # "whole"
        /\ op[c].kind = "load"
    BY <1>4, StoreDoes, TemplatesAssumption DEF TypeInv
  <2>3. CASE f = op[c].file[1]
    <3>1. CASE op'[c].kind = "load" /\ op'[c].step = "fill" /\ op'[c].file = op[c].file
      BY <2>3, <3>1
    <3>2. CASE cache' = cache /\ op[c].step = "store"
      BY <1>3, <3>2
    <3>3. CASE cache' = [cache EXCEPT ![op[c].file[1]] = "whole"]
      BY <2>2, <2>3, <3>3
    <3> QED
      BY <2>1, <3>1, <3>2, <3>3
  <2>4. CASE f # op[c].file[1]
    <3>1. cache[f] = Empty
      BY <2>1, <2>2, <2>4
    <3>2. PICK b \in Commands : op[b].kind = "load" /\ op[b].step = "fill" /\ op[b].file[1] = f
      BY <1>1, <3>1 DEF CacheInv
    <3>3. b # c
      BY <2>4, <3>2
    <3> QED
      BY <1>2, <3>2, <3>3, OthersKeep
  <2> QED
    BY <2>3, <2>4
<1>5. CASE ~(Store(c) \/ Fill(c))
  <2>1. cache' = cache
    <3>1. CASE Starts(c)
      <4>1. PICK kind \in Kinds, tag \in Tags : Start(c, kind, tag)
        BY <3>1 DEF Starts, StartTemplate, StartLoad, getInterfacesBusybox, PcapHandler, Kinds, Tags
      <4> QED
        BY <4>1 DEF Start
    <3>2. CASE Pulls(c) \/ Contains(c) \/ Outputs(c) \/ Ends(c)
      BY <3>2, SilentSteps DEF Quiet
    <3>3. CASE Clear(c) \/ CopyFile(c) \/ Rename(c) \/ ReadVersion(c) \/ SpreadFile(c) \/ SpreadDone(c)
      BY <3>3 DEF Clear, CopyFile, Rename, ReadVersion, SpreadFile, SpreadDone, folderOnly
    <3>4. CASE ReadFile(c) \/ ReadCache(c)
      BY <3>4, ReadDoes, CacheDoes
    <3> QED
      BY <1>5, <3>1, <3>2, <3>3, <3>4 DEF Step, Starts, Pulls, Contains, Outputs, Ends
  <2> QED
    BY <1>1, <1>3, <1>5, <2>1
<1> QED
  BY <1>4, <1>5

-----------------------------------------------------------------------------
(***************************************************************************)
(* The theorems.                                                           *)
(***************************************************************************)
\* Nothing is pulled at first.
LEMMA InitInv ==
    Init => IInv
<1> SUFFICES ASSUME Init
             PROVE  IInv
  OBVIOUS
<1>1. Idle \in Op /\ Fits(Idle) /\ Idle.step = "idle"
  BY IdleFits
<1>2. Nothing \in Partial(Files, Versions) /\ DOMAIN Nothing = {}
  BY NothingIsPartial
<1>3. \A c \in Commands : op[c] = Idle
  BY DEF Init
<1>4. TypeInv
  <2>1. DirsInv
    BY <1>2 DEF Init, DirsInv, Dirs
  <2>2. images \in [Tags -> Versions \cup {None}] /\ \A v \in Versions : images[v] \in {v, None}
    BY DEF Init, Tags
  <2>3. op \in [Commands -> Op] /\ \A c \in Commands : Fits(op[c])
    BY <1>1 DEF Init
  <2> QED
    BY <2>1, <2>2, <2>3, TemplatesAssumption DEF Init, TypeInv
<1>5. PullInv
  BY <1>1, <1>3 DEF Init, PullInv, PulledIsWhole, Busy, Dirs
<1>6. \A c \in Commands : LoadInv(c)
  BY <1>1, <1>3 DEF LoadInv
<1>7. CacheInv /\ LeftoversHaveCause
  BY TemplatesAssumption DEF Init, CacheInv, LeftoversHaveCause
<1> QED
  BY <1>4, <1>5, <1>6, <1>7 DEF IInv

\* Every step keeps what is pulled and what is loaded whole.
LEMMA NextInv ==
    IInv /\ [Next]_vars => IInv'
<1> SUFFICES ASSUME IInv, [Next]_vars
             PROVE  IInv'
  OBVIOUS
<1> USE DEF IInv
<1>1. ASSUME UNCHANGED <<images, dirs, cache, op, jobs, orphan, suspect, cut>>, published' \in Versions
      PROVE  IInv'
  <2>1. TypeInv'
    BY <1>1 DEF TypeInv, DirsInv
  <2>2. PullInv'
    <3>1. op' = op /\ dirs' = dirs /\ suspect' = suspect
      BY <1>1
    <3>2. PulledIsWhole'
      BY <3>1 DEF PullInv, PulledIsWhole
    <3>3. ASSUME NEW c \in Commands, Undisturbed(op[c])
          PROVE  Undisturbed(op[c])'
      BY <3>1, <3>3 DEF Undisturbed
    <3> QED
      BY <3>1, <3>2, <3>3 DEF PullInv
  <2>3. \A c \in Commands : LoadInv(c)'
    BY <1>1 DEF LoadInv
  <2>4. CacheInv' /\ LeftoversHaveCause'
    BY <1>1 DEF CacheInv, LeftoversHaveCause
  <2> QED
    BY <2>1, <2>2, <2>3, <2>4
<1>2. CASE UNCHANGED vars \/ Publish
  <2>1. published \in Versions
    BY DEF TypeInv
  <2> QED
    BY <1>1, <1>2, <2>1 DEF vars, Publish
<1>3. ASSUME NEW c \in Commands, Step(c)
      PROVE  IInv'
  BY <1>3, TypeStep, PullStep, LoadStep, CacheStep, LeftoversStep
<1> QED
  BY <1>2, <1>3 DEF Next

\* The invariant of the templates: a pull that was alone has written what its step says,
\* a load that was alone has read what lies in the directory.
THEOREM TemplatesInvariant == Spec => []IInv
<1> QED
  BY InitInv, NextInv, PTL DEF Spec

\* A template directory holds one version and all its files at every moment, whatever
\* pulls remove, rename, fail half way or are killed, unless two of them overlapped,
\* leftovers in data/ were taken over or the copy to the version is not finished.
THEOREM PulledStaysWhole == Spec => []PulledIsWhole
<1>1. IInv => PulledIsWhole
  BY DEF IInv, PullInv
<1> QED
  BY <1>1, TemplatesInvariant, PTL

\* A load that ends well, and during which no file was written, has read everything that
\* what it read includes, of one version, and no remote include without its content
\* unless a write to the cache was cut short.
THEOREM LoadedIsWhole == Spec => []LoadIsWhole
<1>1. IInv => LoadIsWhole
  <2> SUFFICES ASSUME IInv, NEW c \in Commands, At(c, {"load"}, "load"), op[c].todo = {}, op[c].clean,
                      op[c].tag \notin suspect
               PROVE  LET o == op[c]
                          local == DOMAIN o.got \ Remote
                      IN  /\ \A f \in local : o.got[f] = o.got[Root]
                          /\ \A f \in local : Includes[o.got[f]][f] \subseteq DOMAIN o.got
                          /\ cut \/ \A f \in DOMAIN o.got \ local : o.got[f] = "whole"
    BY DEF LoadIsWhole
  <2> DEFINE o == op[c]
             local == DOMAIN o.got \ Remote
  <2>1. o \in Op /\ Fits(o) /\ o.kind = "load" /\ o.step = "load" /\ ~o.over /\ o.tag \in Tags
    BY DEF IInv, TypeInv, Fits, At, Op
  <2>2. Reached(o) = DOMAIN o.got
    BY DEF Reached
  <2>3. /\ Root \in DOMAIN o.got
        /\ \A f \in local : /\ f \in DOMAIN dirs[o.tag] /\ o.got[f] = dirs[o.tag][f]
                            /\ Includes[o.got[f]][f] \subseteq DOMAIN o.got
        /\ cut \/ \A f \in DOMAIN o.got \cap Remote : o.got[f] = "whole"
    BY <2>1, <2>2 DEF IInv, LoadInv
  <2>4. Root \in local
    BY <2>3, FilesOf, TemplatesAssumption
  <2>5. PICK v \in Versions : dirs[o.tag] = Image(v)
    <3>1. dirs[o.tag] # Nothing
      BY <2>3, <2>4, NothingIsPartial
    <3> QED
      BY <2>1, <3>1 DEF IInv, PullInv, PulledIsWhole
  <2>6. \A f \in local : o.got[f] = v
    BY <2>3, <2>5, ImageIs
  <2> QED
    BY <2>3, <2>4, <2>6
<1> QED
  BY <1>1, TemplatesInvariant, PTL

\* No command leaves a container behind but one that failed to start or to be removed,
\* or that was run for its output and failed before that was read.
THEOREM LeftoversAlwaysHaveCause == Spec => []LeftoversHaveCause
<1>1. IInv => LeftoversHaveCause
  BY DEF IInv
<1> QED
  BY <1>1, TemplatesInvariant, PTL
=============================================================================
