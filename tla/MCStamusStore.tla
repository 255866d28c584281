---------------------------- MODULE MCStamusStore ----------------------------
(* In the working directory, ./config is the folder that the CLI's --config    *)
(* config leads to; another of that name lies among all configurations.        *)
EXTENDS StamusStore

CONSTANTS l1

MCNames   == {"config", "/cwd/config", "/configs/config", "/cwd/configs/config"}
MCFolders == {"cwd", "configs", "nowhere"}
MCHome   == [n \in Names |-> CASE n = "/configs/config" -> "configs"
                             [] n = "/cwd/configs/config" -> "nowhere"
                             [] OTHER -> "cwd"]
MCStored == [n \in Names |-> IF n \in {"config", "/configs/config"} THEN "configs" ELSE NoFolder]

\* By the CLI, of a relative name; and by the daemon, which takes a name from there.
MCInits  == {<<"config", "/cwd/config">>, <<"/configs/config", "/configs/config">>}
MCClears == {"config", "/cwd/config", "/configs/config"}

\* By the CLI, of an absolute name.
MCInitsAbsolute == {<<"/configs/config", "/cwd/configs/config">>}

\* Entries of different lengths, so that a text may be longer than the next.
MCSize == [doc \in SUBSET (Names \cup {l1}) |->
             1 + (IF "/cwd/config" \in doc THEN 2 ELSE 0) + (IF "/configs/config" \in doc THEN 3 ELSE 0)
               + (IF l1 \in doc THEN 1 ELSE 0)]

MCRoles == [p \in {"p1", "p2"} |-> IF p = "p1" THEN {"init", "clear"}
                                             ELSE {"login", "list", "pull"}]
=============================================================================
