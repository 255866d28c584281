---------------------------- MODULE MCCliProcess -----------------------------
(* The CLI in a working directory below the folder of all configurations, so   *)
(* that what clear deletes depends on how the configuration is named.          *)
EXTENDS StamusStore, CliProcess

CONSTANTS l1

MCNames   == {"config", "/configs/lab/config"}
MCFolders == {"lab", "configs"}
MCHome    == [n \in Names |-> "lab"]
MCStored  == [n \in Names |-> IF n = "config" THEN "configs" ELSE "lab"]
MCInits   == {<<"config", "/configs/lab/config">>}

\* Entries of different lengths, so that a text may be longer than the next.
MCSize == [doc \in SUBSET (Names \cup {l1}) |->
             1 + (IF "/configs/lab/config" \in doc THEN 2 ELSE 0) + (IF l1 \in doc THEN 1 ELSE 0)]

MCRoles == [p \in {"p1", "p2"} |-> IF p = "p1" THEN {"init", "clear"}
                                             ELSE {"login", "list", "pull"}]
=============================================================================
