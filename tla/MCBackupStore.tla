---------------------------- MODULE MCBackupStore ----------------------------
EXTENDS BackupStore, TLC

CONSTANTS p1, p2, values, extra, v1, v2

\* Two configurations: one file differs, and one exists in the second only.
MCContents == {[f \in {values, extra} |-> IF f = values THEN v1 ELSE Absent],
               [f \in {values, extra} |-> IF f = values THEN v2 ELSE v1]}

\* One user at a terminal.
OneUser == p1 :> Commands

\* A user, and another who deletes backups meanwhile.
UserAndDeleter == p1 :> Commands @@ p2 :> {"delete"}
=============================================================================
