------------------------- MODULE MCTemplateRegistry --------------------------
(* Two versions: v1 has one local include more, which includes the remote one. *)
EXTENDS TemplateRegistry, TLC

MCVersions == {"v1", "v2"}
MCDataOf   == [v \in MCVersions |-> IF v = "v1" THEN {"config.yaml", "more.yaml", "version"}
                                               ELSE {"config.yaml", "version"}]
MCSbinOf   == [v \in MCVersions |-> IF v = "v1" THEN {"pre-run"} ELSE {}]
MCRemote   == {"host/image:1/common.yaml"}
MCIncludes ==
    [v \in MCVersions |-> [f \in MCDataOf[v] |->
        CASE f = "version" -> {}
          [] f = "config.yaml" -> IF v = "v1" THEN {"more.yaml"} ELSE MCRemote
          [] f = "more.yaml" -> MCRemote]]
MCSymmetry == Permutations(Commands)
=============================================================================
