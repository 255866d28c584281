--------------------------- MODULE MCNixLifecycle ----------------------------
(* Two versions of a template with one parameter, whose default changes;       *)
(* nobody answers a prompt.                                                    *)
EXTENDS NixLifecycle, TLC

MCKeys      == {"plain"}
MCBelow     == [k \in MCKeys |-> {}]
MCStrings   == {"a", "b"}
MCVersions  == {"v1", "v2"}
MCPublished ==
    [v \in MCVersions |-> [params  |-> MCKeys,
                           type    |-> [k \in MCKeys |-> "string"],
                           choices |-> [k \in MCKeys |-> {}],
                           default |-> [k \in MCKeys |-> IF v = "v1" THEN "a" ELSE "b"]]]
MCInputs    == {[k \in MCKeys |-> Nil]}
MCAnswers   == {}
MCSymmetry  == Permutations(Terminals)
=============================================================================
