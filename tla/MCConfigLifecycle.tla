-------------------------- MODULE MCConfigLifecycle ---------------------------
(* Two versions of a template with a switch, a plain key and a key below the  *)
(* switch; one more such key and one that is arbitrary in v1 come with v2.    *)
EXTENDS ConfigLifecycle

MCKeys     == {"opt", "opt.child", "opt.port", "plain", "extra"}
MCBelow    == [k \in MCKeys |-> IF k = "opt" THEN {"opt.child", "opt.port"} ELSE {}]
MCStrings  == {"a", "b", "x"}
MCVersions == {"v1", "v2"}

MCTemplate(params, string, switch, plain) ==
    [params  |-> params,
     choices |-> [k \in MCKeys |-> IF k = "plain" THEN plain ELSE {}],
     type    |-> [k \in MCKeys |-> IF k = "opt" THEN "optional" ELSE "string"],
     default |-> [k \in MCKeys |-> IF k = "opt" THEN switch ELSE string]]

MCPublished ==
    [v \in MCVersions |-> IF v = "v1" THEN MCTemplate(MCKeys \ {"opt.port", "extra"}, "a", "true", {})
                                      ELSE MCTemplate(MCKeys, "b", "true", {"b"})]
MCPublishedOff ==
    [v \in MCVersions |-> MCTemplate(MCKeys \ {"opt.port", "extra"}, "a", "false", {})]

MCArgs(f) == [k \in MCKeys |-> IF k \in DOMAIN f THEN f[k] ELSE Nil]

\* No command switches on explicitly and sets an arbitrary key below.
MCInputs ==
    { MCArgs(<<>>),
      MCArgs([k \in {"extra"} |-> "x"]),
      MCArgs([k \in {"opt"} |-> "false"]),
      MCArgs([k \in {"opt", "plain"} |-> "x"]),
      MCArgs([k \in {"opt", "opt.child"} |-> IF k = "opt" THEN "true" ELSE "b"]) }

MCAnswers == {[k \in MCKeys |-> "b"]}

\* The switch is off by default and a user switches it on.
MCInputsOff == {MCArgs(<<>>), MCArgs([k \in {"opt"} |-> "true"])}
=============================================================================
