--------------------------- MODULE ConfigParameters ---------------------------
(***************************************************************************)
(* internal/models: the parameters of a configuration between values.yaml, *)
(* where the user's choices are, and the template, which declares types    *)
(* and defaults.  An "optional" parameter is a switch: when it is off, the *)
(* parameters below it do not exist; when it is on, it is itself not       *)
(* recorded, only what is below it.                                        *)
(*                                                                         *)
(* Keys are compared in two ways, which differ on "db" and "dbexternal":   *)
(* Prefixed[k] are the keys whose text begins with k, Below[k] those that  *)
(* begin with k and a dot.  A string may be limited to choices; what else  *)
(* ValidateFunc may refuse, lists of choices and int parameters, which     *)
(* differ from strings in one more error, are left out.                    *)
(***************************************************************************)
EXTENDS FiniteSets

CONSTANTS Keys,      \* dotted names
          Below,     \* for each key those under it
          Prefixed,  \* for each key those it is a prefix of
          Strings,   \* values other than "true" and "false"
          Nil        \* no value

Values  == {"true", "false"} \cup Strings
Types   == {"string", "bool", "optional"}
Partial == [Keys -> Values \cup {Nil}]

\* The config.yaml of a template with its includes, as ExtractParams reads it.
Templates == [params : SUBSET Keys, type : [Keys -> Types], default : [Keys -> Values],
              choices : [Keys -> SUBSET Strings]]

ASSUME KeysAssumption ==
    /\ Nil \notin Values
    /\ Below \in [Keys -> SUBSET Keys]
    /\ Prefixed \in [Keys -> SUBSET Keys]
    /\ \A k \in Keys : k \notin Prefixed[k] /\ Below[k] \subseteq Prefixed[k]
    /\ \A k \in Keys : \A j \in Prefixed[k] : Prefixed[j] \subseteq Prefixed[k]
    /\ \A k \in Keys : \A j \in Below[k] : Below[j] \subseteq Below[k]

\* values that override others where they are set
Override(f, g) == [k \in Keys |-> IF g[k] # Nil THEN g[k] ELSE f[k]]

-----------------------------------------------------------------------------
(***************************************************************************)
(* Parameters: tpl is the template they were extracted from, live the keys *)
(* that are still in the map, var the Variable of each.                    *)
(***************************************************************************)
ExtractParams(t) == [tpl |-> t, live |-> t.params, var |-> [k \in Keys |-> Nil]]

Type(p, k)     == p.tpl.type[k]
Default(p, k)  == p.tpl.default[k]
GetChoices(p, k) == p.tpl.choices[k]
Optionals(p)   == {k \in p.live : Type(p, k) = "optional"}

\* A Variable read from a file holds the value as a string, a bool and an int.
AsType(type, v) == IF type = "string" \/ v = "true" THEN v ELSE "false"

Assign(p, f) == [p EXCEPT !.var = [k \in Keys |-> IF k \in p.live /\ f[k] # Nil
                                                  THEN f[k] ELSE @[k]]]

SetValues(p, values) == Assign(p, values)

\* A switch or bool takes nothing but "true" and "false".
Accepts(type, v) == type = "string" \/ v \in {"true", "false"}

SetLooseValues(p, args) ==
    Assign(p, [k \in Keys |-> IF args[k] # Nil /\ Accepts(Type(p, k), args[k])
                              THEN args[k] ELSE Nil])

\* Mutant: compares with the default of the new template.
SetValuesSmartMergeNew(p, old) ==
    Assign(p, [k \in Keys |-> IF k \in old.live /\ old.var[k] # Default(p, k)
                              THEN old.var[k] ELSE Nil])

\* Only what differs from the default it was chosen against is carried over.
SetValuesSmartMerge(p, old) ==
    Assign(p, [k \in Keys |-> IF k \in old.live /\ old.var[k] # Default(old, k)
                              THEN old.var[k] ELSE Nil])

GetValue(p, k) == IF p.var[k] = Nil THEN Default(p, k) ELSE AsType(Type(p, k), p.var[k])

SwitchedOff(p) == {k \in Optionals(p) : GetValue(p, k) = "false"}

\* Mutant: every switch is deleted, those that are off as well.
ProcessOptionnalParamsForgets(p) ==
    [p EXCEPT !.live = @ \ ((UNION {Prefixed[k] : k \in SwitchedOff(p)}) \cup Optionals(p)),
              !.var  = [k \in Keys |-> IF k \in Optionals(p) /\ @[k] = Nil
                                       THEN Default(p, k) ELSE @[k]]]

\* The loop over the switches, shortest first, in closed form: what begins with
\* the name of one that is off is deleted, and so are those that are on.
ProcessOptionnalParams(p) ==
    [p EXCEPT !.live = @ \ ((UNION {Prefixed[k] : k \in SwitchedOff(p)})
                              \cup (Optionals(p) \ SwitchedOff(p))),
              !.var  = [k \in Keys |-> IF k \in Optionals(p) /\ @[k] = Nil
                                       THEN Default(p, k) ELSE @[k]]]

SetToDefaults(p) ==
    LET q == ProcessOptionnalParams(p)
    IN  Assign(q, [k \in Keys |-> IF k \in q.live /\ q.var[k] = Nil
                                  THEN Default(q, k) ELSE Nil])

\* None, or one of the choices where there are any.
Allows(p, k, v) == GetChoices(p, k) = {} \/ v \in GetChoices(p, k)

IsValid(p, k) == p.var[k] # Nil /\ Allows(p, k, p.var[k])

ValidateAll(p) == \A k \in p.live : IsValid(p, k)

\* On a terminal the user is asked for what has no value yet, but for no switch;
\* a prompt takes nothing that is not valid.
Missed(p) == {k \in p.live : Type(p, k) # "optional" /\ p.var[k] = Nil}

AskUser(p, k, answer) == Accepts(Type(p, k), answer) /\ Allows(p, k, answer)

Answered(p, answers) == [k \in Keys |-> IF k \in Missed(ProcessOptionnalParams(p))
                                        THEN answers[k] ELSE Nil]

AskMissing(p, answers) == Assign(ProcessOptionnalParams(p), Answered(p, answers))

-----------------------------------------------------------------------------
(***************************************************************************)
(* Saving.  arb are the arbitrary values: those of the command line and,   *)
(* unless reloaded, everything that was in values.yaml.                    *)
(***************************************************************************)
\* Mutant: what is below a switch that is off is not filtered.
KeptArbitraryAll(p, arb) == arb

\* disabledOptionalPrefixes, isChildOfDisabledOptional.
KeptArbitrary(p, arb) ==
    [k \in Keys |-> IF \E j \in SwitchedOff(p) : k \in Below[j] THEN Nil ELSE arb[k]]

Present(f)    == {k \in Keys : f[k] # Nil}
Related(j, k) == j \in Below[k] \/ k \in Below[j]

Flat(p, arb) == [k \in Keys |-> IF k \in p.live THEN GetValue(p, k)
                                ELSE KeptArbitrary(p, arb)[k]]

\* What the templates are given: nestMap prefers the keys below to the value.
GetData(p, arb) ==
    [k \in Keys |-> IF \E j \in Present(Flat(p, arb)) : j \in Below[k]
                    THEN Nil ELSE Flat(p, arb)[k]]

\* viper.Set replaces a value by a map of the keys below it, and the reverse;
\* the values are set in the random order of a Go map.
Outcomes(S) ==
    {R \in SUBSET S :
        /\ \A j, k \in R : ~Related(j, k)
        /\ \A j \in S \ R : \E k \in S : \E r \in R :
              {j, r} \subseteq Below[k] \cup {k} /\ (j = k \/ Related(j, k))}

\* saveParamsTo: the arbitrary values first, then the parameters.
Recorded(p, arb) ==
    LET kept == KeptArbitrary(p, arb)
        under == Present(kept) \ p.live
    IN  { [k \in Keys |-> CASE k \in P -> GetValue(p, k)
                            [] k \in A /\ (\A j \in p.live : ~Related(j, k)) -> kept[k]
                            [] OTHER -> Nil] :
          A \in Outcomes(under), P \in Outcomes(p.live) }
=============================================================================
