---------------------------- MODULE ConfigLoader ----------------------------
(***************************************************************************)
(* internal/config/loader.go, types.go, validation.go: LoadWithPriority.   *)
(* The configuration starts from the defaults, each source's partial one   *)
(* is merged over it, and the result is validated.                         *)
(*                                                                         *)
(* One field of each kind stands for its kind: environment (a string that  *)
(* validation depends on), interval (a number, in seconds), experimental   *)
(* and webhooks (feature flags off and on by default), leader (the boolean *)
(* Operator.LeaderElection), custom (one custom flag).                     *)
(***************************************************************************)
EXTENDS Integers, FiniteSets

CONSTANT MaxSaid  \* bound: the fields that one source speaks of

ASSUME LoaderAssumption == MaxSaid \in Nat

VARIABLES
    stage,    \* the source LoadWithPriority is at, then how it ended
    said,     \* what each source said
    config,   \* the configuration so far
    sources   \* the source recorded for each field

vars == <<stage, said, config, sources>>

\* In order of rising priority.
Order == <<"default", "file", "secret", "configmap", "env">>
Rank(s) == CHOOSE i \in DOMAIN Order : Order[i] = s
Sources == {"file", "secret", "configmap", "env"}
After(s) == IF s = "env" THEN "validate" ELSE Order[Rank(s) + 1]

Scalars == {"environment", "interval", "custom"}
Fields  == Scalars \cup {"experimental", "webhooks", "leader"}

\* Go's zero values, also what stands for an absent or unparsable value.
Zero == [environment |-> "", interval |-> 0, custom |-> "unset",
         experimental |-> FALSE, webhooks |-> FALSE, leader |-> FALSE]

NewConfig == [environment |-> "production", interval |-> 300, custom |-> "unset",
              experimental |-> FALSE, webhooks |-> TRUE, leader |-> TRUE]

Config == [environment : {"", "production", "development"}, interval : {0, 10, 300},
           custom : {"unset", "true", "false"},
           experimental : BOOLEAN, webhooks : BOOLEAN, leader : BOOLEAN]

NonZero(c) == {f \in Fields : c[f] # Zero[f]}

\* What a source can say: values for some fields, explicit zeros among them.
Statements ==
    {[of |-> S, config |-> c] : S \in {T \in SUBSET Fields : Cardinality(T) <= MaxSaid}, c \in Config}

Statement(st) == /\ NonZero(st.config) \subseteq st.of
                 /\ "custom" \in st.of => st.config.custom # "unset"

\* Environment variables: no custom flags, and an empty string counts as unset.
InEnvironment(st) == /\ "custom" \notin st.of
                     /\ "environment" \in st.of => st.config.environment # ""

Said == {st \in Statements : Statement(st)}
Nothing == [of |-> {}, config |-> Zero]

-----------------------------------------------------------------------------
\* Mutant: what is there already stays.
MergeKeeping(c, other) ==
    [f \in Fields |-> IF c[f] # Zero[f] THEN c[f] ELSE other[f]]

\* Config.Merge: a non-zero value replaces, so a boolean can only be turned on;
\* LeaderElection is not merged at all.
Merge(c, other) ==
    [f \in Fields |-> IF f # "leader" /\ other[f] # Zero[f] THEN other[f] ELSE c[f]]

\* The fields that markFieldsFromSource and the individual keys track.
Tracked == {"environment", "interval"}

\* The fields recorded for what source s said: of a file or a structured
\* document the non-zero ones, of single keys and variables those that parsed.
Marks(s, st) ==
    CASE s = "env"                                -> {st.of}
      [] s # "file" /\ st.of \subseteq Tracked    -> {st.of, NonZero(st.config)}
      [] OTHER                                    -> {Tracked \cap NonZero(st.config)}

Init ==
    /\ stage = "file"
    /\ said = [s \in Sources |-> Nothing]
    /\ config = NewConfig
    /\ sources = [f \in Fields |-> IF f \in Tracked THEN "default" ELSE "none"]

\* Mutant: a source does not take over the record of a field from another.
LoadMarkingFirst(s) ==
    /\ stage = s
    /\ \E st \in Said : \E marks \in Marks(s, st) :
         /\ s = "env" => InEnvironment(st)
         /\ said' = [said EXCEPT ![s] = st]
         /\ config' = Merge(config, st.config)
         /\ sources' = [f \in Fields |-> IF f \in marks /\ sources[f] \in {"none", "default"}
                                         THEN s ELSE sources[f]]
    /\ stage' = After(s)

\* One source is read and merged; one that is not configured says nothing.
Load(s) ==
    /\ stage = s
    /\ \E st \in Said : \E marks \in Marks(s, st) :
         /\ s = "env" => InEnvironment(st)
         /\ said' = [said EXCEPT ![s] = st]
         /\ config' = Merge(config, st.config)
         /\ sources' = [f \in Fields |-> IF f \in marks THEN s ELSE sources[f]]
    /\ stage' = After(s)

\* A source that is configured and cannot be read or parsed ends the load;
\* the environment always can.
LoadFails(s) ==
    /\ stage = s /\ s # "env"
    /\ stage' = "failed"
    /\ UNCHANGED <<said, config, sources>>

\* Mutant: the experimental flag is checked where it is set, in one source.
ValidEnvironmentSingly(c) ==
    /\ c.environment = "production" =>
         c.interval >= 30 /\ \A s \in Sources :
            ~(said[s].config.environment = "production" /\ said[s].config.experimental)
    /\ c.environment = "development" => c.interval >= 5

\* Config.Validate, of the merged configuration; staging and test are left out.
ValidEnvironment(c) ==
    /\ c.environment = "production" => c.interval >= 30 /\ ~c.experimental
    /\ c.environment = "development" => c.interval >= 5

Valid(c) == c.interval > 0 /\ ValidEnvironment(c)

Validate ==
    /\ stage = "validate"
    /\ stage' = IF Valid(config) THEN "loaded" ELSE "failed"
    /\ UNCHANGED <<said, config, sources>>

Next == (\E s \in Sources : Load(s) \/ LoadFails(s)) \/ Validate

Spec == Init /\ [][Next]_vars

-----------------------------------------------------------------------------
(* Properties *)

\* The sources that set field f to something, by the rules of Merge.
Setting(f) == {s \in Sources : said[s].config[f] # Zero[f]}

\* "Environment variables > ConfigMap > Secret > File > Defaults": a scalar is
\* what the highest source says of it, however the merges went along.
ScalarsByPriority ==
    stage = "loaded" =>
        \A f \in Scalars :
            config[f] = IF Setting(f) = {} THEN NewConfig[f]
                        ELSE LET top == CHOOSE s \in Setting(f) :
                                            \A t \in Setting(f) : Rank(t) <= Rank(s)
                             IN  said[top].config[f]

\* No mix of sources, each innocent by itself, makes a production configuration
\* with experimental features or an interval below 30 seconds.
ProductionIsSafe ==
    stage = "loaded" /\ config.environment = "production" =>
        ~config.experimental /\ config.interval >= 30

\* The source recorded for a value is never one that a higher source overruled.
RecordedSourceIsLast ==
    stage = "loaded" =>
        \A f \in Tracked : \A s \in Setting(f) :
            sources[f] # "default" /\ Rank(s) <= Rank(sources[f])

\* "Environment variables should override everything": a feature flag that the
\* environment sets has the value it was set to.
FlagsFollowEnvironment ==
    stage = "loaded" =>
        \A f \in {"experimental", "webhooks"} \cap said["env"].of :
            config[f] = said["env"].config[f]
=============================================================================
