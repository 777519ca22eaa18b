---------------------------- MODULE FeatureFlags ----------------------------
(***************************************************************************)
(* internal/config/feature_flags.go, with the part of manager.go that      *)
(* hands flags out.  LoadConfig stores the configuration it has loaded and *)
(* a flag manager over the very same FeatureFlags; whoever asks for flags  *)
(* gets a manager over a clone, and may change, extend or override it.     *)
(*                                                                         *)
(* An object is a FeatureFlags struct; it is named after the place that    *)
(* holds it, and a flag manager is a pointer to one.  Two of the standard  *)
(* flags stand for all.                                                    *)
(***************************************************************************)
EXTENDS ConfigLoader, Functions

CONSTANT Holders  \* who asks for a flag manager

VARIABLES
    object,     \* the struct in each place
    flags,      \* FeatureFlagManager.flags of each holder: a place, or none
    overridden  \* history: the manager has production's overrides, unchanged

flagVars == <<vars, object, flags, overridden>>

Standard == {"ExperimentalFeatures", "EnableWebhooks"}
Names    == Standard \cup {"EnableReconciliation"}
Stored   == "stored"
Places   == {Stored} \cup Holders

ASSUME HoldersAssumption == Stored \notin Holders /\ "none" \notin Holders

NilFlags == [nil |-> TRUE]
NoCustom == [n \in {} |-> FALSE]

\* A struct with the standard flags that are in on, and the custom ones.
Flags(on, custom) == [nil |-> FALSE, on |-> on, custom |-> custom]

LoadedFlags(c) ==
    Flags((IF c.experimental THEN {"ExperimentalFeatures"} ELSE {})
              \cup (IF c.webhooks THEN {"EnableWebhooks"} ELSE {}),
          IF c.custom = "unset" THEN NoCustom
          ELSE [n \in {"EnableReconciliation"} |-> c.custom = "true"])

FlagsInit ==
    /\ Init
    /\ object = [p \in Places |-> NilFlags]
    /\ flags = [h \in Holders |-> "none"]
    /\ overridden = [h \in Holders |-> FALSE]

-----------------------------------------------------------------------------
(* Reading *)

\* Mutant: a custom flag comes before a standard one of the same name.
IsEnabledCustomFirst(o, n) ==
    /\ ~o.nil
    /\ IF n \in DOMAIN o.custom THEN o.custom[n] ELSE n \in Standard /\ n \in o.on

\* The standard flags first, then the custom ones; no flag, or no struct: off.
IsEnabled(o, n) ==
    /\ ~o.nil
    /\ IF n \in Standard THEN n \in o.on ELSE n \in DOMAIN o.custom /\ o.custom[n]

\* GetAllFlags: a custom flag hides the standard one of the same name.
AllFlags(o) ==
    IF o.nil THEN [n \in Standard |-> FALSE]
    ELSE [n \in Standard \cup DOMAIN o.custom |->
            IF n \in DOMAIN o.custom THEN o.custom[n] ELSE n \in o.on]

EnabledFlags(o) == {n \in DOMAIN AllFlags(o) : AllFlags(o)[n]}

HasFlag(o, n) == ~o.nil /\ n \in Standard \cup DOMAIN o.custom

CloneFlags(o) == IF o.nil THEN Flags({}, NoCustom) ELSE o

-----------------------------------------------------------------------------
(* The manager's configuration, and the managers handed out *)

\* LoadConfig installs what it has loaded.  What the sources said is done with.
Install ==
    /\ stage = "loaded"
    /\ stage' = "serving"
    /\ object' = [object EXCEPT ![Stored] = LoadedFlags(config)]
    /\ said' = [s \in Sources |-> Nothing]
    /\ sources' = [f \in Fields |-> "none"]
    /\ UNCHANGED <<config, flags, overridden>>

\* Holder h has a flag manager over its own struct o.
Hold(h, o) ==
    /\ object' = [object EXCEPT ![h] = o]
    /\ flags' = [flags EXCEPT ![h] = h]
    /\ UNCHANGED vars

\* Mutant: the manager's own flag manager is handed out.
GetSharedFeatureFlagManager(h) ==
    /\ stage = "serving"
    /\ flags' = [flags EXCEPT ![h] = Stored]
    /\ overridden' = [overridden EXCEPT ![h] = FALSE]
    /\ UNCHANGED <<vars, object>>

GetFeatureFlagManager(h) ==
    /\ stage = "serving"
    /\ Hold(h, CloneFlags(object[Stored]))
    /\ overridden' = [overridden EXCEPT ![h] = FALSE]

\* NewFeatureFlagManager(nil).
NewFeatureFlagManagerNil(h) ==
    /\ stage = "serving"
    /\ Hold(h, NilFlags)
    /\ overridden' = [overridden EXCEPT ![h] = FALSE]

Holds(h) == flags[h] # "none"
Of(h)    == object[flags[h]]

\* The overrides of each environment, of the two flags: experimental features
\* are for development only.
Override(env, o) ==
    [o EXCEPT !.on = IF env = "development" THEN @ \cup {"ExperimentalFeatures"}
                     ELSE @ \ {"ExperimentalFeatures"}]

\* A new flag manager over an overridden clone.
WithEnvironmentOverrides(h, env) ==
    /\ Holds(h)
    /\ Hold(h, Override(env, CloneFlags(Of(h))))
    /\ overridden' = [overridden EXCEPT ![h] = (env = "production")]

-----------------------------------------------------------------------------
(* Writing *)

Write(h, o) ==
    /\ object' = [object EXCEPT ![flags[h]] = o]
    /\ UNCHANGED <<vars, flags>>

SetFlag(h, n, b) ==
    /\ Holds(h)
    /\ Write(h, IF Of(h).nil THEN NilFlags
                ELSE [Of(h) EXCEPT !.custom = [k \in DOMAIN @ \cup {n} |-> IF k = n THEN b ELSE @[k]]])
    /\ UNCHANGED overridden

\* By reflection; a name that is no standard flag is an error, after a struct
\* has been made for a manager without one.
SetStandardFlag(h, n, b) ==
    /\ Holds(h)
    /\ LET o == CloneFlags(Of(h))
       IN  Write(h, IF n \notin Standard THEN o
                    ELSE [o EXCEPT !.on = IF b THEN @ \cup {n} ELSE @ \ {n}])
    /\ overridden' = [overridden EXCEPT ![h] = @ /\ n # "ExperimentalFeatures"]

RemoveCustomFlag(h, n) ==
    /\ Holds(h)
    /\ Write(h, IF Of(h).nil THEN NilFlags
                ELSE [Of(h) EXCEPT !.custom = Restrict(@, DOMAIN @ \ {n})])
    /\ UNCHANGED overridden

ClearCustomFlags(h) ==
    /\ Holds(h)
    /\ Write(h, IF Of(h).nil THEN NilFlags ELSE [Of(h) EXCEPT !.custom = NoCustom])
    /\ UNCHANGED overridden

-----------------------------------------------------------------------------
HolderStep(h) ==
    \/ GetFeatureFlagManager(h)
    \/ NewFeatureFlagManagerNil(h)
    \/ \E env \in {"production", "development"} : WithEnvironmentOverrides(h, env)
    \/ \E n \in Names, b \in BOOLEAN : SetFlag(h, n, b) \/ SetStandardFlag(h, n, b)
    \/ \E n \in Names : RemoveCustomFlag(h, n)
    \/ ClearCustomFlags(h)

FlagsNext ==
    \/ Next /\ UNCHANGED <<object, flags, overridden>>
    \/ Install
    \/ \E h \in Holders : HolderStep(h)

FlagsSpec == FlagsInit /\ [][FlagsNext]_flagVars

-----------------------------------------------------------------------------
(* Properties *)

\* Whatever holders do with the flag managers they were given, the stored
\* configuration keeps the flags it was validated with, though the manager's
\* own flag manager shares them: GetFeatureFlagManager hands out clones.
StoredFlagsAreValidated ==
    stage = "serving" => Valid(config) /\ object[Stored] = LoadedFlags(config)

\* "Never allow experimental features in production": once overridden for
\* production a manager has them off, also for a holder that sets, removes or
\* clears custom flags, one of that very name among them, and lists as enabled
\* only what is, but for such a name.
OverridesHold ==
    \A h \in Holders :
        Holds(h) =>
            /\ overridden[h] => ~IsEnabled(Of(h), "ExperimentalFeatures")
            /\ \A n \in Names :
                 \/ n \in EnabledFlags(Of(h)) <=> IsEnabled(Of(h), n)
                 \/ n \in Standard /\ n \in DOMAIN Of(h).custom
            /\ \A n \in Names : HasFlag(Of(h), n) => n \in DOMAIN AllFlags(Of(h))
=============================================================================
