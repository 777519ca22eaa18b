------------------------ MODULE FeatureFlags_proofs ------------------------
(***************************************************************************)
(* Theorems about loading a configuration and about the feature flags that *)
(* are handed out of it, for sources that say any number of things and any *)
(* number of holders.                                                      *)
(***************************************************************************)
EXTENDS FeatureFlags, TLAPS

Merging == Sources \cup {"validate", "loaded"}

\* The sources that are still to be read have said nothing yet.
ToCome(s) == stage \in Sources /\ Rank(stage) <= Rank(s)
Unread == \A s \in Sources : ToCome(s) => said[s] = Nothing

\* A scalar is the default until a source sets it, then what the highest source
\* so far says.
Highest(f, s) == s \in Setting(f) /\ \A t \in Setting(f) : Rank(t) <= Rank(s)
ByPriority(f) ==
    IF Setting(f) = {} THEN config[f] = NewConfig[f]
    ELSE \E s \in Sources : Highest(f, s) /\ config[f] = said[s].config[f]

\* The recorded source is no lower than any that sets the field so far.
Recorded(f) ==
    \A s \in Setting(f) : sources[f] # "default" /\ Rank(s) <= Rank(sources[f])

SoFar ==
    stage \in Merging =>
        /\ Unread
        /\ \A f \in Scalars : ByPriority(f)
        /\ \A f \in Tracked : Recorded(f)

Validated == stage \in {"loaded", "serving"} => Valid(config)

LInv == /\ stage \in Merging \cup {"failed", "serving"}
        /\ DOMAIN said = Sources
        /\ SoFar
        /\ Validated

-----------------------------------------------------------------------------
(* Ranks *)

LEMMA Ranks == /\ Rank("file") = 2 /\ Rank("secret") = 3
               /\ Rank("configmap") = 4 /\ Rank("env") = 5
<1>1. DOMAIN Order = 1 .. 5
  BY DEF Order
<1>2. /\ Order[1] = "default" /\ Order[2] = "file" /\ Order[3] = "secret"
      /\ Order[4] = "configmap" /\ Order[5] = "env"
  BY DEF Order
<1> QED BY <1>1, <1>2 DEF Rank

LEMMA RankType == \A s \in Sources : Rank(s) \in Nat
BY Ranks DEF Sources

LEMMA RankInjective == \A s, t \in Sources : Rank(s) = Rank(t) => s = t
BY Ranks DEF Sources

\* The next stage is validation, or the next source.
LEMMA Afters ==
  \A s \in Sources : \/ After(s) = "validate"
                     \/ After(s) \in Sources /\ Rank(After(s)) = Rank(s) + 1
<1>1. /\ Order[3] = "secret" /\ Order[4] = "configmap" /\ Order[5] = "env"
  BY DEF Order
<1> QED BY <1>1, Ranks DEF After, Sources

-----------------------------------------------------------------------------
(* Loading *)

\* What a source says of a tracked field is recorded.
LEMMA MarksCover ==
  ASSUME NEW s \in Sources, NEW st \in Said, NEW marks \in Marks(s, st), NEW f \in Tracked,
         st.config[f] # Zero[f]
  PROVE  f \in marks
<1>1. f \in Fields /\ NonZero(st.config) \subseteq st.of
  BY DEF Said, Statement, Tracked, Fields, Scalars
<1>2. f \in NonZero(st.config)
  BY <1>1 DEF NonZero
<1> QED BY <1>1, <1>2 DEF Marks

LEMMA LoadPreserves ==
  ASSUME LInv, NEW s \in Sources, Load(s)
  PROVE  LInv'
<1> DEFINE Reads(st, marks) ==
             /\ said' = [said EXCEPT ![s] = st]
             /\ config' = Merge(config, st.config)
             /\ sources' = [f \in Fields |-> IF f \in marks THEN s ELSE sources[f]]
<1>a. PICK st \in Said : \E marks \in Marks(s, st) : Reads(st, marks)
  BY DEF Load
<1>1. PICK marks \in Marks(s, st) : Reads(st, marks)
  BY <1>a
<1>2. stage = s /\ stage' = After(s) /\ stage \in Merging /\ Rank(s) \in Nat
  BY RankType DEF Load, Merging
<1>3. /\ Unread /\ \A f \in Scalars : ByPriority(f)
      /\ \A f \in Tracked : Recorded(f)
  BY <1>2 DEF LInv, SoFar
<1>4. /\ said'[s] = st /\ DOMAIN said' = Sources
      /\ \A t \in Sources \ {s} : said'[t] = said[t]
  BY <1>1 DEF LInv
<1>5. \A t \in Sources : Rank(s) <= Rank(t) => said[t] = Nothing
  BY <1>2, <1>3 DEF Unread, ToCome
<1>6. \A f, t : t \in Setting(f) => t \in Sources /\ t # s /\ Rank(t) < Rank(s) /\ Rank(t) \in Nat
  <2> SUFFICES ASSUME NEW f, NEW t \in Setting(f)
               PROVE  t \in Sources /\ t # s /\ Rank(t) < Rank(s) /\ Rank(t) \in Nat
    OBVIOUS
  <2>1. t \in Sources /\ said[t].config[f] # Zero[f] /\ Rank(t) \in Nat
    BY RankType DEF Setting
  <2>2. said[t] # Nothing
    BY <2>1 DEF Nothing
  <2> QED BY <1>2, <1>5, <2>1, <2>2
<1>7. \A f : Setting(f)' = IF st.config[f] # Zero[f] THEN Setting(f) \cup {s} ELSE Setting(f)
  <2> SUFFICES ASSUME NEW f
               PROVE  Setting(f)' = IF st.config[f] # Zero[f] THEN Setting(f) \cup {s} ELSE Setting(f)
    OBVIOUS
  <2>1. s \notin Setting(f)
    BY <1>6
  <2> QED BY <1>4, <2>1 DEF Setting
<1>8. Unread'
  <2> SUFFICES ASSUME NEW t \in Sources, ToCome(t)' PROVE said'[t] = Nothing
    BY DEF Unread
  <2>1. stage' \in Sources /\ Rank(stage') <= Rank(t)
    BY DEF ToCome
  <2>2. Rank(stage') = Rank(s) + 1
    BY <1>2, <2>1, Afters DEF Sources
  <2>3. Rank(s) <= Rank(t) /\ t # s
    BY <1>2, <2>1, <2>2, RankType
  <2> QED BY <1>4, <1>5, <2>3
<1>9. ASSUME NEW f \in Scalars PROVE ByPriority(f)'
  <2>1. f \in Fields /\ f # "leader"
    BY DEF Scalars, Fields
  <2>2. config'[f] = IF st.config[f] # Zero[f] THEN st.config[f] ELSE config[f]
    BY <1>1, <2>1 DEF Merge
  <2>3. CASE st.config[f] # Zero[f]
    <3>1. Setting(f)' = Setting(f) \cup {s}
      BY <1>7, <2>3
    <3>2. Highest(f, s)'
      BY <1>2, <1>6, <3>1 DEF Highest
    <3> QED BY <1>4, <2>2, <2>3, <3>1, <3>2 DEF ByPriority
  <2>4. CASE st.config[f] = Zero[f]
    <3>1. Setting(f)' = Setting(f) /\ config'[f] = config[f]
      BY <1>7, <2>2, <2>4
    <3>2. \A t \in Setting(f) : said'[t] = said[t]
      BY <1>4, <1>6
    <3> QED BY <1>3, <1>9, <3>1, <3>2 DEF ByPriority, Highest
  <2> QED BY <2>3, <2>4
<1>10. ASSUME NEW f \in Tracked PROVE Recorded(f)'
  <2>1. f \in Fields
    BY DEF Tracked, Fields, Scalars
  <2>2. sources'[f] = IF f \in marks THEN s ELSE sources[f]
    BY <1>1, <2>1
  <2>3. CASE f \in marks
    <3>1. sources'[f] = s /\ s # "default"
      BY <2>2, <2>3 DEF Sources
    <3> QED BY <1>2, <1>6, <1>7, <3>1 DEF Recorded
  <2>4. CASE f \notin marks
    <3>1. st.config[f] = Zero[f]
      BY <2>4, MarksCover
    <3> QED BY <1>3, <1>7, <2>2, <2>4, <3>1 DEF Recorded
  <2> QED BY <2>3, <2>4
<1>11. stage' \in Sources \cup {"validate"}
  BY <1>2, Afters
<1> QED BY <1>4, <1>8, <1>9, <1>10, <1>11 DEF LInv, SoFar, Validated, Merging, Sources

LEMMA LoaderInit == Init => LInv
<1> SUFFICES ASSUME Init PROVE LInv
  OBVIOUS
<1> USE DEF Init
<1>1. \A s \in Sources : said[s] = Nothing
  OBVIOUS
<1>2. \A f : Setting(f) = {}
  BY <1>1 DEF Setting, Nothing
<1>3. SoFar
  BY <1>1, <1>2 DEF SoFar, Unread, ByPriority, Recorded
<1> QED BY <1>3 DEF LInv, Validated, Merging, Sources

LEMMA LoaderNext == LInv /\ [Next]_vars => LInv'
<1> SUFFICES ASSUME LInv, [Next]_vars PROVE LInv'
  OBVIOUS
<1>1. ASSUME NEW s \in Sources, Load(s) PROVE LInv'
  BY <1>1, LoadPreserves
<1>2. ASSUME NEW s \in Sources, LoadFails(s) PROVE LInv'
  BY <1>2 DEF LoadFails, LInv, SoFar, Validated, Merging, Sources
<1>3. CASE Validate
  <2>1. stage = "validate" /\ UNCHANGED <<said, config, sources>>
    BY <1>3 DEF Validate
  <2>2. stage' \in {"loaded", "failed"} /\ (stage' = "loaded" => Valid(config))
    BY <1>3 DEF Validate
  <2>3. /\ \A f \in Scalars : ByPriority(f)
        /\ \A f \in Tracked : Recorded(f)
    BY <2>1 DEF LInv, SoFar, Merging
  <2>4. SoFar'
    BY <2>1, <2>2, <2>3
    DEF SoFar, Unread, ToCome, ByPriority, Highest, Recorded, Setting, Sources
  <2>5. Validated'
    BY <2>1, <2>2 DEF Validated, Valid, ValidEnvironment
  <2> QED BY <2>1, <2>2, <2>4, <2>5 DEF LInv, Merging
<1>4. CASE UNCHANGED vars
  BY <1>4 DEF vars, LInv, SoFar, Unread, ToCome, ByPriority, Highest, Recorded, Setting,
              Validated, Valid, ValidEnvironment
<1> QED BY <1>1, <1>2, <1>3, <1>4 DEF Next

-----------------------------------------------------------------------------
(* Flags.  A holder's flag manager points to the holder's own struct, never to *)
(* the stored one, and one that is overridden for production has experimental  *)
(* features off in that struct.                                                *)

Struct(o) == o = NilFlags \/ o = Flags(o.on, o.custom)

OffInProduction(o) == ~o.nil /\ "ExperimentalFeatures" \notin o.on

OwnStruct == \A h \in Holders : flags[h] \in {"none", h}
Structs   == \A p \in Places : Struct(object[p])
Overrides == \A h \in Holders : overridden[h] => Holds(h) /\ OffInProduction(Of(h))
StoredIsLoaded == stage = "serving" => object[Stored] = LoadedFlags(config)

FInv == /\ DOMAIN object = Places
        /\ flags \in [Holders -> {"none"} \cup Holders]
        /\ overridden \in [Holders -> BOOLEAN]
        /\ OwnStruct
        /\ Structs
        /\ Overrides
        /\ StoredIsLoaded

IInv == LInv /\ FInv

\* A struct is nil or has flags, and has the flags it was made with.
LEMMA StructFields ==
  /\ NilFlags.nil
  /\ \A on, custom : LET o == Flags(on, custom)
                     IN  ~o.nil /\ o.on = on /\ o.custom = custom /\ Struct(o)
BY DEF NilFlags, Flags, Struct

\* A record with the fields of a struct with flags is one.
LEMMA IsStruct ==
  ASSUME NEW l, l = [k \in DOMAIN l |-> l[k]], DOMAIN l = {"nil", "on", "custom"}, l.nil = FALSE
  PROVE  l = Flags(l.on, l.custom)
<1> DEFINE m == Flags(l.on, l.custom)
<1>1. DOMAIN m = {"nil", "on", "custom"} /\ m = [k \in DOMAIN m |-> m[k]]
  BY DEF Flags
<1>2. m.nil = l.nil /\ m.on = l.on /\ m.custom = l.custom
  BY DEF Flags
<1>3. \A k \in DOMAIN l : l[k] = m[k]
  BY <1>2
<1> HIDE DEF m
<1>4. l = m
  BY <1>1, <1>3
<1> QED BY <1>4 DEF m

\* A change of one field of a struct with flags is a struct with flags.
LEMMA StructChange ==
  ASSUME NEW o, Struct(o), ~o.nil, NEW v
  PROVE  /\ [o EXCEPT !.on = v] = Flags(v, o.custom)
         /\ [o EXCEPT !.custom = v] = Flags(o.on, v)
<1>1. o = Flags(o.on, o.custom)
  BY StructFields DEF Struct
<1>2. PICK on, custom : o = Flags(on, custom) /\ o.on = on /\ o.custom = custom
  BY <1>1
<1> DEFINE l == [o EXCEPT !.on = v]
           m == [o EXCEPT !.custom = v]
<1>3. /\ DOMAIN l = {"nil", "on", "custom"} /\ l = [k \in DOMAIN l |-> l[k]]
      /\ l.nil = FALSE /\ l.on = v /\ l.custom = o.custom
  BY <1>2 DEF Flags
<1>4. /\ DOMAIN m = {"nil", "on", "custom"} /\ m = [k \in DOMAIN m |-> m[k]]
      /\ m.nil = FALSE /\ m.on = o.on /\ m.custom = v
  BY <1>2 DEF Flags
<1> HIDE DEF l, m
<1>5. l = Flags(v, o.custom) /\ m = Flags(o.on, v)
  BY <1>3, <1>4, IsStruct
<1> QED BY <1>5 DEF l, m

LEMMA ClonesHaveFlags ==
  ASSUME NEW o, Struct(o)
  PROVE  LET c == CloneFlags(o)
         IN  Struct(c) /\ ~c.nil /\ (~o.nil => c = o)
BY StructFields DEF CloneFlags, Struct

-----------------------------------------------------------------------------
(* Steps *)

\* What every step of a holder comes to: the holder has a manager over its own
\* struct, which is o now, and nothing else changes.
Takes(h, o) ==
    /\ object' = [object EXCEPT ![h] = o]
    /\ flags' \in [Holders -> {"none"} \cup Holders]
    /\ flags'[h] = h
    /\ overridden' \in [Holders -> BOOLEAN]
    /\ \A k \in Holders \ {h} : flags'[k] = flags[k] /\ overridden'[k] = overridden[k]
    /\ UNCHANGED vars

LEMMA TakesPreserves ==
  ASSUME FInv, NEW h \in Holders, NEW o, Struct(o), Takes(h, o),
         overridden'[h] => OffInProduction(o)
  PROVE  FInv'
<1> USE DEF FInv, Takes
<1>1. h \in Places /\ h # Stored /\ h # "none"
  BY HoldersAssumption DEF Places
<1>2. DOMAIN object' = Places /\ object'[h] = o /\ \A p \in Places \ {h} : object'[p] = object[p]
  BY <1>1
<1>3. OwnStruct'
  BY DEF OwnStruct
<1>4. Structs'
  BY <1>2 DEF Structs
<1>5. ASSUME NEW k \in Holders, overridden'[k]
      PROVE  flags'[k] # "none" /\ OffInProduction(object'[flags'[k]])
  <2>1. CASE k = h
    BY <1>1, <1>2, <1>5, <2>1
  <2>2. CASE k # h
    <3>1. overridden[k] /\ flags'[k] = flags[k]
      BY <1>5, <2>2
    <3>2. flags[k] # "none" /\ OffInProduction(object[flags[k]])
      BY <3>1 DEF Overrides, Holds, Of
    <3>3. flags[k] = k /\ k \in Places \ {h}
      BY <2>2, <3>2 DEF OwnStruct, Places
    <3> QED BY <1>2, <3>1, <3>2, <3>3
  <2> QED BY <2>1, <2>2
<1>6. Overrides'
  BY <1>5 DEF Overrides, Holds, Of
<1>7. StoredIsLoaded'
  <2>1. object'[Stored] = object[Stored]
    BY <1>1, <1>2 DEF Places
  <2> QED BY <2>1 DEF StoredIsLoaded, vars
<1> QED BY <1>2, <1>3, <1>4, <1>6, <1>7

\* A holder that has a manager has it over its own struct.
LEMMA HeldIsOwn ==
  ASSUME FInv, NEW h \in Holders, Holds(h)
  PROVE  flags[h] = h /\ Of(h) = object[h] /\ Struct(Of(h)) /\ h \in Places
BY DEF FInv, OwnStruct, Holds, Of, Structs, Places

LEMMA HoldTakes ==
  ASSUME FInv, NEW h \in Holders, NEW o, NEW b \in BOOLEAN, Hold(h, o),
         overridden' = [overridden EXCEPT ![h] = b]
  PROVE  Takes(h, o) /\ overridden'[h] = b
BY DEF FInv, Hold, Takes

LEMMA WriteTakes ==
  ASSUME FInv, NEW h \in Holders, NEW o, Holds(h), Write(h, o),
         overridden' \in [Holders -> BOOLEAN],
         \A k \in Holders \ {h} : overridden'[k] = overridden[k]
  PROVE  Takes(h, o)
<1>1. flags[h] = h
  BY HeldIsOwn
<1> QED BY <1>1 DEF FInv, Write, Takes

LEMMA GetPreserves ==
  ASSUME FInv, NEW h \in Holders, GetFeatureFlagManager(h) \/ NewFeatureFlagManagerNil(h)
  PROVE  FInv'
<1>1. Struct(CloneFlags(object[Stored])) /\ Struct(NilFlags)
  BY ClonesHaveFlags DEF FInv, Structs, Places, Struct
<1>2. PICK o : Struct(o) /\ Hold(h, o) /\ overridden' = [overridden EXCEPT ![h] = FALSE]
  BY <1>1 DEF GetFeatureFlagManager, NewFeatureFlagManagerNil
<1>3. Takes(h, o) /\ overridden'[h] = FALSE
  BY <1>2, HoldTakes
<1> QED BY <1>2, <1>3, TakesPreserves

LEMMA OverridePreserves ==
  ASSUME FInv, NEW h \in Holders, NEW env \in {"production", "development"},
         WithEnvironmentOverrides(h, env)
  PROVE  FInv'
<1> DEFINE c == CloneFlags(Of(h))
           o == Override(env, c)
<1>1. Holds(h) /\ Hold(h, o) /\ overridden' = [overridden EXCEPT ![h] = (env = "production")]
  BY DEF WithEnvironmentOverrides
<1>2. Struct(c) /\ ~c.nil
  BY <1>1, HeldIsOwn, ClonesHaveFlags
<1> HIDE DEF c
<1>3. PICK on : o = Flags(on, c.custom) /\ (env = "production" => "ExperimentalFeatures" \notin on)
  <2>1. CASE env = "production"
    <3>1. o = [c EXCEPT !.on = c.on \ {"ExperimentalFeatures"}]
      BY <2>1 DEF Override
    <3>2. o = Flags(c.on \ {"ExperimentalFeatures"}, c.custom)
      BY <1>2, <3>1, StructChange
    <3> HIDE DEF o
    <3> QED BY <3>2
  <2>2. CASE env = "development"
    <3>1. o = [c EXCEPT !.on = c.on \cup {"ExperimentalFeatures"}]
      BY <2>2 DEF Override
    <3> QED BY <1>2, <2>2, <3>1, StructChange
  <2> QED BY <2>1, <2>2
<1>4. Struct(o) /\ (env = "production" => OffInProduction(o))
  BY <1>3, StructFields DEF OffInProduction
<1> HIDE DEF o
<1>5. Takes(h, o) /\ overridden'[h] = (env = "production")
  BY <1>1, HoldTakes
<1> QED BY <1>4, <1>5, TakesPreserves

\* The custom flags of a struct do not matter to what is overridden.
LEMMA CustomPreserves ==
  ASSUME FInv, NEW h \in Holders, Holds(h), NEW o, Write(h, o), UNCHANGED overridden,
         NEW custom, o = IF Of(h).nil THEN NilFlags ELSE [Of(h) EXCEPT !.custom = custom]
  PROVE  FInv'
<1>1. Struct(Of(h))
  BY HeldIsOwn
<1>2. Takes(h, o)
  BY WriteTakes DEF FInv
<1>3. overridden'[h] => ~Of(h).nil /\ "ExperimentalFeatures" \notin Of(h).on
  BY DEF FInv, Overrides, OffInProduction
<1>4. CASE Of(h).nil
  BY <1>2, <1>3, <1>4, TakesPreserves DEF Struct
<1>5. CASE ~Of(h).nil
  <2>1. o = Flags(Of(h).on, custom)
    BY <1>1, <1>5, StructChange
  <2>2. Struct(o) /\ o.on = Of(h).on /\ ~o.nil
    BY <2>1, StructFields
  <2> QED BY <1>2, <1>3, <2>2, TakesPreserves DEF OffInProduction
<1> QED BY <1>4, <1>5

LEMMA SetStandardPreserves ==
  ASSUME FInv, NEW h \in Holders, NEW n, NEW b \in BOOLEAN, SetStandardFlag(h, n, b)
  PROVE  FInv'
<1> DEFINE c == CloneFlags(Of(h))
           o == IF n \notin Standard THEN c
                ELSE [c EXCEPT !.on = IF b THEN @ \cup {n} ELSE @ \ {n}]
<1>1. /\ Holds(h) /\ Write(h, o)
      /\ overridden' = [overridden EXCEPT ![h] = overridden[h] /\ n # "ExperimentalFeatures"]
  BY Zenon DEF SetStandardFlag
<1>2. Struct(c) /\ ~c.nil /\ (~Of(h).nil => c = Of(h))
  BY <1>1, HeldIsOwn, ClonesHaveFlags
<1>3. /\ overridden' \in [Holders -> BOOLEAN]
      /\ \A k \in Holders \ {h} : overridden'[k] = overridden[k]
  BY <1>1 DEF FInv
<1>4. overridden'[h] => overridden[h] /\ n # "ExperimentalFeatures"
  BY <1>1 DEF FInv
<1> HIDE DEF c
<1>5. Struct(o) /\ ~o.nil
      /\ ("ExperimentalFeatures" \notin c.on /\ n # "ExperimentalFeatures"
            => "ExperimentalFeatures" \notin o.on)
  <2>1. CASE n \notin Standard
    BY <1>2, <2>1
  <2>2. CASE n \in Standard
    <3>1. PICK on : /\ o = [c EXCEPT !.on = on]
                    /\ "ExperimentalFeatures" \notin c.on /\ n # "ExperimentalFeatures"
                         => "ExperimentalFeatures" \notin on
      <4>1. o = [c EXCEPT !.on = IF b THEN c.on \cup {n} ELSE c.on \ {n}]
        BY <2>2
      <4> QED BY <4>1
    <3>2. [c EXCEPT !.on = on] = Flags(on, c.custom)
      BY <1>2, StructChange
    <3> HIDE DEF o
    <3>3. o = Flags(on, c.custom)
      BY <3>1, <3>2
    <3>4. Struct(o) /\ ~o.nil /\ o.on = on
      BY <3>3, StructFields
    <3> QED BY <3>1, <3>4
  <2> QED BY <2>1, <2>2
<1> HIDE DEF o
<1>6. Takes(h, o)
  BY <1>1, <1>3, WriteTakes
<1>7. overridden[h] => OffInProduction(Of(h))
  BY DEF FInv, Overrides
<1>8. overridden'[h] => OffInProduction(o)
  BY <1>2, <1>4, <1>5, <1>7 DEF OffInProduction
<1> QED BY <1>5, <1>6, <1>8, TakesPreserves

LEMMA HolderStepPreserves ==
  ASSUME FInv, NEW h \in Holders, HolderStep(h)
  PROVE  FInv'
<1>1. CASE GetFeatureFlagManager(h) \/ NewFeatureFlagManagerNil(h)
  BY <1>1, GetPreserves
<1>2. ASSUME NEW env \in {"production", "development"}, WithEnvironmentOverrides(h, env) PROVE FInv'
  BY <1>2, OverridePreserves
<1>3. ASSUME NEW n \in Names, NEW b \in BOOLEAN, SetFlag(h, n, b) PROVE FInv'
  <2> DEFINE custom == [k \in DOMAIN Of(h).custom \cup {n} |-> IF k = n THEN b ELSE Of(h).custom[k]]
             o == IF Of(h).nil THEN NilFlags ELSE [Of(h) EXCEPT !.custom = custom]
  <2>1. Holds(h) /\ Write(h, o) /\ UNCHANGED overridden
    BY <1>3, Zenon DEF SetFlag
  <2> HIDE DEF custom
  <2> QED BY <2>1, CustomPreserves
<1>4. ASSUME NEW n \in Names, NEW b \in BOOLEAN, SetStandardFlag(h, n, b) PROVE FInv'
  BY <1>4, SetStandardPreserves
<1>5. ASSUME NEW n \in Names, RemoveCustomFlag(h, n) PROVE FInv'
  <2> DEFINE custom == Restrict(Of(h).custom, DOMAIN Of(h).custom \ {n})
             o == IF Of(h).nil THEN NilFlags ELSE [Of(h) EXCEPT !.custom = custom]
  <2>1. Holds(h) /\ Write(h, o) /\ UNCHANGED overridden
    BY <1>5, Zenon DEF RemoveCustomFlag
  <2> HIDE DEF custom
  <2> QED BY <2>1, CustomPreserves
<1>6. CASE ClearCustomFlags(h)
  <2> DEFINE o == IF Of(h).nil THEN NilFlags ELSE [Of(h) EXCEPT !.custom = NoCustom]
  <2>1. Holds(h) /\ Write(h, o) /\ UNCHANGED overridden
    BY <1>6, Zenon DEF ClearCustomFlags
  <2> QED BY <2>1, CustomPreserves
<1> QED BY <1>1, <1>2, <1>3, <1>4, <1>5, <1>6 DEF HolderStep

LEMMA InstallPreserves ==
  ASSUME IInv, Install
  PROVE  IInv'
<1> USE DEF Install
<1>1. Valid(config)' /\ stage' = "serving" /\ DOMAIN said' = Sources
  BY DEF IInv, LInv, Validated, Valid, ValidEnvironment
<1>2. LInv'
  BY <1>1 DEF LInv, SoFar, Validated, Merging, Sources
<1>3. /\ DOMAIN object' = Places /\ object'[Stored] = LoadedFlags(config)
      /\ \A p \in Places \ {Stored} : object'[p] = object[p]
  BY DEF IInv, FInv, Places
<1>4. Struct(LoadedFlags(config))
  BY StructFields DEF LoadedFlags
<1>5. Structs'
  BY <1>3, <1>4 DEF IInv, FInv, Structs
<1>6. ASSUME NEW h \in Holders, overridden'[h]
      PROVE  flags'[h] # "none" /\ OffInProduction(object'[flags'[h]])
  <2>1. flags[h] # "none" /\ OffInProduction(object[flags[h]])
    BY <1>6 DEF IInv, FInv, Overrides, Holds, Of
  <2>2. flags[h] \in Places \ {Stored}
    BY <2>1, HoldersAssumption DEF IInv, FInv, OwnStruct, Places
  <2> QED BY <1>3, <2>1, <2>2
<1>7. Overrides'
  BY <1>6 DEF Overrides, Holds, Of
<1>8. StoredIsLoaded'
  BY <1>3 DEF StoredIsLoaded
<1>9. FInv'
  BY <1>3, <1>5, <1>7, <1>8 DEF IInv, FInv, OwnStruct
<1> QED BY <1>2, <1>9 DEF IInv

LEMMA FlagsInitOK == FlagsInit => IInv
<1> SUFFICES ASSUME FlagsInit PROVE IInv
  OBVIOUS
<1> USE DEF FlagsInit
<1>1. LInv
  BY LoaderInit
<1>2. /\ DOMAIN object = Places /\ Structs
      /\ flags \in [Holders -> {"none"} \cup Holders] /\ OwnStruct
      /\ overridden \in [Holders -> BOOLEAN] /\ Overrides
  BY DEF Structs, Struct, OwnStruct, Overrides
<1>3. StoredIsLoaded
  BY DEF StoredIsLoaded, Init
<1> QED BY <1>1, <1>2, <1>3 DEF IInv, FInv

LEMMA FlagsNextOK == IInv /\ [FlagsNext]_flagVars => IInv'
<1> SUFFICES ASSUME IInv, [FlagsNext]_flagVars PROVE IInv'
  OBVIOUS
<1>1. CASE [Next]_vars /\ UNCHANGED <<object, flags, overridden>>
  <2>1. LInv'
    BY <1>1, LoaderNext DEF IInv
  <2>2. stage' # "serving" \/ UNCHANGED vars
    BY <1>1, Afters DEF Next, Load, LoadFails, Validate, Sources
  <2>3. StoredIsLoaded'
    BY <1>1, <2>2 DEF IInv, FInv, StoredIsLoaded, vars
  <2>4. FInv'
    BY <1>1, <2>3 DEF IInv, FInv, OwnStruct, Structs, Overrides, Holds, Of
  <2> QED BY <2>1, <2>4 DEF IInv
<1>2. CASE Install
  BY <1>2, InstallPreserves
<1>3. ASSUME NEW h \in Holders, HolderStep(h) PROVE IInv'
  <2>1. FInv'
    BY <1>3, HolderStepPreserves DEF IInv
  <2>2. UNCHANGED vars
    BY <1>3 DEF HolderStep, GetFeatureFlagManager, NewFeatureFlagManagerNil,
                WithEnvironmentOverrides, SetFlag, SetStandardFlag, RemoveCustomFlag,
                ClearCustomFlags, Hold, Write
  <2>3. LInv'
    BY <2>2, LoaderNext DEF IInv
  <2> QED BY <2>1, <2>3 DEF IInv
<1>4. CASE UNCHANGED flagVars
  BY <1>1, <1>4 DEF flagVars
<1> QED BY <1>1, <1>2, <1>3, <1>4 DEF FlagsNext

-----------------------------------------------------------------------------
(* Theorems *)

\* The invariant of loading and handing out flags: the merge follows the
\* priorities source by source, what is installed was validated, and no flag
\* manager that was handed out shares the stored struct.
THEOREM Invariance == FlagsSpec => []IInv
<1> QED BY FlagsInitOK, FlagsNextOK, PTL DEF FlagsSpec

\* LoadWithPriority: however the sources' merges went, a scalar of a loaded
\* configuration is what the highest source says of it, or the default.
THEOREM PriorityHolds == FlagsSpec => []ScalarsByPriority
<1>1. IInv => ScalarsByPriority
  <2> SUFFICES ASSUME LInv, stage = "loaded", NEW f \in Scalars
               PROVE  config[f] = IF Setting(f) = {} THEN NewConfig[f]
                                  ELSE LET top == CHOOSE s \in Setting(f) :
                                                    \A t \in Setting(f) : Rank(t) <= Rank(s)
                                       IN  said[top].config[f]
    BY DEF IInv, ScalarsByPriority
  <2>1. ByPriority(f)
    BY DEF LInv, SoFar, Merging
  <2>2. CASE Setting(f) = {}
    BY <2>1, <2>2 DEF ByPriority
  <2>3. CASE Setting(f) # {}
    <3> DEFINE top == CHOOSE s \in Setting(f) : \A t \in Setting(f) : Rank(t) <= Rank(s)
    <3>1. PICK s \in Sources : Highest(f, s) /\ config[f] = said[s].config[f]
      BY <2>1, <2>3 DEF ByPriority
    <3>2. s \in Setting(f) /\ \A t \in Setting(f) : Rank(t) <= Rank(s)
      BY <3>1 DEF Highest
    <3>3. top \in Setting(f) /\ \A t \in Setting(f) : Rank(t) <= Rank(top)
      BY <3>2
    <3> HIDE DEF top
    <3>4. top \in Sources
      BY <3>3 DEF Setting
    <3>5. Rank(top) = Rank(s)
      BY <3>1, <3>2, <3>3, <3>4, RankType
    <3>6. top = s
      BY <3>1, <3>4, <3>5, RankInjective
    <3>7. config[f] = said[top].config[f]
      BY <3>1, <3>6
    <3> QED BY <2>3, <3>7 DEF top
  <2> QED BY <2>2, <2>3
<1> QED BY <1>1, Invariance, PTL

\* Validate judges what the sources make together: a production configuration
\* that is loaded has no experimental features and a long enough interval.
THEOREM SafeProduction == FlagsSpec => []ProductionIsSafe
<1>1. IInv => ProductionIsSafe
  BY DEF IInv, LInv, Validated, Valid, ValidEnvironment, ProductionIsSafe
<1> QED BY <1>1, Invariance, PTL

\* markFieldsFromSource and the individual keys: the source on record for a
\* field is never one that a higher source overruled.
THEOREM RecordIsLast == FlagsSpec => []RecordedSourceIsLast
<1>1. IInv => RecordedSourceIsLast
  BY DEF IInv, LInv, SoFar, Merging, Recorded, RecordedSourceIsLast
<1> QED BY <1>1, Invariance, PTL

\* GetFeatureFlagManager hands out clones: no holder, whatever it sets, removes
\* or overrides, changes the flags of the stored configuration.
THEOREM StoredFlagsKept == FlagsSpec => []StoredFlagsAreValidated
<1>1. IInv => StoredFlagsAreValidated
  BY DEF IInv, LInv, Validated, FInv, StoredIsLoaded, StoredFlagsAreValidated
<1> QED BY <1>1, Invariance, PTL

\* IsEnabled and GetEnabledFlags agree of any struct, but on a standard flag
\* whose name a custom flag has; HasFlag is true of listed flags only.
LEMMA ListingAgrees ==
  ASSUME NEW o, Struct(o), NEW n
  PROVE  /\ \/ n \in EnabledFlags(o) <=> IsEnabled(o, n)
            \/ n \in Standard /\ n \in DOMAIN o.custom
         /\ HasFlag(o, n) => n \in DOMAIN AllFlags(o)
<1>1. CASE o.nil
  BY <1>1 DEF EnabledFlags, AllFlags, IsEnabled, HasFlag
<1>2. CASE ~o.nil
  <2>1. DOMAIN AllFlags(o) = Standard \cup DOMAIN o.custom
    BY <1>2 DEF AllFlags
  <2>2. n \in Standard \cup DOMAIN o.custom =>
          AllFlags(o)[n] = IF n \in DOMAIN o.custom THEN o.custom[n] ELSE n \in o.on
    BY <1>2, Zenon DEF AllFlags
  <2>3. n \in EnabledFlags(o) <=> n \in Standard \cup DOMAIN o.custom /\ AllFlags(o)[n]
    BY <2>1, Zenon DEF EnabledFlags
  <2>4. IsEnabled(o, n) <=>
          IF n \in Standard THEN n \in o.on ELSE n \in DOMAIN o.custom /\ o.custom[n]
    BY <1>2, Zenon DEF IsEnabled
  <2>5. \/ n \in EnabledFlags(o) <=> IsEnabled(o, n)
        \/ n \in Standard /\ n \in DOMAIN o.custom
    BY <2>2, <2>3, <2>4, Zenon
  <2>6. HasFlag(o, n) => n \in DOMAIN AllFlags(o)
    BY <2>1 DEF HasFlag
  <2> QED BY <2>5, <2>6
<1> QED BY <1>1, <1>2

\* WithEnvironmentOverrides: a manager overridden for production keeps
\* experimental features off through every change of custom flags, and what a
\* manager lists as enabled is enabled.
THEOREM OverridesKept == FlagsSpec => []OverridesHold
<1>1. IInv => OverridesHold
  <2> SUFFICES ASSUME FInv, NEW h \in Holders, Holds(h)
               PROVE  /\ overridden[h] => ~IsEnabled(Of(h), "ExperimentalFeatures")
                      /\ \A n \in Names :
                           \/ n \in EnabledFlags(Of(h)) <=> IsEnabled(Of(h), n)
                           \/ n \in Standard /\ n \in DOMAIN Of(h).custom
                      /\ \A n \in Names : HasFlag(Of(h), n) => n \in DOMAIN AllFlags(Of(h))
    BY Zenon DEF IInv, OverridesHold
  <2>1. Struct(Of(h))
    BY HeldIsOwn
  <2>2. overridden[h] => ~IsEnabled(Of(h), "ExperimentalFeatures")
    BY DEF FInv, Overrides, OffInProduction, IsEnabled, Standard
  <2> QED BY <2>1, <2>2, ListingAgrees, Zenon
<1> QED BY <1>1, Invariance, PTL
=============================================================================
