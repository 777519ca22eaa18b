-------------------------- MODULE HotReload_proofs --------------------------
(***************************************************************************)
(* Theorems about the configuration manager under main, the watcher and    *)
(* any number of auto-reload loops and callbacks (HotSpec): types, that    *)
(* Close is final but for loads already running, that callbacks keep up,   *)
(* and that the manager implements ConfigStore.                            *)
(***************************************************************************)
EXTENDS HotReload, TLAPS

\* A load that has not ended has the sources' present content among those it
\* had, and what it has read as well.
Fresh ==
    \A l \in Loaders :
        /\ pc[l] \in {"loading", "loaded"} => source \in had[l]
        /\ pc[l] = "loaded" => got[l] \in had[l]

\* A closed manager has nothing to reload with, and whoever is still loading was
\* loading when Close was called.
OnlyStragglers ==
    closed =>
        /\ ~hasOptions /\ current = Nil
        /\ \A l \in Loaders : pc[l] \in {"loading", "loaded"} => l \in stragglers

\* All that is on its way to s is the current configuration.
OnlyCurrent(s) ==
    /\ s \in callbacks
    /\ \A l \in Loaders : pc[l] = "notifying" => notice[l] = current
    /\ \A c \in BagToSet(calls) : c.to = s => c.new = current
    /\ Pending(s) \/ told[s] = current

Informed == alive => \A s \in Subscribers : sole[s] => OnlyCurrent(s)

IInv == TypeOK /\ Fresh /\ OnlyStragglers /\ Informed

-----------------------------------------------------------------------------
(* Bags *)

\* What becomes of a bag of calls when notifyCallbacks spawns more.
LEMMA BagAdd ==
  ASSUME NEW B, IsABag(B), NEW S
  PROVE  /\ IsABag(B (+) SetToBag(S))
         /\ BagToSet(B (+) SetToBag(S)) = BagToSet(B) \cup S
<1> DEFINE P == B (+) SetToBag(S)
<1>1. DOMAIN P = DOMAIN B \cup S
  BY DEF (+), SetToBag
<1>2. \A e \in DOMAIN P : P[e] \in {n \in Nat : n > 0}
  BY <1>1 DEF IsABag, (+), SetToBag
<1>3. P = [e \in DOMAIN P |-> P[e]]
  BY DEF (+)
<1> QED BY <1>1, <1>2, <1>3 DEF IsABag, BagToSet

\* What becomes of it when a callback has run: the other calls stay.
LEMMA BagRemove ==
  ASSUME NEW B, IsABag(B), NEW c \in BagToSet(B)
  PROVE  /\ IsABag(B (-) SetToBag({c}))
         /\ BagToSet(B (-) SetToBag({c})) \subseteq BagToSet(B)
         /\ BagToSet(B) \ {c} \subseteq BagToSet(B (-) SetToBag({c}))
<1> DEFINE D == [e \in DOMAIN B |-> IF e \in {c} THEN B[e] - 1 ELSE B[e]]
           M == B (-) SetToBag({c})
<1>1. M = [e \in {d \in DOMAIN D : D[d] > 0} |-> D[e]]
  BY DEF (-), SetToBag
<1>2. \A e \in DOMAIN B : B[e] \in {n \in Nat : n > 0}
  BY DEF IsABag
<1>3. /\ DOMAIN M \subseteq DOMAIN B
      /\ \A e \in DOMAIN B : e # c => e \in DOMAIN M
      /\ \A e \in DOMAIN M : M[e] \in {n \in Nat : n > 0}
  <2>1. \A e \in DOMAIN B : D[e] \in Nat /\ (e # c => D[e] > 0)
    BY <1>2
  <2>2. DOMAIN M = {d \in DOMAIN B : D[d] > 0} /\ \A e \in DOMAIN M : M[e] = D[e]
    BY <1>1
  <2> HIDE DEF D, M
  <2> QED BY <2>1, <2>2
<1>4. M = [e \in DOMAIN M |-> M[e]]
  BY <1>1
<1> QED BY <1>3, <1>4 DEF IsABag, BagToSet

-----------------------------------------------------------------------------
(* One lemma per kind of step *)

LEMMA InitInv == HotInit => IInv
<1> SUFFICES ASSUME HotInit PROVE IInv
  OBVIOUS
<1> USE ConfigAssumption DEF HotInit, Init
<1>1. IsABag(calls) /\ BagToSet(calls) = {}
  BY DEF IsABag, BagToSet, EmptyBag, SetToBag
<1>2. source \in Contents /\ Main \in Loaders
  BY DEF Contents, Loaders
<1>3. \A l \in Loaders : got[l] = Nil /\ notice[l] = Nil
                          /\ pc[l] = (IF l = Main THEN "loading" ELSE "idle")
                          /\ had[l] = (IF l = Main THEN {source} ELSE {})
  OBVIOUS
<1>4. /\ pc \in [Loaders -> {"idle", "loading", "loaded", "notifying"}]
      /\ had \in [Loaders -> SUBSET Contents]
      /\ got \in [Loaders -> Contents \cup {Nil}] /\ notice \in [Loaders -> Contents \cup {Nil}]
  BY <1>2
<1>5. \A l \in Loaders :
        /\ had[l] # {} <=> pc[l] \in {"loading", "loaded"}
        /\ got[l] # Nil <=> pc[l] = "loaded"
        /\ notice[l] # Nil <=> pc[l] = "notifying"
  <2>1. {source} # {}
    OBVIOUS
  <2> TAKE l \in Loaders
  <2>2. CASE l = Main
    BY <1>3, <2>1, <2>2
  <2>3. CASE l # Main
    BY <1>3, <2>3
  <2> QED BY <2>2, <2>3
<1>6. /\ starts \in 0 .. MaxStarts /\ closes \in 0 .. MaxCloses
      /\ loop \in [Loops -> {"none", "running", "cancelled"}]
      /\ told \in [Subscribers -> Contents \cup {Nil}] /\ sole \in [Subscribers -> BOOLEAN]
  OBVIOUS
<1>7. TypeOK
  BY <1>1, <1>2, <1>4, <1>5, <1>6 DEF TypeOK
<1> QED BY <1>3, <1>7 DEF IInv, Fresh, OnlyStragglers, Informed, Loaders, Nil

LEMMA ChangeInv == ASSUME IInv, Change PROVE IInv'
<1> USE DEF Change, manager, notify
<1>1. TypeOK'
  BY DEF IInv, TypeOK, Contents
<1>2. Fresh'
  BY DEF IInv, TypeOK, Fresh
<1>3. OnlyStragglers' /\ Informed'
  BY DEF IInv, OnlyStragglers, Informed, OnlyCurrent, Pending
<1> QED BY <1>1, <1>2, <1>3 DEF IInv

LEMMA ReloadInv == ASSUME IInv, NEW l \in Loaders, ReloadConfig(l) PROVE IInv'
<1> USE DEF ReloadConfig, manager, notify
<1>1. TypeOK'
  BY DEF IInv, TypeOK
<1>2. Fresh' /\ OnlyStragglers'
  BY DEF IInv, TypeOK, Fresh, OnlyStragglers
<1>3. Informed'
  BY DEF IInv, TypeOK, Informed, OnlyCurrent, Pending
<1> QED BY <1>1, <1>2, <1>3 DEF IInv

LEMMA ReadInv == ASSUME IInv, NEW l \in Loaders, Read(l) PROVE IInv'
<1> USE DEF Read, manager, notify
<1>1. TypeOK'
  BY DEF IInv, TypeOK, Contents, Nil
<1>2. Fresh' /\ OnlyStragglers'
  BY DEF IInv, TypeOK, Fresh, OnlyStragglers
<1>3. Informed'
  BY DEF IInv, TypeOK, Informed, OnlyCurrent, Pending
<1> QED BY <1>1, <1>2, <1>3 DEF IInv

LEMMA FailInv == ASSUME IInv, NEW l \in Loaders, Fail(l) PROVE IInv'
<1> USE DEF Fail, notify
<1>1. TypeOK'
  BY DEF IInv, TypeOK
<1>2. Fresh' /\ OnlyStragglers'
  BY DEF IInv, TypeOK, Fresh, OnlyStragglers
<1>3. Informed'
  BY DEF IInv, TypeOK, Informed, OnlyCurrent, Pending
<1> QED BY <1>1, <1>2, <1>3 DEF IInv

LEMMA InstallInv == ASSUME IInv, NEW l \in Loaders, Install(l) PROVE IInv'
<1> USE DEF Install, Installed
<1>1. TypeOK'
  BY DEF IInv, TypeOK, Contents, Nil
<1>2. Fresh' /\ OnlyStragglers'
  BY DEF IInv, TypeOK, Fresh, OnlyStragglers
<1>3. Informed'
  <2> SUFFICES ASSUME NEW s \in Subscribers, sole'[s] PROVE OnlyCurrent(s)'
    BY DEF Informed
  <2>1. current # Nil /\ s \in callbacks /\ ~Pending(s)
    BY DEF IInv, TypeOK
  <2>2. pc'[l] = "notifying" /\ notice'[l] = current'
    BY <2>1 DEF IInv, TypeOK
  <2> QED BY <2>1, <2>2 DEF IInv, TypeOK, OnlyCurrent, Pending
<1> QED BY <1>1, <1>2, <1>3 DEF IInv

LEMMA RegisterInv ==
  ASSUME IInv, NEW s \in Subscribers, RegisterConfigChangeCallback(s) PROVE IInv'
<1> USE DEF RegisterConfigChangeCallback, manager, load
<1>1. TypeOK'
  BY DEF IInv, TypeOK
<1>2. Fresh' /\ OnlyStragglers'
  BY DEF IInv, Fresh, OnlyStragglers
<1>3. Informed'
  BY DEF IInv, TypeOK, Informed, OnlyCurrent, Pending
<1> QED BY <1>1, <1>2, <1>3 DEF IInv

LEMMA NotifyInv == ASSUME IInv, NEW l \in Loaders, Notify(l) PROVE IInv'
<1> USE DEF Notify, manager
<1>1. CASE calls' = calls (+) CallsFor(notice[l]) /\ UNCHANGED alive
  <2> DEFINE New == {[to |-> s, new |-> notice[l]] : s \in callbacks}
  <2>1. IsABag(calls') /\ BagToSet(calls') = BagToSet(calls) \cup New
    BY <1>1, BagAdd DEF IInv, TypeOK, CallsFor
  <2>2. New \subseteq Calls
    BY DEF IInv, TypeOK, Calls
  <2>3. TypeOK'
    BY <1>1, <2>1, <2>2 DEF IInv, TypeOK
  <2>4. Fresh' /\ OnlyStragglers'
    BY DEF IInv, TypeOK, Fresh, OnlyStragglers
  <2>5. Informed'
    <3> SUFFICES ASSUME alive, NEW s \in Subscribers, sole[s] PROVE OnlyCurrent(s)'
      BY <1>1 DEF Informed
    <3>1. OnlyCurrent(s)
      BY DEF IInv, Informed
    <3>2. notice[l] = current
      BY <3>1 DEF OnlyCurrent
    <3>3. \A c \in BagToSet(calls') : c.to = s => c.new = current
      BY <2>1, <3>1, <3>2 DEF OnlyCurrent
    <3>4. \E c \in BagToSet(calls') : c.to = s
      <4> DEFINE c == [to |-> s, new |-> notice[l]]
      <4>1. c \in New /\ c.to = s
        BY <3>1 DEF OnlyCurrent
      <4> HIDE DEF c, New
      <4>2. c \in BagToSet(calls')
        BY <2>1, <4>1
      <4> QED BY <4>1, <4>2
    <3> QED BY <3>1, <3>3, <3>4 DEF IInv, TypeOK, OnlyCurrent, Pending
  <2> QED BY <2>3, <2>4, <2>5 DEF IInv
<1>2. CASE alive' = FALSE /\ UNCHANGED calls
  <2>1. TypeOK'
    BY <1>2 DEF IInv, TypeOK
  <2>2. Fresh' /\ OnlyStragglers' /\ Informed'
    BY <1>2 DEF IInv, TypeOK, Fresh, OnlyStragglers, Informed
  <2> QED BY <2>1, <2>2 DEF IInv
<1> QED BY <1>1, <1>2

LEMMA RunCallbackInv ==
  ASSUME IInv, NEW c \in BagToSet(calls), RunCallback(c) PROVE IInv'
<1> USE DEF RunCallback, manager, load
<1>1. /\ IsABag(calls') /\ BagToSet(calls') \subseteq BagToSet(calls)
      /\ BagToSet(calls) \ {c} \subseteq BagToSet(calls')
  BY BagRemove DEF IInv, TypeOK
<1>2. c.to \in Subscribers /\ c.new \in Contents
  BY DEF IInv, TypeOK, Calls
<1>3. TypeOK'
  BY <1>1, <1>2 DEF IInv, TypeOK
<1>4. Fresh' /\ OnlyStragglers'
  BY DEF IInv, Fresh, OnlyStragglers
<1>5. Informed'
  <2> SUFFICES ASSUME alive, NEW s \in Subscribers, sole[s] PROVE OnlyCurrent(s)'
    BY DEF Informed
  <2>1. OnlyCurrent(s)
    BY DEF IInv, Informed
  <2>2. CASE c.to = s
    BY <1>1, <2>1, <2>2 DEF IInv, TypeOK, OnlyCurrent
  <2>3. CASE c.to # s
    BY <1>1, <2>1, <2>3 DEF IInv, TypeOK, OnlyCurrent, Pending
  <2> QED BY <2>2, <2>3
<1> QED BY <1>3, <1>4, <1>5 DEF IInv

\* The steps that start and stop auto-reload loops.
LEMMA LoopInv ==
  ASSUME IInv,
         \/ \E a \in Loops : StartAutoReload(a) \/ LoopExit(a)
         \/ StopAutoReload
  PROVE  IInv'
<1> USE DEF StartAutoReload, LoopExit, StopAutoReload, Cancelled, load, notify
<1>1. loop' \in [Loops -> {"none", "running", "cancelled"}]
  BY DEF IInv, TypeOK
<1>2. starts' \in 0 .. MaxStarts
  BY ConfigAssumption DEF IInv, TypeOK
<1>3. TypeOK'
  BY <1>1, <1>2 DEF IInv, TypeOK
<1>4. Fresh' /\ OnlyStragglers' /\ Informed'
  BY DEF IInv, Fresh, OnlyStragglers, Informed, OnlyCurrent, Pending
<1> QED BY <1>3, <1>4 DEF IInv

LEMMA CloseInv == ASSUME IInv, Close PROVE IInv'
<1> USE DEF Close, Closing, Cancelled, load
<1>1. loop' \in [Loops -> {"none", "running", "cancelled"}] /\ closes' \in 0 .. MaxCloses
  BY ConfigAssumption DEF IInv, TypeOK
<1>2. TypeOK'
  BY <1>1 DEF IInv, TypeOK
<1>3. Fresh' /\ OnlyStragglers' /\ Informed'
  BY DEF IInv, Fresh, OnlyStragglers, Informed
<1> QED BY <1>2, <1>3 DEF IInv

LEMMA UnchangedInv == ASSUME IInv, UNCHANGED vars PROVE IInv'
BY DEF IInv, TypeOK, Fresh, OnlyStragglers, Informed, OnlyCurrent, Pending, vars, manager, load, notify

\* What a step of the whole does to the manager.
LEMMA HotNextSteps ==
  ASSUME [HotNext]_hotVars
  PROVE  \/ alive /\ Step
         \/ ReloadConfig(Main)
         \/ UNCHANGED vars
BY DEF HotNext, HotStep, ManagerStep, Next, TakeConfig, TakeError, TakeNil, StartWatcher, WatcherStep, hotVars

LEMMA NextInv == IInv /\ [HotNext]_hotVars => IInv'
<1> SUFFICES ASSUME IInv, [HotNext]_hotVars PROVE IInv'
  OBVIOUS
<1>1. CASE Step
  BY <1>1, ChangeInv, ReadInv, FailInv, InstallInv, NotifyInv, RegisterInv,
     RunCallbackInv, LoopInv, ReloadInv, CloseInv DEF Step, LoopTick, Loaders
<1>2. CASE ReloadConfig(Main)
  BY <1>2, ReloadInv DEF Loaders
<1> QED BY <1>1, <1>2, UnchangedInv, HotNextSteps

\* The watcher's and main's part of the types.
HotPart == W!TypeOK /\ reload \in {"none", "running", "updated", "failed"}
             /\ (reload = "running" => pc[Main] # "idle")

LEMMA HotPartNext == TypeOK /\ HotPart /\ [HotNext]_hotVars => HotPart'
<1> SUFFICES ASSUME TypeOK, HotPart, [HotNext]_hotVars PROVE HotPart'
  OBVIOUS
<1>1. source \in 1 .. LastContent /\ Main \in Loaders
  BY DEF TypeOK, Contents, Loaders
<1>2. UNCHANGED watcher => W!TypeOK'
  BY DEF HotPart, W!TypeOK, watcher
<1>3. CASE UNCHANGED hotVars
  BY <1>2, <1>3 DEF HotPart, hotVars, vars, load
<1>4. CASE ManagerStep
  BY <1>2, <1>4 DEF ManagerStep, HotPart
<1>5. CASE StartWatcher
  BY <1>5 DEF StartWatcher, W!Start, HotPart, W!TypeOK, vars, load
<1>6. CASE WatcherStep
  <2>1. W!FirstLoad => W!TypeOK'
    BY <1>1 DEF W!FirstLoad, HotPart, W!TypeOK, W!Contents, W!Nil
  <2>2. W!Tick => W!TypeOK'
    BY <1>1 DEF W!Tick, HotPart, W!TypeOK, W!Contents, W!Nil
  <2>3. W!SendConfig \/ W!SendError => W!TypeOK'
    BY DEF W!SendConfig, W!SendError, HotPart, W!TypeOK, W!Contents, W!Nil
  <2> QED BY <1>6, <2>1, <2>2, <2>3 DEF WatcherStep, HotPart, vars, load
<1>7. CASE TakeConfig
  BY <1>1, <1>7 DEF TakeConfig, W!ReceiveConfig, ReloadConfig, HotPart, TypeOK, W!TypeOK, W!Nil
<1>8. CASE TakeError
  BY <1>8 DEF TakeError, W!ReceiveError, HotPart, W!TypeOK, vars, load
<1>9. CASE TakeNil
  BY <1>3, <1>9 DEF TakeNil
<1> QED BY <1>3, <1>4, <1>5, <1>6, <1>7, <1>8, <1>9 DEF HotNext, HotStep

-----------------------------------------------------------------------------
(* Theorems *)

\* The invariant behind the others, of manager, loops and callbacks under main
\* and the watcher, for any number of loops, subscribers and contents.
THEOREM Invariance == HotSpec => []IInv
<1> QED BY InitInv, NextInv, PTL DEF HotSpec

\* Types of manager, watcher and main, among them that a manager with a
\* configuration has options to reload it with.
THEOREM TypeCorrect == HotSpec => []HotTypeOK
<1>1. HotInit => HotPart
  BY DEF HotInit, HotPart, W!Init, W!TypeOK, W!Nil
<1>2. IInv => TypeOK
  BY DEF IInv
<1>3. IInv /\ HotPart => HotTypeOK
  BY <1>2 DEF HotPart, HotTypeOK
<1> QED BY <1>1, <1>2, <1>3, HotPartNext, Invariance, PTL DEF HotSpec

\* After Close the manager stays without a configuration, until a load that was
\* running when it was called installs one.
THEOREM CloseIsFinal == HotSpec => []ClosedStaysClear
<1>1. IInv => ClosedStaysClear
  BY DEF IInv, OnlyStragglers, ClosedStaysClear
<1> QED BY <1>1, Invariance, PTL

\* A callback whose last change was notified when no other was under way has
\* the current configuration once no call to it is left.
THEOREM KeepingUp == HotSpec => []CallbacksKeepUp
<1>1. IInv => CallbacksKeepUp
  BY DEF IInv, Informed, OnlyCurrent, CallbacksKeepUp
<1> QED BY <1>1, Invariance, PTL

\* Every step of the manager, whoever loads, is a step of ConfigStore or none.
LEMMA StoreStep == IInv /\ [HotNext]_hotVars => [Store!Next]_(Store!vars)
<1> SUFFICES ASSUME IInv, [HotNext]_hotVars PROVE [Store!Next]_(Store!vars)
  OBVIOUS
<1> USE DEF Store!vars
<1>1. ASSUME NEW l \in Loaders, ReloadConfig(l) PROVE Store!Begin(l) \/ UNCHANGED Store!vars
  BY <1>1 DEF ReloadConfig, Store!Begin, manager, IInv, TypeOK
<1>2. ASSUME NEW l \in Loaders, Fail(l) PROVE Store!Abandon(l)
  BY <1>2 DEF Fail, Store!Abandon
<1>3. ASSUME NEW l \in Loaders, Install(l) PROVE Store!Finish(l)
  BY <1>3 DEF Install, Installed, Store!Finish, IInv, Fresh
<1>4. CASE Change
  BY <1>4 DEF Change, manager, Store!Edit, Store!Next
<1>5. CASE Close
  BY <1>5 DEF Close, Closing, load, Store!Clear, Store!Next
<1>6. CASE \E l \in Loaders : Read(l) \/ Notify(l)
  BY <1>6 DEF Read, Notify, manager
<1>7. CASE \/ \E s \in Subscribers : RegisterConfigChangeCallback(s)
           \/ \E c \in BagToSet(calls) : RunCallback(c)
  BY <1>7 DEF RegisterConfigChangeCallback, RunCallback, manager, load
<1>8. CASE StopAutoReload \/ \E a \in Loops : StartAutoReload(a) \/ LoopExit(a)
  BY <1>8 DEF StopAutoReload, StartAutoReload, LoopExit, load
<1>9. CASE Step
  BY <1>1, <1>2, <1>3, <1>4, <1>5, <1>6, <1>7, <1>8, <1>9 DEF Step, LoopTick, Loaders, Store!Next
<1>10. CASE UNCHANGED vars
  BY <1>10 DEF vars, manager, load
<1> QED BY <1>1, <1>9, <1>10, HotNextSteps DEF Loaders, Store!Next

\* The manager implements ConfigStore: whatever loads overlap, it only ever
\* installs what the sources had during the installing load.
THEOREM Refinement == HotSpec => ImplementsStore
<1>1. HotInit => Store!Init
  BY ConfigAssumption DEF HotInit, Init, Store!Init, Contents
<1> QED BY <1>1, StoreStep, Invariance, PTL DEF HotSpec, ImplementsStore, Store!Spec
=============================================================================
