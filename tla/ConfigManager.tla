--------------------------- MODULE ConfigManager ---------------------------
(***************************************************************************)
(* internal/config/manager.go: the configuration manager.  A load reads    *)
(* the sources without the lock and installs what it read under it, so     *)
(* loads of several goroutines overlap: main's, the loops StartAutoReload  *)
(* started, and loops it cancelled that have not noticed yet.              *)
(*                                                                         *)
(* What a configuration contains does not matter here, only which of the   *)
(* sources' contents it was read from.                                     *)
(*                                                                         *)
(* A load that replaces a configuration has every registered callback run  *)
(* in a goroutine of its own.  It reads the slice of callbacks without the *)
(* lock: a registration or a Close meanwhile is a data race, in which the  *)
(* slice's pointer and length may not belong together, and the process     *)
(* dies on a callback that is not there.                                   *)
(***************************************************************************)
EXTENDS Integers, Bags

CONSTANTS
    Main,       \* the goroutine of cmd/main.go
    Loops,      \* the goroutines that StartAutoReload can start
    LastContent,\* bound: the sources take the contents 1 .. LastContent
    Subscribers,\* the callbacks that may be registered
    MaxPending, \* bound: callbacks spawned that have not run yet
    Reverts,    \* may the sources return to an earlier content?
    MaxStarts,  \* bound: calls of StartAutoReload
    MaxCloses   \* bound: calls of Close

ASSUME ConfigAssumption ==
    /\ Main \notin Loops
    /\ LastContent \in Nat \ {0}
    /\ Reverts \in BOOLEAN
    /\ MaxStarts \in Nat /\ MaxCloses \in Nat /\ MaxPending \in Nat

VARIABLES
    source,     \* what the ConfigMap, the Secret and the environment say
    current,    \* currentConfig, with its feature flags; 0 is nil
    hasOptions, \* loadOptions # nil
    pc,         \* where each goroutine is in LoadConfig
    got,        \* the configuration it has read
    loop,       \* each auto-reload goroutine and its context
    starts,
    closes,
    stragglers, \* the loads running since before Close was last called
    closed,     \* Close was called, and none of them installed anything since
    had,        \* history: what the sources said since each load began
    callbacks,  \* the callbacks registered
    notice,     \* the configuration a load is about to notify of
    racing,     \* the loads about to read a slice that was written meanwhile
    calls,      \* the callbacks' goroutines, a bag of calls
    told,       \* the configuration each callback was called with last
    sole,       \* history: the last change is the only one on its way to it
    alive       \* the process has not crashed

manager  == <<current, hasOptions, loop, starts, closes, stragglers, closed>>
load     == <<pc, got, had>>
notify   == <<callbacks, notice, racing, calls, told, sole, alive>>
vars     == <<source, manager, load, notify>>

Loaders  == {Main} \cup Loops
Contents == 1 .. LastContent
Nil      == 0
Calls    == [to : Subscribers, new : Contents]

TypeOK ==
    /\ source \in Contents
    /\ current \in Contents \cup {Nil}
    /\ hasOptions \in BOOLEAN
    /\ pc \in [Loaders -> {"idle", "loading", "loaded", "notifying"}]
    /\ got \in [Loaders -> Contents \cup {Nil}]
    /\ \A l \in Loaders : got[l] # Nil <=> pc[l] = "loaded"
    /\ loop \in [Loops -> {"none", "running", "cancelled"}]
    /\ starts \in 0 .. MaxStarts /\ closes \in 0 .. MaxCloses
    /\ stragglers \subseteq {l \in Loaders : pc[l] \in {"loading", "loaded"}}
    /\ closed \in BOOLEAN /\ alive \in BOOLEAN
    /\ current # Nil => hasOptions
    /\ had \in [Loaders -> SUBSET Contents]
    /\ \A l \in Loaders : had[l] # {} <=> pc[l] \in {"loading", "loaded"}
    /\ notice \in [Loaders -> Contents \cup {Nil}]
    /\ \A l \in Loaders : notice[l] # Nil <=> pc[l] = "notifying"
    /\ callbacks \subseteq Subscribers
    /\ racing \subseteq {l \in Loaders : pc[l] = "notifying"}
    /\ IsABag(calls) /\ BagToSet(calls) \subseteq Calls
    /\ told \in [Subscribers -> Contents \cup {Nil}]
    /\ sole \in [Subscribers -> BOOLEAN]

\* main's first call is LoadConfig.
Init ==
    /\ source = 1
    /\ current = Nil
    /\ hasOptions = FALSE
    /\ pc = [l \in Loaders |-> IF l = Main THEN "loading" ELSE "idle"]
    /\ got = [l \in Loaders |-> Nil]
    /\ loop = [l \in Loops |-> "none"]
    /\ starts = 0 /\ closes = 0
    /\ stragglers = {}
    /\ closed = FALSE
    /\ had = [l \in Loaders |-> IF l = Main THEN {source} ELSE {}]
    /\ callbacks = {}
    /\ notice = [l \in Loaders |-> Nil]
    /\ racing = {}
    /\ calls = EmptyBag
    /\ told = [s \in Subscribers |-> Nil]
    /\ sole = [s \in Subscribers |-> FALSE]
    /\ alive = TRUE

-----------------------------------------------------------------------------
\* The sources are edited.
Change ==
    /\ \E c \in Contents : (c > source \/ (Reverts /\ c # source)) /\ source' = c
    /\ had' = [l \in Loaders |-> IF had[l] = {} THEN {} ELSE had[l] \cup {source'}]
    /\ UNCHANGED <<manager, pc, got, notify>>

\* ReloadConfig with the options of the last load; an error without them.
ReloadConfig(l) ==
    /\ pc[l] = "idle"
    /\ IF hasOptions
       THEN /\ pc' = [pc EXCEPT ![l] = "loading"]
            /\ had' = [had EXCEPT ![l] = {source}]
       ELSE UNCHANGED <<pc, had>>
    /\ UNCHANGED <<source, manager, got, notify>>

\* LoadWithPriority returns.
Read(l) ==
    /\ pc[l] = "loading"
    /\ pc' = [pc EXCEPT ![l] = "loaded"]
    /\ got' = [got EXCEPT ![l] = source]
    /\ UNCHANGED <<source, manager, had, notify>>

\* Mutant: what a failed LoadWithPriority returns, nil, is stored all the same.
FailClearing(l) ==
    /\ pc[l] = "loading"
    /\ pc' = [pc EXCEPT ![l] = "idle"]
    /\ had' = [had EXCEPT ![l] = {}]
    /\ stragglers' = stragglers \ {l}
    /\ current' = Nil
    /\ UNCHANGED <<source, hasOptions, loop, starts, closes, closed, got, notify>>

\* LoadWithPriority fails: a source that cannot be read, a value that does not
\* parse, a configuration that is not valid.
Fail(l) ==
    /\ pc[l] = "loading"
    /\ pc' = [pc EXCEPT ![l] = "idle"]
    /\ had' = [had EXCEPT ![l] = {}]
    /\ stragglers' = stragglers \ {l}
    /\ UNCHANGED <<source, current, hasOptions, loop, starts, closes, closed, got, notify>>

\* Is a change on its way to s, or about to be?
Pending(s) ==
    \/ s \in callbacks /\ \E l \in Loaders : pc[l] = "notifying"
    \/ \E c \in BagToSet(calls) : c.to = s

\* The lock is released: a change of configuration has the callbacks notified,
\* a first configuration ends the load.
Installed(l, old, new) ==
    /\ pc' = [pc EXCEPT ![l] = IF old = Nil THEN "idle" ELSE "notifying"]
    /\ notice' = [notice EXCEPT ![l] = IF old = Nil THEN Nil ELSE new]
    /\ sole' = [s \in Subscribers |-> old # Nil /\ s \in callbacks /\ ~Pending(s)]
    /\ got' = [got EXCEPT ![l] = Nil]
    /\ had' = [had EXCEPT ![l] = {}]
    /\ stragglers' = stragglers \ {l}
    /\ closed' = (closed /\ l \notin stragglers)
    /\ UNCHANGED <<source, loop, starts, closes, callbacks, racing, calls, told, alive>>

\* Mutants: only the first load stores its configuration; callbacks are called
\* with the configuration that was replaced.
InstallFirst(l) ==
    /\ pc[l] = "loaded"
    /\ current' = IF current = Nil THEN got[l] ELSE current
    /\ hasOptions' = TRUE
    /\ Installed(l, current, got[l])
InstallNotifyingOld(l) ==
    /\ pc[l] = "loaded"
    /\ current' = got[l]
    /\ hasOptions' = TRUE
    /\ Installed(l, current, current)

\* LoadConfig's critical section.
Install(l) ==
    /\ pc[l] = "loaded"
    /\ current' = got[l]
    /\ hasOptions' = TRUE
    /\ Installed(l, current, got[l])

-----------------------------------------------------------------------------
(* Callbacks *)

RegisterConfigChangeCallback(s) ==
    /\ s \notin callbacks
    /\ callbacks' = callbacks \cup {s}
    /\ racing' = {l \in Loaders : pc[l] = "notifying"}
    /\ UNCHANGED <<source, manager, load, notice, calls, told, sole, alive>>

\* A goroutine for each callback of the slice.  Its other argument, a copy of
\* the configuration that was replaced, is left out.
CallsFor(new) == SetToBag({[to |-> s, new |-> new] : s \in callbacks})

\* notifyCallbacks, the end of the load.
Notify(l) ==
    /\ pc[l] = "notifying"
    /\ pc' = [pc EXCEPT ![l] = "idle"]
    /\ notice' = [notice EXCEPT ![l] = Nil]
    /\ racing' = racing \ {l}
    /\ \/ /\ calls' = calls (+) CallsFor(notice[l])
          /\ BagCardinality(calls') <= MaxPending
          /\ UNCHANGED alive
       \/ /\ l \in racing
          /\ alive' = FALSE
          /\ UNCHANGED calls
    /\ UNCHANGED <<source, manager, got, had, callbacks, told, sole>>

\* A callback runs, in no particular order; one that panics is recovered.
RunCallback(c) ==
    /\ calls' = calls (-) SetToBag({c})
    /\ told' = [told EXCEPT ![c.to] = c.new]
    /\ UNCHANGED <<source, manager, load, callbacks, notice, racing, sole, alive>>

-----------------------------------------------------------------------------
Cancelled(a) == [b \in Loops |-> IF a[b] = "running" THEN "cancelled" ELSE a[b]]

\* A new loop; the one before, if any, is cancelled and not waited for.
StartAutoReload(a) ==
    /\ loop[a] = "none" /\ starts < MaxStarts
    /\ loop' = [Cancelled(loop) EXCEPT ![a] = "running"]
    /\ starts' = starts + 1
    /\ UNCHANGED <<source, current, hasOptions, closes, stragglers, closed, load, notify>>

StopAutoReload ==
    /\ loop' = Cancelled(loop)
    /\ UNCHANGED <<source, current, hasOptions, starts, closes, stragglers, closed, load, notify>>

\* autoReloadLoop: the ticker, which select may take from a cancelled loop too.
LoopTick(a) == loop[a] # "none" /\ ReloadConfig(a)

\* autoReloadLoop: ctx.Done.
LoopExit(a) ==
    /\ loop[a] = "cancelled" /\ pc[a] = "idle"
    /\ loop' = [loop EXCEPT ![a] = "none"]
    /\ UNCHANGED <<source, current, hasOptions, starts, closes, stragglers, closed, load, notify>>

\* Close and whoever is loading or notifying: neither is waited for.
Closing ==
    /\ closes < MaxCloses
    /\ closes' = closes + 1
    /\ loop' = Cancelled(loop)
    /\ stragglers' = {l \in Loaders : pc[l] \in {"loading", "loaded"}}
    /\ closed' = TRUE
    /\ callbacks' = {}
    /\ racing' = IF callbacks = {} THEN racing ELSE {l \in Loaders : pc[l] = "notifying"}
    /\ sole' = [s \in Subscribers |-> FALSE]
    /\ UNCHANGED <<source, starts, load, notice, calls, told, alive>>

\* Mutants: Close leaves the configuration, or the load options.
CloseKeepingConfig  == Closing /\ hasOptions' = FALSE /\ UNCHANGED current
CloseKeepingOptions == Closing /\ current' = Nil /\ UNCHANGED hasOptions

\* Close stops the loop and clears the state; loads that run go on.
Close == Closing /\ current' = Nil /\ hasOptions' = FALSE

Step ==
    \/ Change
    \/ \E l \in Loaders : Read(l) \/ Fail(l) \/ Install(l) \/ Notify(l)
    \/ \E s \in Subscribers : RegisterConfigChangeCallback(s)
    \/ \E c \in BagToSet(calls) : RunCallback(c)
    \/ \E a \in Loops : StartAutoReload(a) \/ LoopTick(a) \/ LoopExit(a)
    \/ StopAutoReload
    \/ Close

Next == alive /\ Step

Spec == Init /\ [][Next]_vars

-----------------------------------------------------------------------------
(* Properties *)

\* The manager as its readers see it: a step of a load maps to no step until the
\* configuration is installed.
Store == INSTANCE ConfigStore WITH
           Loaders <- Loaders, Contents <- Contents, Nil <- Nil,
           source <- source, current <- current, had <- had

\* Every configuration LoadConfig installs is one the sources had during that
\* very load, and only Close takes the configuration away, whichever loads,
\* reloads and callbacks overlap: the manager implements ConfigStore.
ImplementsStore == Store!Spec

\* A callback that keeps the configuration it was called with has the current
\* one as soon as no call to it is on its way, provided the last change was
\* installed when no earlier one was.  (Calls that overlap come in any order.)
CallbacksKeepUp ==
    \A s \in Subscribers : alive /\ sole[s] /\ ~Pending(s) => told[s] = current

\* After Close the manager has no configuration, whatever loop is still to
\* notice it, unless a load that was already running then installs one.
ClosedStaysClear == closed => current = Nil

\* With auto-reload on, the manager ends up with what the sources say, however
\* many loads fail or install something that has changed meanwhile.
AutoReloadConverges ==
    (<>[](alive /\ hasOptions /\ \E a \in Loops : loop[a] = "running"))
        => <>[](current = source)
=============================================================================
