----------------------------- MODULE HotReload -----------------------------
(***************************************************************************)
(* cmd/main.go: the configuration is loaded once, and then a goroutine     *)
(* takes what WatchConfig reports and has the configuration manager        *)
(* reload.  The watcher and the manager each load for themselves, at       *)
(* different moments, from sources that change.                            *)
(***************************************************************************)
EXTENDS ConfigManager

VARIABLES
    watch, lastConfig, configChan, errorChan,
    reload  \* how main's last ReloadConfig went, as it logs it

W == INSTANCE ConfigWatcher

watcher == <<watch, lastConfig, configChan, errorChan>>
hotVars == <<vars, watcher, reload>>

HotTypeOK ==
    /\ TypeOK
    /\ W!TypeOK
    /\ reload \in {"none", "running", "updated", "failed"}
    /\ reload = "running" => pc[Main] # "idle"

HotInit ==
    /\ Init
    /\ W!Init
    /\ reload = "none"

\* The goroutine is started when the initial LoadConfig is done with, well or not.
StartWatcher ==
    /\ pc[Main] = "idle"
    /\ W!Start
    /\ UNCHANGED <<vars, reload>>

WatcherStep ==
    /\ W!FirstLoad \/ W!Tick \/ W!SendConfig \/ W!SendError
    /\ UNCHANGED <<vars, reload>>

\* main's select, case newConfig.
TakeConfig ==
    /\ pc[Main] = "idle"
    /\ W!ReceiveConfig
    /\ ReloadConfig(Main)
    /\ reload' = IF pc'[Main] = "idle" THEN "failed" ELSE "running"

\* main's select, case err: logged.
TakeError ==
    /\ pc[Main] = "idle"
    /\ W!ReceiveError
    /\ UNCHANGED <<vars, reload>>

\* main's select on two closed channels: nil at once, again and again.
TakeNil ==
    /\ watch = "closed" /\ pc[Main] = "idle"
    /\ UNCHANGED hotVars

\* A step of the manager, main's return from ReloadConfig among them.
ManagerStep ==
    /\ Next
    /\ reload' = IF reload # "running" \/ pc'[Main] # "idle" THEN reload
                 ELSE IF pc[Main] = "loading" THEN "failed" ELSE "updated"
    /\ UNCHANGED watcher

HotStep == StartWatcher \/ WatcherStep \/ TakeConfig \/ TakeError \/ TakeNil \/ ManagerStep

HotNext == alive /\ HotStep

HotSpec == HotInit /\ [][HotNext]_hotVars

\* As for the manager; main's select serves either channel when it is ready.
HotFairness ==
    /\ \A l \in Loaders :
         /\ WF_hotVars((Read(l) \/ Fail(l) \/ Install(l) \/ Notify(l)) /\ ManagerStep)
         /\ SF_hotVars(Read(l) /\ ManagerStep)
    /\ \A a \in Loops :
         WF_hotVars(LoopTick(a) /\ ManagerStep) /\ WF_hotVars(LoopExit(a) /\ ManagerStep)
    /\ WF_hotVars((\E c \in BagToSet(calls) : RunCallback(c)) /\ ManagerStep)
    /\ WF_hotVars(StartWatcher)
    /\ WF_hotVars(WatcherStep)
    /\ SF_hotVars(W!Tick /\ watch' # "error" /\ WatcherStep)
    /\ WF_hotVars(TakeConfig)
    /\ WF_hotVars(TakeError)

HotFairSpec == HotSpec /\ HotFairness

-----------------------------------------------------------------------------
(* Properties *)

\* With auto-reload off, as main has it, if no content ever returns and main's
\* last reload went well, hot reload ends up with what the sources say: no
\* change is lost between report and reload, in a full channel or behind errors.
HotReloadConverges ==
    (<>[](alive /\ watch # "closed" /\ reload = "updated" /\ starts + closes = 0))
        => <>[](current = source)

\* "hot-reload support": while the watcher runs, what the sources say comes to
\* be the configuration.
HotReloads ==
    (<>[](watch \in {"wait", "send", "error"} /\ closes = 0 /\ alive)) => <>[](current = source)
=============================================================================
