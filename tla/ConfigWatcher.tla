--------------------------- MODULE ConfigWatcher ---------------------------
(***************************************************************************)
(* internal/config/loader.go, WatchConfig: a goroutine that loads the      *)
(* configuration, reports it, then loads it again at every tick and        *)
(* reports what differs from its last report.  Configurations and errors   *)
(* go to two channels of capacity one.                                     *)
(***************************************************************************)
EXTENDS Integers

CONSTANT LastContent

VARIABLES
    source,     \* what a load would read
    watch,      \* where the goroutine is
    lastConfig, \* its lastConfig; 0 is nil
    configChan, \* the buffered configuration, 0 if none
    errorChan   \* is an error buffered?

watcher == <<watch, lastConfig, configChan, errorChan>>

Contents == 1 .. LastContent
Nil == 0

TypeOK ==
    /\ watch \in {"off", "first", "send", "wait", "error", "lastError", "closed"}
    /\ lastConfig \in Contents \cup {Nil}
    /\ configChan \in Contents \cup {Nil}
    /\ errorChan \in BOOLEAN
    /\ watch \in {"send", "wait", "error"} => lastConfig # Nil

Init ==
    /\ watch = "off"
    /\ lastConfig = Nil
    /\ configChan = Nil
    /\ errorChan = FALSE

Start ==
    /\ watch = "off"
    /\ watch' = "first"
    /\ UNCHANGED <<lastConfig, configChan, errorChan>>

\* The initial load; its error is the watcher's last.
FirstLoad ==
    /\ watch = "first"
    /\ \/ watch' = "send" /\ lastConfig' = source
       \/ watch' = "lastError" /\ UNCHANGED lastConfig
    /\ UNCHANGED <<configChan, errorChan>>

\* Mutant: a failed load counts as what was last seen.
TickForgetting ==
    /\ watch = "wait"
    /\ lastConfig' = source
    /\ watch' \in {"error", IF source # lastConfig THEN "send" ELSE "wait"}
    /\ UNCHANGED <<configChan, errorChan>>

\* A tick: load, compare with the last report.
Tick ==
    /\ watch = "wait"
    /\ \/ /\ source # lastConfig
          /\ lastConfig' = source
          /\ watch' = "send"
       \/ /\ source = lastConfig
          /\ UNCHANGED <<watch, lastConfig>>
       \/ /\ watch' = "error"
          /\ UNCHANGED lastConfig
    /\ UNCHANGED <<configChan, errorChan>>

\* Both sends block while the buffer is full.
SendConfig ==
    /\ watch = "send" /\ configChan = Nil
    /\ configChan' = lastConfig
    /\ watch' = "wait"
    /\ UNCHANGED <<lastConfig, errorChan>>

SendError ==
    /\ watch \in {"error", "lastError"} /\ ~errorChan
    /\ errorChan' = TRUE
    /\ watch' = IF watch = "error" THEN "wait" ELSE "closed"
    /\ UNCHANGED <<lastConfig, configChan>>

\* The consumer's side.
ReceiveConfig ==
    /\ configChan # Nil
    /\ configChan' = Nil
    /\ UNCHANGED <<watch, lastConfig, errorChan>>

ReceiveError ==
    /\ errorChan
    /\ errorChan' = FALSE
    /\ UNCHANGED <<watch, lastConfig, configChan>>
=============================================================================
