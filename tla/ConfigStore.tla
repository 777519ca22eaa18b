----------------------------- MODULE ConfigStore -----------------------------
(***************************************************************************)
(* What the configuration manager promises its readers, without the steps  *)
(* it takes: a load that ends well puts in place a content that the        *)
(* sources had at some moment of that load, never one from before it, and  *)
(* nothing but such a load or a clearing changes what readers get.         *)
(***************************************************************************)
CONSTANTS
    Loaders,   \* who may load
    Contents,  \* what the sources may say
    Nil        \* no configuration

VARIABLES
    source,    \* what the sources say
    current,   \* what readers get
    had        \* what the sources have said since a load began; {} without one

vars == <<source, current, had>>

Init ==
    /\ source \in Contents
    /\ current = Nil
    /\ had \in [Loaders -> {{}, {source}}]

Edit ==
    /\ source' \in Contents
    /\ had' = [l \in Loaders |-> IF had[l] = {} THEN {} ELSE had[l] \cup {source'}]
    /\ UNCHANGED current

Begin(l) ==
    /\ had[l] = {}
    /\ had' = [had EXCEPT ![l] = {source}]
    /\ UNCHANGED <<source, current>>

Finish(l) ==
    /\ current' \in had[l]
    /\ had' = [had EXCEPT ![l] = {}]
    /\ UNCHANGED source

Abandon(l) ==
    /\ had' = [had EXCEPT ![l] = {}]
    /\ UNCHANGED <<source, current>>

Clear ==
    /\ current' = Nil
    /\ UNCHANGED <<source, had>>

Next ==
    \/ Edit
    \/ \E l \in Loaders : Begin(l) \/ Finish(l) \/ Abandon(l)
    \/ Clear

Spec == Init /\ [][Next]_vars
=============================================================================
