----------------------------- MODULE RecordLife -----------------------------
(***************************************************************************)
(* The life of a CloudflareRecord as its users see it, without cache,      *)
(* queue, workers and restarts: who may take a record from which phase to  *)
(* which.  A new record is protected by a finalizer before it is ready,    *)
(* only the operator makes it ready, an edit makes it pending again, and   *)
(* once protected it goes away only when the operator releases it after a  *)
(* user's deletion.                                                        *)
(***************************************************************************)
EXTENDS Naturals

CONSTANT Records

VARIABLES
    phase,  \* of each record
    edits   \* the writes of users so far: what tells their steps apart

vars == <<phase, edits>>

Phases    == {"absent", "new", "pending", "ready", "terminating"}
Protected == {"pending", "ready"}

Init ==
    /\ phase = [k \in Records |-> "absent"]
    /\ edits = 0

Takes(k, from, to) ==
    /\ phase[k] \in from
    /\ phase' = [phase EXCEPT ![k] = to]

User(k) ==
    /\ \/ Takes(k, {"absent", "new"}, "new")      \* create, edit
       \/ Takes(k, {"new"}, "absent")             \* delete
       \/ Takes(k, Protected, "pending")          \* edit
       \/ Takes(k, Protected, "terminating")      \* delete
    /\ edits' = edits + 1

Operator(k) ==
    /\ \/ Takes(k, {"new"}, "pending")
       \/ Takes(k, {"pending"}, "ready")
       \/ Takes(k, {"terminating"}, "absent")
    /\ UNCHANGED edits

Next == \E k \in Records : User(k) \/ Operator(k)

Spec == Init /\ [][Next]_vars
=============================================================================
