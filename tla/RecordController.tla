-------------------------- MODULE RecordController --------------------------
(***************************************************************************)
(* internal/controller/cloudflarerecord_controller.go: the reconciler of   *)
(* CloudflareRecord objects, with what it runs on: the API server that     *)
(* stores the objects, the informer cache that lags behind it, and the     *)
(* work queue that hands a key to one worker at a time.                    *)
(*                                                                         *)
(* A resourceVersion is only ever compared for equality with the stored    *)
(* one, so the copy in the cache and the copy in a worker's hands each     *)
(* carry, instead, whether the stored object is still the one they copy.   *)
(***************************************************************************)
EXTENDS Integers, FiniteSets

CONSTANTS
    Records,                 \* names of CloudflareRecord objects
    MaxConcurrentReconciles,
    FlagValues,   \* what a configuration gives the flag EnableReconciliation
    MaxEdits,     \* bound: creations, edits and deletions by users
    MaxLoads,     \* bound: configurations loaded
    MaxCrashes    \* bound: restarts of the operator

ASSUME ControllerAssumption ==
    /\ IsFiniteSet(Records)
    /\ MaxConcurrentReconciles \in Nat \ {0}
    /\ FlagValues \subseteq {"unset", "true", "false"}
    /\ MaxEdits \in Nat /\ MaxLoads \in Nat /\ MaxCrashes \in Nat

VARIABLES
    server,      \* the stored object of each record, or Absent
    cache,       \* the informer's copy
    cacheFresh,  \* the copy is of the stored version
    dirty,       \* keys waiting in the work queue
    delayed,     \* keys to be added to it later (RequeueAfter, retry backoff)
    pc,          \* where each key's reconcile is
    object,      \* the reconcile's own copy, cloudflareRecord
    objectFresh, \* that copy is of the stored version
    flag,        \* EnableReconciliation in the config manager
    edits, loads, crashes

store    == <<server, cache, cacheFresh>>
queue    == <<dirty, delayed>>
workers  == <<pc, object, objectFresh>>
counters == <<edits, loads, crashes>>
vars     == <<store, queue, workers, flag, counters>>

Absent == [exists |-> FALSE]

Object == [exists : {TRUE}, generation : 1 .. (MaxEdits + 1), deleting : BOOLEAN,
           finalizer : BOOLEAN, observed : 0 .. (MaxEdits + 1)]

\* IsConfigured and IsEnabled("EnableReconciliation"): not one of the standard
\* flags, so false unless a custom flag sets it; without any configuration
\* loaded, the flag is not looked at.
Enabled == flag \in {"unconfigured", "true"}

Processing == {k \in Records : pc[k] # "idle"}

TypeOK ==
    /\ server \in [Records -> Object \cup {Absent}]
    /\ cache \in [Records -> Object \cup {Absent}]
    /\ object \in [Records -> Object \cup {Absent}]
    /\ \A k \in Records :
         server[k] # Absent => server[k].observed <= server[k].generation
    /\ cacheFresh \in [Records -> BOOLEAN]
    /\ objectFresh \in [Records -> BOOLEAN]
    /\ dirty \subseteq Records /\ delayed \subseteq Records
    /\ pc \in [Records -> {"idle", "get", "finalizer", "status", "delete"}]
    /\ flag \in {"unconfigured"} \cup FlagValues
    /\ edits \in 0 .. MaxEdits /\ loads \in 0 .. MaxLoads /\ crashes \in 0 .. MaxCrashes

Init ==
    /\ server = [k \in Records |-> Absent]
    /\ cache = server
    /\ cacheFresh = [k \in Records |-> TRUE]
    /\ dirty = {} /\ delayed = {}
    /\ pc = [k \in Records |-> "idle"]
    /\ object = [k \in Records |-> Absent]
    /\ objectFresh = [k \in Records |-> FALSE]
    /\ flag = "unconfigured"
    /\ edits = 0 /\ loads = 0 /\ crashes = 0

-----------------------------------------------------------------------------
(* Users and the API server *)

\* The stored object of k becomes o, a new version: every copy is out of date.
Store(k, o) ==
    /\ server' = [server EXCEPT ![k] = o]
    /\ cacheFresh' = [cacheFresh EXCEPT ![k] = FALSE]
    /\ UNCHANGED cache

UserWrite(k, o) ==
    /\ edits < MaxEdits
    /\ edits' = edits + 1
    /\ Store(k, o)
    /\ objectFresh' = [objectFresh EXCEPT ![k] = FALSE]
    /\ UNCHANGED <<queue, pc, object, flag, loads, crashes>>

Create(k) ==
    /\ server[k] = Absent
    /\ UserWrite(k, [exists |-> TRUE, generation |-> 1, deleting |-> FALSE,
                     finalizer |-> FALSE, observed |-> 0])

EditSpec(k) ==
    /\ server[k] # Absent /\ ~server[k].deleting
    /\ UserWrite(k, [server[k] EXCEPT !.generation = @ + 1])

\* With a finalizer the object stays, marked; without one it is gone.
Delete(k) ==
    /\ server[k] # Absent /\ ~server[k].deleting
    /\ UserWrite(k, IF server[k].finalizer
                    THEN [server[k] EXCEPT !.deleting = TRUE, !.generation = @ + 1]
                    ELSE Absent)

-----------------------------------------------------------------------------
(* Informer and work queue *)

\* A watch event updates the cache and enqueues the key.
Deliver(k) ==
    /\ ~cacheFresh[k]
    /\ cache' = [cache EXCEPT ![k] = server[k]]
    /\ cacheFresh' = [cacheFresh EXCEPT ![k] = TRUE]
    /\ dirty' = dirty \cup {k}
    /\ UNCHANGED <<server, delayed, workers, flag, counters>>

Requeue(k) ==
    /\ k \in delayed
    /\ delayed' = delayed \ {k}
    /\ dirty' = dirty \cup {k}
    /\ UNCHANGED <<store, workers, flag, counters>>

\* The queue never hands out a key that is being processed.
StartReconcile(k) ==
    /\ k \in dirty /\ pc[k] = "idle"
    /\ Cardinality(Processing) < MaxConcurrentReconciles
    /\ dirty' = dirty \ {k}
    /\ pc' = [pc EXCEPT ![k] = "get"]
    /\ UNCHANGED <<store, delayed, object, objectFresh, flag, counters>>

-----------------------------------------------------------------------------
(* Reconcile *)

Return(k) ==
    /\ pc' = [pc EXCEPT ![k] = "idle"]
    /\ object' = [object EXCEPT ![k] = Absent]
    /\ objectFresh' = [objectFresh EXCEPT ![k] = FALSE]

\* ctrl.Result{RequeueAfter: ...}, or an error, which the queue retries.
ReturnAndRequeue(k) ==
    /\ Return(k)
    /\ delayed' = delayed \cup {k}
    /\ UNCHANGED dirty

ReturnForGood(k) == Return(k) /\ UNCHANGED queue

\* The step the reconciler goes on to with the object it has read.
NextWrite(o) == IF o.deleting THEN "delete"
                ELSE IF ~o.finalizer THEN "finalizer" ELSE "status"

\* Mutant: a disabled reconcile is not looked at again.
GetForgettingDisabled(k) ==
    /\ pc[k] = "get"
    /\ IF cache[k] = Absent \/ ~Enabled
       THEN ReturnForGood(k)
       ELSE /\ pc' = [pc EXCEPT ![k] = NextWrite(cache[k])]
            /\ object' = [object EXCEPT ![k] = cache[k]]
            /\ objectFresh' = [objectFresh EXCEPT ![k] = cacheFresh[k]]
            /\ UNCHANGED queue
    /\ UNCHANGED <<store, flag, counters>>

\* r.Get from the cache, the feature flag, and the branch to take.
Get(k) ==
    /\ pc[k] = "get"
    /\ IF cache[k] = Absent THEN ReturnForGood(k)
       ELSE IF ~Enabled THEN ReturnAndRequeue(k)
       ELSE /\ pc' = [pc EXCEPT ![k] = NextWrite(cache[k])]
            /\ object' = [object EXCEPT ![k] = cache[k]]
            /\ objectFresh' = [objectFresh EXCEPT ![k] = cacheFresh[k]]
            /\ UNCHANGED queue
    /\ UNCHANGED <<store, flag, counters>>

\* r.Update with the finalizer added: the answer is the new stored version.
AddFinalizer(k) ==
    /\ pc[k] = "finalizer" /\ objectFresh[k]
    /\ object' = [object EXCEPT ![k].finalizer = TRUE]
    /\ Store(k, object'[k])
    /\ pc' = [pc EXCEPT ![k] = "status"]
    /\ UNCHANGED <<queue, objectFresh, flag, counters>>

\* updateStatus: Ready, its condition and ObservedGeneration.
WithStatus(o) == [o EXCEPT !.observed = o.generation]

\* Mutant: a merge patch of the status, without the version check.
UpdateStatusUnchecked(k) ==
    /\ pc[k] = "status" /\ server[k] # Absent
    /\ Store(k, [server[k] EXCEPT !.observed = object[k].generation])
    /\ ReturnAndRequeue(k)
    /\ UNCHANGED <<flag, counters>>

\* r.Status().Update.  LastUpdated has whole seconds: a status that was already
\* written within this second is no new version.
UpdateStatus(k) ==
    /\ pc[k] = "status" /\ objectFresh[k]
    /\ \/ Store(k, WithStatus(object[k]))
       \/ WithStatus(object[k]) = object[k] /\ UNCHANGED store
    /\ ReturnAndRequeue(k)
    /\ UNCHANGED <<flag, counters>>

\* Mutant: the finalizer is taken off by a patch, whichever version is stored.
RemoveFinalizerUnchecked(k) ==
    /\ pc[k] = "delete" /\ server[k] # Absent
    /\ Store(k, Absent)
    /\ ReturnForGood(k)
    /\ UNCHANGED <<flag, counters>>

\* reconcileDelete: r.Update without the finalizer lets the object go.
RemoveFinalizer(k) ==
    /\ pc[k] = "delete" /\ objectFresh[k]
    /\ Store(k, Absent)
    /\ ReturnForGood(k)
    /\ UNCHANGED <<flag, counters>>

\* Mutants: a failed deletion is not retried; a failed Update of the finalizer
\* does not stop the reconcile.
FailsDeletionForgotten(k) ==
    /\ pc[k] # "idle"
    /\ IF pc[k] = "delete" THEN ReturnForGood(k) ELSE ReturnAndRequeue(k)
    /\ UNCHANGED <<store, flag, counters>>
FailsFinalizerIgnored(k) ==
    /\ pc[k] # "idle"
    /\ IF pc[k] = "finalizer"
       THEN pc' = [pc EXCEPT ![k] = "status"] /\ UNCHANGED <<queue, object, objectFresh>>
       ELSE ReturnAndRequeue(k)
    /\ UNCHANGED <<store, flag, counters>>

\* A read that fails, or a write that is refused (the version has moved on, the
\* object is gone) or lost: an error of the server or the network, at any time,
\* or ReconcileTimeout.
Fails(k) ==
    /\ pc[k] # "idle"
    /\ ReturnAndRequeue(k)
    /\ UNCHANGED <<store, flag, counters>>

\* A write that is done, and whose answer is lost.
AnswerLost(k) ==
    /\ pc[k] \in {"finalizer", "status", "delete"} /\ objectFresh[k]
    /\ Store(k, CASE pc[k] = "finalizer" -> [object[k] EXCEPT !.finalizer = TRUE]
                  [] pc[k] = "status"    -> WithStatus(object[k])
                  [] pc[k] = "delete"    -> Absent)
    /\ ReturnAndRequeue(k)
    /\ UNCHANGED <<flag, counters>>

-----------------------------------------------------------------------------
(* Configuration and restarts *)

\* A configuration is loaded or reloaded.
LoadConfig ==
    /\ loads < MaxLoads
    /\ loads' = loads + 1
    /\ flag' \in FlagValues
    /\ UNCHANGED <<store, queue, workers, edits, crashes>>

\* The process dies; the new one lists every object and loads a configuration
\* or fails to.
Restart ==
    /\ crashes < MaxCrashes
    /\ crashes' = crashes + 1
    /\ cache' = server
    /\ cacheFresh' = [k \in Records |-> TRUE]
    /\ dirty' = {k \in Records : server[k] # Absent}
    /\ delayed' = {}
    /\ pc' = [k \in Records |-> "idle"]
    /\ object' = [k \in Records |-> Absent]
    /\ objectFresh' = [k \in Records |-> FALSE]
    /\ flag' \in {"unconfigured"} \cup FlagValues
    /\ UNCHANGED <<server, edits, loads>>

Reconcile(k) == Get(k) \/ AddFinalizer(k) \/ UpdateStatus(k) \/ RemoveFinalizer(k)
                  \/ Fails(k) \/ AnswerLost(k)

Next ==
    \/ \E k \in Records :
         \/ Create(k) \/ EditSpec(k) \/ Delete(k)
         \/ Deliver(k) \/ Requeue(k) \/ StartReconcile(k)
         \/ Reconcile(k)
    \/ LoadConfig
    \/ Restart

Spec == Init /\ [][Next]_vars

\* Events arrive, delays pass, workers run, and the API server does not fail
\* every one of an endless series of reads or of valid writes.
Fairness == \A k \in Records :
    /\ WF_vars(Deliver(k))
    /\ WF_vars(Requeue(k))
    /\ SF_vars(StartReconcile(k))
    /\ WF_vars(Reconcile(k))
    /\ SF_vars(Get(k))
    /\ SF_vars(AddFinalizer(k))
    /\ SF_vars(UpdateStatus(k))
    /\ SF_vars(RemoveFinalizer(k))

FairSpec == Spec /\ Fairness

-----------------------------------------------------------------------------
(* Properties *)

Deleting(k) == server[k] # Absent /\ server[k].deleting

UpToDate(k) == /\ server[k] # Absent
               /\ ~server[k].deleting
               /\ server[k].observed = server[k].generation

\* The phase of a stored object.
PhaseOf(o) == IF o = Absent THEN "absent"
              ELSE IF o.deleting THEN "terminating"
              ELSE IF o.observed = o.generation THEN "ready"
              ELSE IF o.finalizer THEN "pending" ELSE "new"

Life == INSTANCE RecordLife WITH
          Records <- Records,
          phase   <- [k \in Records |-> PhaseOf(server[k])],
          edits   <- edits

\* Whatever the reconciler reads from a stale cache, fails to write, or writes
\* without hearing of it, before and after restarts, every record lives as
\* RecordLife has it: ready only under a finalizer and never but by the
\* operator, gone only by it once protected, and only when it was deleted.
LivesAsPromised == Life!Spec

\* An object that claims to be processed carries the finalizer, so its deletion
\* cannot bypass reconcileDelete.
ProcessedHasFinalizer ==
    \A k \in Records :
        server[k] # Absent /\ server[k].observed > 0 => server[k].finalizer

\* No object that needs work is forgotten: it is queued, to be queued, being
\* reconciled, or the event that will queue it is on its way, across every
\* early return, failed write, disabled flag and restart.
NothingForgotten ==
    \A k \in Records :
        server[k] # Absent /\ ~UpToDate(k) =>
            k \in dirty \cup delayed \cup Processing \/ ~cacheFresh[k]

\* A status is written for the generation that is stored at that moment, and
\* never on an object that is being deleted.
StatusIsCurrent ==
    [][\A k \in Records :
         server[k] # Absent /\ server'[k] # Absent
           /\ server'[k].observed # server[k].observed
         => server'[k].observed = server'[k].generation /\ ~server'[k].deleting]_vars

StaysEnabled == <>[]Enabled

\* Deletion completes once the flag stays on: the finalizer always comes off.
DeletionCompletes ==
    StaysEnabled => \A k \in Records : Deleting(k) ~> server[k] = Absent

\* Every generation of a record is observed unless the record goes away.
SpecObserved ==
    StaysEnabled =>
        \A k \in Records :
            server[k] # Absent ~> UpToDate(k) \/ Deleting(k) \/ server[k] = Absent
=============================================================================
