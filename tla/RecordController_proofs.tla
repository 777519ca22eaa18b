----------------------- MODULE RecordController_proofs -----------------------
(***************************************************************************)
(* The safety properties of the reconciler, for any set of records, any    *)
(* number of workers and any bounds.  They rest on what optimistic         *)
(* concurrency gives: a copy that still carries the stored version is the  *)
(* stored object.                                                          *)
(***************************************************************************)
EXTENDS RecordController, TLAPS

Typed ==
    /\ server \in [Records -> Object \cup {Absent}]
    /\ cache \in [Records -> Object \cup {Absent}]
    /\ object \in [Records -> Object \cup {Absent}]
    /\ cacheFresh \in [Records -> BOOLEAN]
    /\ objectFresh \in [Records -> BOOLEAN]
    /\ dirty \subseteq Records /\ delayed \subseteq Records
    /\ pc \in [Records -> {"idle", "get", "finalizer", "status", "delete"}]
    /\ flag \in {"unconfigured"} \cup FlagValues
    /\ edits \in 0 .. MaxEdits /\ loads \in 0 .. MaxLoads /\ crashes \in 0 .. MaxCrashes

\* Every edit is one generation at most, and only existing ones are observed.
Bounded(k) ==
    server[k] # Absent =>
        server[k].generation <= edits + 1 /\ server[k].observed <= server[k].generation

\* A copy of the stored version is the stored object.
Copies(k) ==
    /\ cacheFresh[k] => cache[k] = server[k]
    /\ objectFresh[k] => object[k] = server[k] /\ server[k] # Absent

\* The write a reconcile is about to make suits the object it holds.
Branch(k) ==
    /\ objectFresh[k] /\ pc[k] = "finalizer" => ~object[k].deleting
    /\ objectFresh[k] /\ pc[k] = "status" => ~object[k].deleting /\ object[k].finalizer
    /\ objectFresh[k] /\ pc[k] = "delete" => object[k].deleting

Finalized(k) == server[k] # Absent /\ server[k].observed > 0 => server[k].finalizer

Remembered(k) ==
    server[k] # Absent /\ ~UpToDate(k) =>
        k \in dirty \cup delayed \/ pc[k] # "idle" \/ ~cacheFresh[k]

KeyInv(k) == Bounded(k) /\ Copies(k) /\ Branch(k) /\ Finalized(k) /\ Remembered(k)

IInv == Typed /\ \A k \in Records : KeyInv(k)

LEMMA ObjectFields ==
    ASSUME NEW o \in Object
    PROVE  /\ o.generation \in 1 .. (MaxEdits + 1) /\ o.generation \in 0 .. (MaxEdits + 1)
           /\ o # Absent
<1>1. o.generation \in 1 .. (MaxEdits + 1)  BY DEF Object
<1>2. o # Absent  BY DEF Object, Absent
<1> QED BY <1>1, <1>2, ControllerAssumption DEF ControllerAssumption

-----------------------------------------------------------------------------
(* Init and the parts of a step *)

LEMMA InitInv == Init => IInv
  BY ControllerAssumption
     DEF ControllerAssumption, Init, IInv, Typed, KeyInv, Bounded, Copies, Branch,
         Finalized, Remembered, UpToDate, Absent, Object

\* What a write to the API server does: every copy of the object is out of date.
LEMMA StorePreserves ==
    ASSUME NEW k \in Records, NEW o \in Object \cup {Absent}, IInv, Store(k, o)
    PROVE  /\ server' \in [Records -> Object \cup {Absent}]
           /\ cache' = cache
           /\ cacheFresh' \in [Records -> BOOLEAN]
           /\ server'[k] = o /\ ~cacheFresh'[k]
           /\ \A j \in Records \ {k} : server'[j] = server[j] /\ cacheFresh'[j] = cacheFresh[j]
  BY DEF Store, IInv, Typed

LEMMA ReturnPreserves ==
    ASSUME NEW k \in Records, IInv, Return(k)
    PROVE  /\ pc' \in [Records -> {"idle", "get", "finalizer", "status", "delete"}]
           /\ object' \in [Records -> Object \cup {Absent}]
           /\ objectFresh' \in [Records -> BOOLEAN]
           /\ pc'[k] = "idle" /\ ~objectFresh'[k]
           /\ \A j \in Records \ {k} : /\ pc'[j] = pc[j] /\ object'[j] = object[j]
                                       /\ objectFresh'[j] = objectFresh[j]
  BY DEF Return, IInv, Typed

-----------------------------------------------------------------------------
(* Steps *)

\* A user's write: edits grows, and no copy of k is of the stored version.
LEMMA UserWritePreserves ==
    ASSUME NEW k \in Records, NEW o \in Object \cup {Absent}, IInv, UserWrite(k, o),
           o # Absent => /\ o.generation <= edits + 2
                         /\ o.observed <= o.generation
                         /\ o.observed > 0 => o.finalizer
    PROVE  IInv'
<1>1. Store(k, o)  BY DEF UserWrite
<1>2. Typed'
  BY <1>1, StorePreserves, ControllerAssumption
     DEF UserWrite, IInv, Typed, queue, ControllerAssumption
<1>3. ASSUME NEW j \in Records PROVE KeyInv(j)'
  <2>1. CASE j = k
    BY <1>1, <2>1, StorePreserves
       DEF UserWrite, queue, IInv, Typed, KeyInv, Bounded, Copies, Branch, Finalized, Remembered
  <2>2. CASE j # k
    <3>1. server'[j] = server[j] /\ cacheFresh'[j] = cacheFresh[j]
      BY <1>1, <2>2, StorePreserves
    <3>2. /\ cache' = cache /\ object' = object /\ pc' = pc
          /\ dirty' = dirty /\ delayed' = delayed /\ objectFresh'[j] = objectFresh[j]
      BY <1>1, <2>2, StorePreserves DEF UserWrite, queue, IInv, Typed
    <3>3. KeyInv(j)  BY DEF IInv
    <3>4. Bounded(j)'
      <4>1. ASSUME server[j] # Absent PROVE server[j].generation \in Int
        BY <4>1, ObjectFields DEF IInv, Typed
      <4> QED BY <3>1, <3>3, <4>1
              DEF KeyInv, Bounded, UserWrite, IInv, Typed, ControllerAssumption
    <3> QED BY <3>1, <3>2, <3>3, <3>4
            DEF KeyInv, Copies, Branch, Finalized, Remembered, UpToDate
  <2> QED BY <2>1, <2>2
<1> QED BY <1>2, <1>3 DEF IInv

\* A reconcile that ends with a write of o and is requeued, or ends for good
\* having removed the object.
LEMMA LastWritePreserves ==
    ASSUME NEW k \in Records, NEW o \in Object \cup {Absent}, IInv, Store(k, o), Return(k),
           o # Absent => /\ o.generation <= edits + 1
                         /\ o.observed <= o.generation
                         /\ o.observed > 0 => o.finalizer,
           dirty' = dirty, delayed' \in {delayed, delayed \cup {k}},
           UNCHANGED <<flag, counters>>
    PROVE  IInv'
<1>1. Typed'
  BY StorePreserves, ReturnPreserves DEF IInv, Typed, counters
<1>2. ASSUME NEW j \in Records PROVE KeyInv(j)'
  <2>1. CASE j = k
    BY <2>1, StorePreserves, ReturnPreserves
       DEF IInv, Typed, KeyInv, Bounded, Copies, Branch, Finalized, Remembered, counters
  <2>2. CASE j # k
    BY <2>2, StorePreserves, ReturnPreserves
       DEF IInv, Typed, KeyInv, Bounded, Copies, Branch, Finalized, Remembered, UpToDate,
           counters
  <2> QED BY <2>1, <2>2
<1> QED BY <1>1, <1>2 DEF IInv

\* A reconcile that ends without a write and is requeued.
LEMMA RequeuePreserves ==
    ASSUME NEW k \in Records, IInv, ReturnAndRequeue(k), UNCHANGED <<store, flag, counters>>
    PROVE  IInv'
<1>1. Return(k) /\ dirty' = dirty /\ delayed' = delayed \cup {k}
  BY DEF ReturnAndRequeue
<1>2. Typed'
  BY <1>1, ReturnPreserves DEF IInv, Typed, store, counters
<1>3. ASSUME NEW j \in Records PROVE KeyInv(j)'
  BY <1>1, ReturnPreserves
     DEF IInv, Typed, KeyInv, Bounded, Copies, Branch, Finalized, Remembered, UpToDate,
         store, counters
<1> QED BY <1>2, <1>3 DEF IInv

\* What a reconcile holds when its write will be accepted.
LEMMA HeldObject ==
    ASSUME NEW k \in Records, IInv, objectFresh[k]
    PROVE  /\ object[k] = server[k] /\ object[k] \in Object
           /\ object[k].generation <= edits + 1
           /\ object[k].observed <= object[k].generation
           /\ object[k].observed > 0 => object[k].finalizer
  BY DEF IInv, Typed, KeyInv, Bounded, Copies, Finalized

LEMMA StatusWritten ==
    ASSUME NEW k \in Records, IInv, pc[k] = "status", objectFresh[k]
    PROVE  /\ WithStatus(object[k]) \in Object
           /\ WithStatus(object[k]).generation <= edits + 1
           /\ WithStatus(object[k]).observed = WithStatus(object[k]).generation
           /\ WithStatus(object[k]).finalizer /\ ~WithStatus(object[k]).deleting
<1>1. object[k].finalizer /\ ~object[k].deleting  BY DEF IInv, KeyInv, Branch
<1>2. object[k].generation \in 0 .. (MaxEdits + 1)
  BY HeldObject, ObjectFields
<1>3. WithStatus(object[k]) \in Object  BY <1>2, HeldObject DEF WithStatus, Object
<1> QED BY <1>1, <1>3, HeldObject DEF WithStatus, Object

LEMMA FinalizerWritten ==
    ASSUME NEW k \in Records, IInv, pc[k] = "finalizer", objectFresh[k]
    PROVE  LET o == [object[k] EXCEPT !.finalizer = TRUE]
           IN  /\ o \in Object /\ o.generation <= edits + 1
               /\ o.observed <= o.generation /\ o.observed = server[k].observed
               /\ o.finalizer /\ ~o.deleting
<1>1. ~object[k].deleting  BY DEF IInv, KeyInv, Branch
<1> QED BY <1>1, HeldObject DEF Object

\* Steps that touch no object, and no copy in a worker's hands.
LEMMA QueuePreserves ==
    ASSUME NEW k \in Records, IInv, Deliver(k) \/ Requeue(k) \/ StartReconcile(k)
    PROVE  IInv'
<1>1. CASE Deliver(k)
  <2>1. Typed'  BY <1>1 DEF Deliver, IInv, Typed, workers, counters
  <2>2. \A j \in Records : KeyInv(j)'
    BY <1>1 DEF Deliver, workers, counters, IInv, Typed, KeyInv, Bounded, Copies, Branch,
                Finalized, Remembered, UpToDate
  <2> QED BY <2>1, <2>2 DEF IInv
<1>2. CASE Requeue(k)
  <2>1. Typed'  BY <1>2 DEF Requeue, IInv, Typed, store, workers, counters
  <2>2. \A j \in Records : KeyInv(j)'
    BY <1>2 DEF Requeue, store, workers, counters, IInv, KeyInv, Bounded, Copies, Branch,
                Finalized, Remembered, UpToDate
  <2> QED BY <2>1, <2>2 DEF IInv
<1>3. CASE StartReconcile(k)
  <2>1. Typed'  BY <1>3 DEF StartReconcile, IInv, Typed, store, counters
  <2>2. \A j \in Records : KeyInv(j)'
    BY <1>3 DEF StartReconcile, store, counters, IInv, Typed, KeyInv, Bounded, Copies, Branch,
                Finalized, Remembered, UpToDate
  <2> QED BY <2>1, <2>2 DEF IInv
<1> QED BY <1>1, <1>2, <1>3

\* A reconcile reads the cache: it ends for good only if a cache that is up to
\* date says that the object is gone.
LEMMA GetPreserves ==
    ASSUME NEW k \in Records, IInv, Get(k)
    PROVE  IInv'
<1> USE DEF Get
<1>1. CASE cache[k] = Absent
  <2>1. Typed'
    BY <1>1, ReturnPreserves DEF ReturnForGood, IInv, Typed, store, queue, counters
  <2>2. \A j \in Records : KeyInv(j)'
    BY <1>1, ReturnPreserves
       DEF ReturnForGood, store, queue, counters, IInv, Typed, KeyInv, Bounded, Copies, Branch,
           Finalized, Remembered, UpToDate
  <2> QED BY <2>1, <2>2 DEF IInv
<1>2. CASE cache[k] # Absent /\ ~Enabled
  BY <1>2, RequeuePreserves
<1>3. CASE cache[k] # Absent /\ Enabled
  <2>1. Typed'
    BY <1>3 DEF NextWrite, IInv, Typed, store, queue, counters
  <2>2. ASSUME NEW j \in Records PROVE KeyInv(j)'
    <3>1. CASE j = k
      BY <1>3, <3>1
         DEF NextWrite, store, queue, counters, IInv, Typed, KeyInv, Bounded, Copies, Branch,
             Finalized, Remembered
    <3>2. CASE j # k
      BY <1>3, <3>2
         DEF store, queue, counters, IInv, Typed, KeyInv, Bounded, Copies, Branch,
             Finalized, Remembered, UpToDate
    <3> QED BY <3>1, <3>2
  <2> QED BY <2>1, <2>2 DEF IInv
<1> QED BY <1>1, <1>2, <1>3

LEMMA AddFinalizerPreserves ==
    ASSUME NEW k \in Records, IInv, AddFinalizer(k)
    PROVE  IInv'
<1> DEFINE o == [object[k] EXCEPT !.finalizer = TRUE]
<1>1. /\ objectFresh[k] /\ pc[k] = "finalizer"
      /\ object' = [object EXCEPT ![k] = o] /\ object'[k] = o /\ Store(k, o)
      /\ pc' = [pc EXCEPT ![k] = "status"] /\ objectFresh' = objectFresh
      /\ UNCHANGED <<queue, flag, counters>>
  BY DEF AddFinalizer, IInv, Typed
<1>2. /\ o \in Object /\ o # Absent /\ o.finalizer /\ ~o.deleting
      /\ o.generation <= edits + 1 /\ o.observed <= o.generation
  BY <1>1, FinalizerWritten, ObjectFields
<1> HIDE DEF o
<1>3. Typed'
  BY <1>1, <1>2, StorePreserves DEF IInv, Typed, queue, counters
<1>4. ASSUME NEW j \in Records PROVE KeyInv(j)'
  <2>1. CASE j = k
    BY <1>1, <1>2, <2>1, StorePreserves
       DEF queue, counters, IInv, Typed, KeyInv, Bounded, Copies, Branch, Finalized, Remembered
  <2>2. CASE j # k
    BY <1>1, <1>2, <2>2, StorePreserves
       DEF queue, counters, IInv, Typed, KeyInv, Bounded, Copies, Branch, Finalized, Remembered,
           UpToDate
  <2> QED BY <2>1, <2>2
<1> QED BY <1>3, <1>4 DEF IInv

\* The writes that end a reconcile, answered or not.
LEMMA FinalWritePreserves ==
    ASSUME NEW k \in Records, IInv,
           UpdateStatus(k) \/ RemoveFinalizer(k) \/ Fails(k) \/ AnswerLost(k)
    PROVE  IInv'
<1>1. CASE UpdateStatus(k)
  <2>1. CASE Store(k, WithStatus(object[k]))
    BY <1>1, <2>1, StatusWritten, LastWritePreserves, ObjectFields
       DEF UpdateStatus, ReturnAndRequeue
  <2>2. CASE UNCHANGED store
    BY <1>1, <2>2, RequeuePreserves DEF UpdateStatus
  <2> QED BY <1>1, <2>1, <2>2 DEF UpdateStatus
<1>2. CASE RemoveFinalizer(k)
  BY <1>2, LastWritePreserves DEF RemoveFinalizer, ReturnForGood, queue
<1>3. CASE Fails(k)
  BY <1>3, RequeuePreserves DEF Fails
<1>4. CASE AnswerLost(k)
  <2>1. CASE pc[k] = "finalizer"
    BY <1>4, <2>1, FinalizerWritten, HeldObject, LastWritePreserves
       DEF AnswerLost, ReturnAndRequeue
  <2>2. CASE pc[k] = "status"
    BY <1>4, <2>2, StatusWritten, LastWritePreserves, ObjectFields
       DEF AnswerLost, ReturnAndRequeue
  <2>3. CASE pc[k] = "delete"
    BY <1>4, <2>3, LastWritePreserves DEF AnswerLost, ReturnAndRequeue
  <2> QED BY <1>4, <2>1, <2>2, <2>3 DEF AnswerLost
<1> QED BY <1>1, <1>2, <1>3, <1>4

LEMMA UsersPreserve ==
    ASSUME NEW k \in Records, IInv, Create(k) \/ EditSpec(k) \/ Delete(k)
    PROVE  IInv'
<1>1. edits < MaxEdits /\ edits \in Nat
  BY ControllerAssumption
     DEF Create, EditSpec, Delete, UserWrite, IInv, Typed, ControllerAssumption
<1>2. CASE Create(k)
  <2> DEFINE o == [exists |-> TRUE, generation |-> 1, deleting |-> FALSE,
                   finalizer |-> FALSE, observed |-> 0]
  <2>1. o \in Object  BY ControllerAssumption DEF Object, ControllerAssumption
  <2>2. UserWrite(k, o)  BY <1>2 DEF Create
  <2> QED BY <1>1, <2>1, <2>2, UserWritePreserves
<1>3. ASSUME server[k] # Absent
      PROVE  /\ server[k] \in Object
             /\ server[k].generation \in 1 .. (MaxEdits + 1)
             /\ server[k].observed \in 0 .. (MaxEdits + 1)
             /\ server[k].generation <= edits + 1
             /\ server[k].observed <= server[k].generation
             /\ server[k].observed > 0 => server[k].finalizer
  <2>1. server[k] \in Object  BY <1>3 DEF IInv, Typed
  <2> QED BY <1>3, <2>1, ObjectFields DEF IInv, KeyInv, Bounded, Finalized, Object
<1>4. ASSUME server[k] # Absent
      PROVE  server[k].generation + 1 \in 1 .. (MaxEdits + 1)
  BY <1>1, <1>3, <1>4, ControllerAssumption DEF ControllerAssumption
<1>5. CASE EditSpec(k)
  <2> DEFINE o == [server[k] EXCEPT !.generation = @ + 1]
  <2>1. server[k] # Absent /\ UserWrite(k, o)  BY <1>5 DEF EditSpec
  <2>2. o \in Object  BY <1>3, <1>4, <2>1 DEF Object
  <2>3. /\ o.generation = server[k].generation + 1 /\ o.observed = server[k].observed
        /\ o.finalizer = server[k].finalizer
    BY <1>3, <2>1 DEF Object
  <2>4. o.generation <= edits + 2 /\ o.observed <= o.generation
    BY <1>1, <1>3, <2>1, <2>3
  <2> HIDE DEF o
  <2> QED BY <1>3, <2>1, <2>2, <2>3, <2>4, UserWritePreserves
<1>6. CASE Delete(k) /\ server[k].finalizer
  <2> DEFINE o == [server[k] EXCEPT !.deleting = TRUE, !.generation = @ + 1]
  <2>1. server[k] # Absent /\ UserWrite(k, o)  BY <1>6 DEF Delete
  <2>2. o \in Object  BY <1>3, <1>4, <2>1 DEF Object
  <2>3. /\ o.generation = server[k].generation + 1 /\ o.observed = server[k].observed
        /\ o.finalizer = server[k].finalizer
    BY <1>3, <2>1 DEF Object
  <2>4. o.generation <= edits + 2 /\ o.observed <= o.generation
    BY <1>1, <1>3, <2>1, <2>3
  <2> HIDE DEF o
  <2> QED BY <1>3, <2>1, <2>2, <2>3, <2>4, UserWritePreserves
<1>7. CASE Delete(k) /\ ~server[k].finalizer
  BY <1>7, UserWritePreserves DEF Delete
<1> QED BY <1>2, <1>5, <1>6, <1>7

\* A restart forgets the queue, and the informer's first list rebuilds it.
LEMMA RestartPreserves ==
    ASSUME IInv, Restart \/ LoadConfig
    PROVE  IInv'
<1>1. CASE LoadConfig
  <2>1. Typed'
    BY <1>1, ControllerAssumption
       DEF LoadConfig, IInv, Typed, store, queue, workers, ControllerAssumption
  <2>2. \A j \in Records : KeyInv(j)'
    BY <1>1 DEF LoadConfig, store, queue, workers, IInv, KeyInv, Bounded, Copies, Branch,
                Finalized, Remembered, UpToDate
  <2> QED BY <2>1, <2>2 DEF IInv
<1>2. CASE Restart
  <2>1. Typed'
    BY <1>2, ControllerAssumption DEF Restart, IInv, Typed, ControllerAssumption
  <2>2. \A j \in Records : KeyInv(j)'
    BY <1>2 DEF Restart, IInv, Typed, KeyInv, Bounded, Copies, Branch, Finalized, Remembered,
                UpToDate
  <2> QED BY <2>1, <2>2 DEF IInv
<1> QED BY <1>1, <1>2

LEMMA NextInv == IInv /\ [Next]_vars => IInv'
<1> SUFFICES ASSUME IInv, [Next]_vars PROVE IInv'  OBVIOUS
<1>1. CASE UNCHANGED vars
  BY <1>1 DEF vars, store, queue, workers, counters, IInv, Typed, KeyInv, Bounded, Copies,
              Branch, Finalized, Remembered, UpToDate
<1>2. ASSUME NEW k \in Records, Create(k) \/ EditSpec(k) \/ Delete(k) PROVE IInv'
  BY <1>2, UsersPreserve
<1>3. ASSUME NEW k \in Records, Deliver(k) \/ Requeue(k) \/ StartReconcile(k) PROVE IInv'
  BY <1>3, QueuePreserves
<1>4. ASSUME NEW k \in Records, Reconcile(k) PROVE IInv'
  BY <1>4, GetPreserves, AddFinalizerPreserves, FinalWritePreserves DEF Reconcile
<1>5. CASE LoadConfig \/ Restart
  BY <1>5, RestartPreserves
<1> QED BY <1>1, <1>2, <1>3, <1>4, <1>5 DEF Next

-----------------------------------------------------------------------------
(* Theorems *)

\* The invariant behind the others: only copies of the stored version can be
\* written, and each is the stored object, on the branch that suits it.
THEOREM Invariance == Spec => []IInv
<1> QED BY InitInv, NextInv, PTL DEF Spec

\* Objects keep their types, with no generation observed before it exists.
THEOREM TypeCorrect == Spec => []TypeOK
<1>1. IInv => TypeOK  BY DEF IInv, Typed, KeyInv, Bounded, TypeOK
<1> QED BY <1>1, Invariance, PTL

\* An object with a status written by the reconciler carries the finalizer.
THEOREM Finalizers == Spec => []ProcessedHasFinalizer
<1>1. IInv => ProcessedHasFinalizer  BY DEF IInv, KeyInv, Finalized, ProcessedHasFinalizer
<1> QED BY <1>1, Invariance, PTL

\* No early return, failed or lost write, disabled flag or restart drops a
\* record that needs work.
THEOREM Memory == Spec => []NothingForgotten
<1>1. IInv => NothingForgotten
  BY DEF IInv, KeyInv, Remembered, NothingForgotten, Processing
<1> QED BY <1>1, Invariance, PTL

\* What StatusIsCurrent says of one record.
Current(k) ==
    server[k] # Absent /\ server'[k] # Absent /\ server'[k].observed # server[k].observed
      => server'[k].observed = server'[k].generation /\ ~server'[k].deleting

\* A status is written for the stored generation only, and not on an object that
\* is being deleted, whatever copy the reconcile started from.
THEOREM Statuses == Spec => StatusIsCurrent
<1>1. ASSUME IInv, [Next]_vars, NEW k \in Records PROVE Current(k)
  <2>1. CASE UNCHANGED server
    BY <2>1 DEF Current
  <2>2. ASSUME NEW j \in Records, NEW o \in Object \cup {Absent}, Store(j, o),
               server[j] # Absent /\ o # Absent /\ o.observed # server[j].observed
                 => o.observed = o.generation /\ ~o.deleting
        PROVE  Current(k)
    <3>1. CASE k = j   BY <1>1, <2>2, <3>1, StorePreserves DEF Current
    <3>2. CASE k # j   BY <1>1, <2>2, <3>2, StorePreserves DEF Current
    <3> QED BY <3>1, <3>2
  <2>3. ASSUME NEW j \in Records, Reconcile(j) PROVE Current(k)
    <3>1. CASE Get(j) \/ Fails(j)
      BY <2>1, <3>1 DEF Get, Fails, store
    <3>2. CASE AddFinalizer(j)
      <4>1. /\ pc[j] = "finalizer" /\ objectFresh[j]
            /\ Store(j, [object[j] EXCEPT !.finalizer = TRUE])
        BY <1>1, <3>2 DEF AddFinalizer, IInv, Typed
      <4> QED BY <1>1, <2>2, <4>1, FinalizerWritten
    <3>3. CASE UpdateStatus(j)
      BY <1>1, <2>1, <2>2, <3>3, StatusWritten DEF UpdateStatus, store
    <3>4. CASE RemoveFinalizer(j)
      BY <1>1, <2>2, <3>4 DEF RemoveFinalizer
    <3>5. CASE AnswerLost(j)
      BY <1>1, <2>2, <3>5, FinalizerWritten, StatusWritten DEF AnswerLost
    <3> QED BY <2>3, <3>1, <3>2, <3>3, <3>4, <3>5 DEF Reconcile
  <2>4. ASSUME NEW j \in Records, Create(j) \/ EditSpec(j) \/ Delete(j) PROVE Current(k)
    <3>1. ASSUME server[j] # Absent PROVE server[j] \in Object
      BY <1>1, <3>1 DEF IInv, Typed
    <3>2. server' = [server EXCEPT ![j] = server'[j]]
      BY <1>1, <2>4 DEF Create, EditSpec, Delete, UserWrite, Store, IInv, Typed
    <3>3. CASE server[j] = Absent
      BY <1>1, <3>2, <3>3 DEF Current, IInv, Typed
    <3>4. CASE server[j] # Absent /\ server'[j] # Absent
      <4>1. server'[j] \in {[server[j] EXCEPT !.generation = @ + 1],
                            [server[j] EXCEPT !.deleting = TRUE, !.generation = @ + 1]}
        BY <1>1, <2>4, <3>4
           DEF Create, EditSpec, Delete, UserWrite, Store, IInv, Typed
      <4>2. server'[j].observed = server[j].observed
        BY <3>1, <3>4, <4>1 DEF Object
      <4> QED BY <1>1, <3>2, <4>2 DEF Current, IInv, Typed
    <3>5. CASE server'[j] = Absent
      BY <1>1, <3>2, <3>5 DEF Current, IInv, Typed
    <3> QED BY <3>3, <3>4, <3>5
  <2> QED BY <1>1, <2>1, <2>3, <2>4
          DEF Next, vars, store, Deliver, Requeue, StartReconcile, LoadConfig, Restart
<1>2. IInv /\ [Next]_vars => [\A k \in Records : Current(k)]_vars  BY <1>1
<1>3. [\A k \in Records : Current(k)]_vars
        => [\A k \in Records :
             server[k] # Absent /\ server'[k] # Absent
               /\ server'[k].observed # server[k].observed
             => server'[k].observed = server'[k].generation /\ ~server'[k].deleting]_vars
  BY DEF Current
<1> QED BY <1>2, <1>3, Invariance, PTL DEF Spec, StatusIsCurrent

-----------------------------------------------------------------------------
(* The life of a record *)

phases == [k \in Records |-> PhaseOf(server[k])]

\* A write that takes record k from one phase to another.
LEMMA StoreTakes ==
    ASSUME NEW k \in Records, NEW o \in Object \cup {Absent}, IInv, Store(k, o),
           NEW from, PhaseOf(server[k]) \in from
    PROVE  Life!Takes(k, from, PhaseOf(o))
<1>1. server' = [server EXCEPT ![k] = o] /\ server'[k] = o
      /\ \A j \in Records \ {k} : server'[j] = server[j]
  BY StorePreserves DEF Store
<1>2. phases' = [phases EXCEPT ![k] = PhaseOf(o)]
  <2>1. \A j \in Records : PhaseOf(server'[j]) = IF j = k THEN PhaseOf(o) ELSE PhaseOf(server[j])
    BY <1>1
  <2>2. phases' = [j \in Records |-> PhaseOf(server'[j])]
    BY DEF phases
  <2>3. [phases EXCEPT ![k] = PhaseOf(o)]
          = [j \in Records |-> IF j = k THEN PhaseOf(o) ELSE PhaseOf(server[j])]
    BY DEF phases
  <2> QED BY <2>1, <2>2, <2>3
<1>3. phases[k] = PhaseOf(server[k])
  BY DEF phases
<1>4. Life!Takes(k, from, PhaseOf(o))
        <=> phases[k] \in from /\ phases' = [phases EXCEPT ![k] = PhaseOf(o)]
  BY Zenon DEF phases, Life!Takes
<1> QED BY <1>2, <1>3, <1>4

\* A write that leaves the phase alone.
LEMMA StoreStutters ==
    ASSUME NEW k \in Records, NEW o \in Object \cup {Absent}, IInv, Store(k, o),
           PhaseOf(o) = PhaseOf(server[k])
    PROVE  UNCHANGED phases
<1>1. server'[k] = o /\ \A j \in Records \ {k} : server'[j] = server[j]
  BY StorePreserves
<1>2. \A j \in Records : PhaseOf(server'[j]) = PhaseOf(server[j])
  BY <1>1
<1> QED BY <1>2 DEF phases

\* The phases of stored objects: a record without a finalizer is new.
LEMMA StoredPhase ==
    ASSUME IInv, NEW k \in Records, server[k] # Absent, ~server[k].deleting
    PROVE  /\ server[k] \in Object
           /\ server[k].finalizer => PhaseOf(server[k]) \in {"pending", "ready"}
           /\ ~server[k].finalizer => PhaseOf(server[k]) = "new"
<1>1. server[k] \in Object
  BY DEF IInv, Typed
<1>2. server[k].generation \in 1 .. (MaxEdits + 1) /\ server[k].observed \in 0 .. (MaxEdits + 1)
  BY <1>1 DEF Object
<1>3. ~server[k].finalizer => server[k].observed # server[k].generation
  BY <1>2, ControllerAssumption DEF IInv, KeyInv, Finalized, ControllerAssumption
<1> QED BY <1>1, <1>3 DEF PhaseOf

LEMMA UserLives ==
    ASSUME IInv, NEW k \in Records, Create(k) \/ EditSpec(k) \/ Delete(k)
    PROVE  Life!Next
<1> USE DEF Life!Protected
<1>1. edits' = edits + 1
  BY DEF Create, EditSpec, Delete, UserWrite
<1>2. CASE Create(k)
  <2> DEFINE o == [exists |-> TRUE, generation |-> 1, deleting |-> FALSE,
                   finalizer |-> FALSE, observed |-> 0]
  <2>1. o \in Object  BY ControllerAssumption DEF Object, ControllerAssumption
  <2>2. PhaseOf(o) = "new"
    <3>1. o # Absent /\ ~o.deleting /\ o.observed = 0 /\ o.generation = 1 /\ ~o.finalizer
      BY <2>1, ObjectFields
    <3> HIDE DEF o
    <3> QED BY <3>1 DEF PhaseOf
  <2>3. Store(k, o) /\ PhaseOf(server[k]) \in {"absent", "new"}
    BY <1>2 DEF Create, UserWrite, PhaseOf
  <2> HIDE DEF o
  <2>4. Life!Takes(k, {"absent", "new"}, "new")
    BY <2>1, <2>2, <2>3, StoreTakes
  <2> QED BY <1>1, <2>4 DEF Life!Next, Life!User
<1>3. CASE EditSpec(k)
  <2> DEFINE o == [server[k] EXCEPT !.generation = @ + 1]
  <2>1. server[k] # Absent /\ ~server[k].deleting /\ Store(k, o)
    BY <1>3 DEF EditSpec, UserWrite
  <2>2. server[k] \in Object /\ server[k].generation \in 1 .. (MaxEdits + 1)
        /\ server[k].generation <= edits + 1 /\ server[k].observed <= server[k].generation
        /\ server[k].observed \in 0 .. (MaxEdits + 1)
    BY <2>1, StoredPhase DEF IInv, KeyInv, Bounded, Object
  <2>3. server[k].generation + 1 \in 1 .. (MaxEdits + 1)
    BY <1>3, <2>2, ControllerAssumption DEF EditSpec, UserWrite, IInv, Typed, ControllerAssumption
  <2>4. /\ o \in Object /\ o.deleting = server[k].deleting /\ o.finalizer = server[k].finalizer
        /\ o.generation = server[k].generation + 1 /\ o.observed = server[k].observed
    BY <2>2, <2>3 DEF Object
  <2> HIDE DEF o
  <2>5. o.observed # o.generation /\ o # Absent
    BY <2>2, <2>4, ObjectFields, ControllerAssumption DEF ControllerAssumption
  <2>6. PhaseOf(o) = IF server[k].finalizer THEN "pending" ELSE "new"
    BY <2>1, <2>4, <2>5 DEF PhaseOf
  <2>7. Life!Takes(k, {"absent", "new"}, "new") \/ Life!Takes(k, Life!Protected, "pending")
    BY <2>1, <2>4, <2>6, StoredPhase, StoreTakes
  <2> QED BY <1>1, <2>7 DEF Life!Next, Life!User
<1>4. CASE Delete(k) /\ server[k].finalizer
  <2> DEFINE o == [server[k] EXCEPT !.deleting = TRUE, !.generation = @ + 1]
  <2>1. server[k] # Absent /\ ~server[k].deleting /\ Store(k, o)
    BY <1>4 DEF Delete, UserWrite
  <2>2. server[k] \in Object /\ server[k].generation \in 1 .. (MaxEdits + 1)
        /\ server[k].generation <= edits + 1
    BY <2>1, StoredPhase DEF IInv, KeyInv, Bounded, Object
  <2>3. server[k].generation + 1 \in 1 .. (MaxEdits + 1)
    BY <1>4, <2>2, ControllerAssumption DEF Delete, UserWrite, IInv, Typed, ControllerAssumption
  <2>4. o \in Object /\ o.deleting
    BY <2>2, <2>3 DEF Object
  <2> HIDE DEF o
  <2>5. PhaseOf(o) = "terminating"
    BY <2>4, ObjectFields DEF PhaseOf
  <2>6. Life!Takes(k, Life!Protected, "terminating")
    BY <1>4, <2>1, <2>4, <2>5, StoredPhase, StoreTakes
  <2> QED BY <1>1, <2>6 DEF Life!Next, Life!User
<1>5. CASE Delete(k) /\ ~server[k].finalizer
  <2>1. server[k] # Absent /\ ~server[k].deleting /\ Store(k, Absent)
    BY <1>5 DEF Delete, UserWrite
  <2>2. PhaseOf(Absent) = "absent"
    BY DEF PhaseOf
  <2>3. Life!Takes(k, {"new"}, "absent")
    BY <1>5, <2>1, <2>2, StoredPhase, StoreTakes
  <2> QED BY <1>1, <2>3 DEF Life!Next, Life!User
<1> QED BY <1>2, <1>3, <1>4, <1>5

\* The three writes of a reconcile, whether or not their answer arrives.
LEMMA FinalizerLives ==
    ASSUME IInv, NEW k \in Records, pc[k] = "finalizer", objectFresh[k],
           Store(k, [object[k] EXCEPT !.finalizer = TRUE]), UNCHANGED edits
    PROVE  Life!Next \/ UNCHANGED phases
<1> DEFINE o == [object[k] EXCEPT !.finalizer = TRUE]
<1>1. /\ o \in Object /\ o.finalizer /\ ~o.deleting /\ o.generation = server[k].generation
      /\ o.observed = server[k].observed /\ server[k] \in Object /\ ~server[k].deleting
  BY HeldObject DEF IInv, KeyInv, Branch, Object
<1>2. server[k] # Absent /\ o # Absent
  BY <1>1, ObjectFields
<1> HIDE DEF o
<1>3. CASE server[k].finalizer
  <2>1. PhaseOf(o) = PhaseOf(server[k])
    BY <1>1, <1>2, <1>3 DEF PhaseOf
  <2> QED BY <1>1, <2>1, StoreStutters DEF o
<1>4. CASE ~server[k].finalizer
  <2>1. PhaseOf(server[k]) = "new"
    BY <1>1, <1>2, <1>4, StoredPhase
  <2>2. PhaseOf(o) = "pending"
    BY <1>1, <1>2, <2>1 DEF PhaseOf
  <2>3. Life!Takes(k, {"new"}, "pending")
    BY <1>1, <2>1, <2>2, StoreTakes DEF o
  <2> QED BY <2>3 DEF Life!Next, Life!Operator
<1> QED BY <1>3, <1>4

LEMMA StatusLives ==
    ASSUME IInv, NEW k \in Records, pc[k] = "status", objectFresh[k],
           Store(k, WithStatus(object[k])), UNCHANGED edits
    PROVE  Life!Next \/ UNCHANGED phases
<1> DEFINE o == WithStatus(object[k])
<1>1. o \in Object /\ o.observed = o.generation /\ ~o.deleting
  BY StatusWritten
<1>2. server[k] # Absent /\ ~server[k].deleting /\ server[k].finalizer
  BY HeldObject, ObjectFields DEF IInv, KeyInv, Branch
<1> HIDE DEF o
<1>3. PhaseOf(o) = "ready" /\ PhaseOf(server[k]) \in {"pending", "ready"}
  BY <1>1, <1>2, ObjectFields, StoredPhase DEF PhaseOf
<1>4. CASE PhaseOf(server[k]) = "ready"
  BY <1>1, <1>3, <1>4, StoreStutters DEF o
<1>5. CASE PhaseOf(server[k]) = "pending"
  <2>1. Life!Takes(k, {"pending"}, "ready")
    BY <1>1, <1>3, <1>5, StoreTakes DEF o
  <2> QED BY <2>1 DEF Life!Next, Life!Operator
<1> QED BY <1>3, <1>4, <1>5

LEMMA DeleteLives ==
    ASSUME IInv, NEW k \in Records, pc[k] = "delete", objectFresh[k],
           Store(k, Absent), UNCHANGED edits
    PROVE  Life!Next
<1>1. server[k] # Absent /\ server[k].deleting
  BY HeldObject, ObjectFields DEF IInv, KeyInv, Branch
<1>2. PhaseOf(server[k]) = "terminating" /\ PhaseOf(Absent) = "absent"
  BY <1>1 DEF PhaseOf
<1>3. Life!Takes(k, {"terminating"}, "absent")
  BY <1>2, StoreTakes
<1> QED BY <1>3 DEF Life!Next, Life!Operator

\* Every step of users, informer, queue, workers, API server and restarts is a
\* step of the life of some record, or none: the reconciler implements
\* RecordLife, for any records and workers.
THEOREM Refinement == Spec => LivesAsPromised
<1>1. Init => Life!Init
  BY DEF Init, Life!Init, PhaseOf
<1>2. ASSUME IInv, [Next]_vars PROVE Life!Next \/ UNCHANGED <<phases, edits>>
  <2>1. CASE UNCHANGED <<server, edits>>
    BY <2>1 DEF phases
  <2>2. ASSUME NEW k \in Records, Create(k) \/ EditSpec(k) \/ Delete(k) PROVE Life!Next
    BY <1>2, <2>2, UserLives
  <2>3. ASSUME NEW k \in Records, Reconcile(k) PROVE Life!Next \/ UNCHANGED <<phases, edits>>
    <3>1. UNCHANGED edits
      BY <2>3 DEF Reconcile, Get, AddFinalizer, UpdateStatus, RemoveFinalizer, Fails, AnswerLost,
                  counters
    <3>2. CASE Get(k) \/ Fails(k)
      BY <2>1, <3>1, <3>2 DEF Get, Fails, store
    <3>3. CASE AddFinalizer(k)
      <4>1. /\ pc[k] = "finalizer" /\ objectFresh[k]
            /\ Store(k, [object[k] EXCEPT !.finalizer = TRUE])
        BY <1>2, <3>3 DEF AddFinalizer, IInv, Typed
      <4> QED BY <1>2, <3>1, <4>1, FinalizerLives
    <3>4. CASE UpdateStatus(k)
      BY <1>2, <2>1, <3>1, <3>4, StatusLives DEF UpdateStatus, store
    <3>5. CASE RemoveFinalizer(k)
      BY <1>2, <3>1, <3>5, DeleteLives DEF RemoveFinalizer
    <3>6. CASE AnswerLost(k)
      BY <1>2, <3>1, <3>6, FinalizerLives, StatusLives, DeleteLives DEF AnswerLost
    <3> QED BY <2>3, <3>2, <3>3, <3>4, <3>5, <3>6 DEF Reconcile
  <2> QED BY <1>2, <2>1, <2>2, <2>3
          DEF Next, vars, store, counters, Deliver, Requeue, StartReconcile, LoadConfig, Restart
<1>3. IInv /\ [Next]_vars => [Life!Next]_(Life!vars)
  BY <1>2 DEF Life!vars, phases
<1> QED BY <1>1, <1>3, Invariance, PTL DEF Spec, LivesAsPromised, Life!Spec
=============================================================================
