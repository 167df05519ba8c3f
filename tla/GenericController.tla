------------------------- MODULE GenericController -------------------------
(***************************************************************************)
(* pkg/controller/generic.go: a level triggered controller.  An informer   *)
(* keeps a store of objects and calls the controller's event handlers; the *)
(* handlers put keys on a work queue; workers take keys, read the current  *)
(* object through the lister and hand it to the reconciler.                *)
(*                                                                         *)
(* The informer (its store, the notifications it has buffered for the      *)
(* handlers), the caller's context and the reconciler are the environment. *)
(* An object is abstracted to its resource version and whether it exists;  *)
(* every change of the store, deletions included, takes a fresh version.   *)
(***************************************************************************)
EXTENDS WorkQueue, FiniteSets

CONSTANTS
    Worker,         \* worker goroutines (ControllerOptions.Workers of them)
    Runner,         \* the goroutine that called Run
    NoKey,          \* what a worker holds when it holds no key
    MaxVersion,     \* bound: changes of the informer's store
    MaxPending,     \* bound: notifications buffered for the handlers
    MaxFailures     \* bound: transient reconciler errors

ASSUME ControllerAssumption ==
    /\ Runner \notin Worker
    /\ NoKey \notin Key
    /\ Worker # {}
    /\ IsFiniteSet(Key)
    /\ MaxVersion \in Nat /\ MaxPending \in Nat /\ MaxFailures \in Nat

VARIABLES
    store,          \* informer indexer: Key -> Object
    version,        \* last resource version given out
    pending,        \* notifications not yet delivered to the handlers
    synced,         \* informer.HasSynced()
    cancelled,      \* ctx.Done() is closed
    runPc,          \* where Run is
    pc,             \* where each worker is
    item,           \* the key each worker holds between Get and Done
    read,           \* the object each worker got from the lister
    failures,       \* reconciler errors so far
    observed,       \* the last object the reconciler accepted, per key
    vanished        \* history: keys last deleted by a relist (a tombstone)

infVars == <<store, version, pending, vanished>>
runVars == <<synced, cancelled, runPc>>
workVars == <<pc, item, read, failures, observed>>
vars == <<wqVars, infVars, runVars, workVars>>

Object == [version : Nat, live : BOOLEAN]
Absent == [version |-> 0, live |-> FALSE]

Notification ==
    [type : {"add", "update", "delete", "tombstone"},
     key : Key, old : Object, new : Object]

RunPc == {"start", "sync", "wait", "drain", "join", "returned"}
WorkerPc == {"off", "until", "get", "list", "reconcile", "requeue", "done",
             "exited", "skipped"}

(* Between Get and Done. *)
Active == {w \in Worker : pc[w] \in {"list", "reconcile", "requeue", "done"}}

Init ==
    /\ WQInit
    /\ store = [k \in Key |-> Absent]
    /\ version = 0
    /\ pending = <<>>
    /\ synced = FALSE
    /\ cancelled = FALSE
    /\ runPc = "start"
    /\ pc = [w \in Worker |-> "off"]
    /\ item = [w \in Worker |-> NoKey]
    /\ read = [w \in Worker |-> Absent]
    /\ failures = 0
    /\ observed = [k \in Key |-> Absent]
    /\ vanished = {}

-----------------------------------------------------------------------------
\* The informer and the caller (environment)

Registered == runPc # "start"

(* The store changes first, the listener is notified later; before Run has  *)
(* registered the handlers nobody is notified.                              *)
Notify(n) ==
    IF Registered
    THEN /\ Len(pending) < MaxPending
         /\ pending' = Append(pending, n)
    ELSE UNCHANGED pending

(* The informer stores a new object or a new version of one. *)
InformerStore(k) ==
    /\ version < MaxVersion
    /\ LET new == [version |-> version + 1, live |-> TRUE] IN
       /\ store' = [store EXCEPT ![k] = new]
       /\ Notify([type |-> IF store[k].live THEN "update" ELSE "add",
                  key |-> k, old |-> store[k], new |-> new])
    /\ version' = version + 1
    /\ vanished' = vanished \ {k}
    /\ UNCHANGED <<wqVars, runVars, workVars>>

(* A watch event deletes k, or a relist finds it gone: then the handlers    *)
(* are given a DeletedFinalStateUnknown.                                    *)
InformerDelete(k, type) ==
    /\ version < MaxVersion
    /\ store[k].live
    /\ LET new == [version |-> version + 1, live |-> FALSE] IN
       /\ store' = [store EXCEPT ![k] = new]
       /\ Notify([type |-> type, key |-> k, old |-> store[k], new |-> new])
    /\ version' = version + 1
    /\ vanished' = IF type = "tombstone" THEN vanished \cup {k}
                                         ELSE vanished \ {k}
    /\ UNCHANGED <<wqVars, runVars, workVars>>

(* A resync repeats the stored object as an update of itself. *)
InformerResync(k) ==
    /\ Registered
    /\ store[k].live
    /\ Notify([type |-> "update", key |-> k, old |-> store[k], new |-> store[k]])
    /\ UNCHANGED <<store, version, vanished, wqVars, runVars, workVars>>

InformerSync ==
    /\ ~synced
    /\ synced' = TRUE
    /\ UNCHANGED <<wqVars, infVars, cancelled, runPc, workVars>>

Cancel ==
    /\ ~cancelled
    /\ cancelled' = TRUE
    /\ UNCHANGED <<wqVars, infVars, synced, runPc, workVars>>

-----------------------------------------------------------------------------
\* The event handlers

(* enqueue: MetaNamespaceKeyFunc has no key for a tombstone, and the error  *)
(* is only logged.                                                          *)
KeyFuncFails(n) == n.type = "tombstone"

(* UpdateFunc ignores an update to the same resource version. *)
Ignored(n) == n.type = "update" /\ n.old.version = n.new.version

Enqueues(n) == ~KeyFuncFails(n) /\ ~Ignored(n)

Handle ==
    /\ pending # <<>>
    /\ pending' = Tail(pending)
    /\ IF Enqueues(Head(pending))
       THEN Add(Head(pending).key)
       ELSE UNCHANGED <<queue, dirty, condWait>>
    /\ UNCHANGED <<processing, shuttingDown, waiting, store, version, vanished,
                   runVars, workVars>>

-----------------------------------------------------------------------------
\* Run

(* AddEventHandler replays the store to the new listener, in any order. *)
Replay ==
    LET live == {k \in Key : store[k].live}
        order == {f \in [1..Cardinality(live) -> live] :
                     \A k \in live : \E i \in DOMAIN f : f[i] = k}
    IN  {[i \in DOMAIN f |-> [type |-> "add", key |-> f[i],
                              old |-> Absent, new |-> store[f[i]]]] : f \in order}

RunStart ==
    /\ runPc = "start"
    /\ runPc' = "sync"
    /\ pending' \in Replay
    /\ UNCHANGED <<wqVars, store, version, vanished, synced, cancelled, workVars>>

(* WaitForNamedCacheSync returned true: launch the workers. It looks at the *)
(* informer before it looks at the context.                                 *)
RunSynced ==
    /\ runPc = "sync"
    /\ synced
    /\ runPc' = "wait"
    /\ pc' = [w \in Worker |-> "until"]
    /\ UNCHANGED <<wqVars, infVars, synced, cancelled, item, read, failures, observed>>

(* Cancelled during the cache sync: Run returns without shutting the queue. *)
RunNotSynced ==
    /\ runPc = "sync"
    /\ cancelled
    /\ runPc' = "returned"
    /\ UNCHANGED <<wqVars, infVars, synced, cancelled, workVars>>

(* <-ctx.Done(), then the first half of ShutDownWithDrain. *)
RunShutDown ==
    /\ runPc = "wait"
    /\ cancelled
    /\ runPc' = "drain"
    /\ ShutDown
    /\ UNCHANGED <<infVars, synced, cancelled, workVars>>

(* The loop of ShutDownWithDrain: wait while something is processing. *)
RunDrainWait ==
    /\ runPc = "drain"
    /\ Runner \notin condWait
    /\ processing # {}
    /\ condWait' = condWait \cup {Runner}
    /\ UNCHANGED <<queue, dirty, processing, shuttingDown, waiting,
                   infVars, runVars, workVars>>

RunDrained ==
    /\ runPc = "drain"
    /\ Runner \notin condWait
    /\ processing = {}
    /\ runPc' = "join"
    /\ UNCHANGED <<wqVars, infVars, synced, cancelled, workVars>>

(* Defect: Run returns without waitGroup.Wait(). *)
RunJoinAtOnce ==
    /\ runPc = "join"
    /\ runPc' = "returned"
    /\ UNCHANGED <<wqVars, infVars, synced, cancelled, workVars>>

(* waitGroup.Wait() *)
RunJoin ==
    /\ runPc = "join"
    /\ \A w \in Worker : pc[w] \in {"exited", "skipped"}
    /\ runPc' = "returned"
    /\ UNCHANGED <<wqVars, infVars, synced, cancelled, workVars>>

-----------------------------------------------------------------------------
\* A worker goroutine: wait.Until(c.runWorker, time.Second, ctx.Done())

(* wait.Until looks at the context before it calls runWorker at all. *)
WorkerUntil(w) ==
    /\ pc[w] = "until"
    /\ pc' = [pc EXCEPT ![w] = IF cancelled THEN "skipped" ELSE "get"]
    /\ UNCHANGED <<wqVars, infVars, runVars, item, read, failures, observed>>

WorkerGet(w) ==
    /\ pc[w] = "get"
    /\ w \notin condWait
    /\ \E k \in Key :
          /\ Get(k)
          /\ item' = [item EXCEPT ![w] = k]
    /\ pc' = [pc EXCEPT ![w] = "list"]
    /\ UNCHANGED <<infVars, runVars, read, failures, observed>>

WorkerBlock(w) ==
    /\ pc[w] = "get"
    /\ w \notin condWait
    /\ GetWait(w)
    /\ UNCHANGED <<infVars, runVars, workVars>>

(* runWorker returns, and wait.Until with it: the context is done. *)
WorkerExit(w) ==
    /\ pc[w] = "get"
    /\ w \notin condWait
    /\ GetShutdown
    /\ pc' = [pc EXCEPT ![w] = "exited"]
    /\ UNCHANGED <<infVars, runVars, item, read, failures, observed>>

(* lister.Get of pkg/controller/lister.go, namespaced or not. *)
ListerGet(k) == store[k]

(* reconcile: lister.Get; NotFound hands the reconciler an empty object. *)
WorkerList(w) ==
    /\ pc[w] = "list"
    /\ read' = [read EXCEPT ![w] = ListerGet(item[w])]
    /\ pc' = [pc EXCEPT ![w] = "reconcile"]
    /\ UNCHANGED <<wqVars, infVars, runVars, item, failures, observed>>

(* The reconciler accepts the object; Forget only resets the back-off. *)
WorkerReconcile(w) ==
    /\ pc[w] = "reconcile"
    /\ observed' = [observed EXCEPT ![item[w]] = read[w]]
    /\ pc' = [pc EXCEPT ![w] = "done"]
    /\ UNCHANGED <<wqVars, infVars, runVars, item, read, failures>>

(* Defect: the key is cleared before it is put back on the queue. *)
WorkerReconcileFailsKeyless(w) ==
    /\ pc[w] = "reconcile"
    /\ failures < MaxFailures
    /\ failures' = failures + 1
    /\ item' = [item EXCEPT ![w] = NoKey]
    /\ pc' = [pc EXCEPT ![w] = "requeue"]
    /\ UNCHANGED <<wqVars, infVars, runVars, read, observed>>

WorkerReconcileFails(w) ==
    /\ pc[w] = "reconcile"
    /\ failures < MaxFailures
    /\ failures' = failures + 1
    /\ pc' = [pc EXCEPT ![w] = "requeue"]
    /\ UNCHANGED <<wqVars, infVars, runVars, item, read, observed>>

(* Defect: a transient error is not retried. *)
WorkerRequeueNever(w) ==
    /\ pc[w] = "requeue"
    /\ pc' = [pc EXCEPT ![w] = "done"]
    /\ UNCHANGED <<wqVars, infVars, runVars, item, read, failures, observed>>

WorkerRequeue(w) ==
    /\ pc[w] = "requeue"
    /\ AddRateLimited(item[w])
    /\ pc' = [pc EXCEPT ![w] = "done"]
    /\ UNCHANGED <<infVars, runVars, item, read, failures, observed>>

(* The deferred queue.Done *)
WorkerDone(w) ==
    /\ pc[w] = "done"
    /\ Done(item[w])
    /\ item' = [item EXCEPT ![w] = NoKey]
    /\ read' = [read EXCEPT ![w] = Absent]
    /\ pc' = [pc EXCEPT ![w] = "get"]
    /\ UNCHANGED <<infVars, runVars, failures, observed>>

QueueReady(k) ==
    /\ WaitingReady(k)
    /\ UNCHANGED <<infVars, runVars, workVars>>

-----------------------------------------------------------------------------

Informer ==
    \/ \E k \in Key : InformerStore(k)
    \/ \E k \in Key : InformerDelete(k, "delete")
    \/ \E k \in Key : InformerDelete(k, "tombstone")
    \/ \E k \in Key : InformerResync(k)
    \/ InformerSync

RunStep ==
    \/ RunStart \/ RunSynced \/ RunNotSynced \/ RunShutDown
    \/ RunDrainWait \/ RunDrained \/ RunJoin

WorkerStep(w) ==
    \/ WorkerUntil(w) \/ WorkerGet(w) \/ WorkerBlock(w) \/ WorkerExit(w)
    \/ WorkerList(w) \/ WorkerReconcile(w) \/ WorkerReconcileFails(w)
    \/ WorkerRequeue(w) \/ WorkerDone(w)

Next ==
    \/ Informer
    \/ Cancel
    \/ Handle
    \/ RunStep
    \/ \E w \in Worker : WorkerStep(w)
    \/ \E k \in Key : QueueReady(k)

Spec == Init /\ [][Next]_vars

(* Goroutines that can run do run, buffered notifications are delivered and *)
(* back-offs elapse. Nothing is assumed of the informer or of the caller.   *)
Fairness ==
    /\ WF_vars(Handle)
    /\ WF_vars(RunStep)
    /\ \A w \in Worker : WF_vars(WorkerStep(w))
    /\ \A k \in Key : WF_vars(QueueReady(k))

FairSpec == Spec /\ Fairness

-----------------------------------------------------------------------------
\* Properties

(* Every variable has its type. *)
TypeOK ==
    /\ queue \in Seq(Key)
    /\ dirty \subseteq Key
    /\ processing \subseteq Key
    /\ shuttingDown \in BOOLEAN
    /\ condWait \subseteq Worker \cup {Runner}
    /\ waiting \subseteq Key
    /\ store \in [Key -> Object]
    /\ version \in Nat
    /\ pending \in Seq(Notification)
    /\ synced \in BOOLEAN
    /\ cancelled \in BOOLEAN
    /\ runPc \in RunPc
    /\ pc \in [Worker -> WorkerPc]
    /\ item \in [Worker -> Key \cup {NoKey}]
    /\ read \in [Worker -> Object]
    /\ failures \in Nat
    /\ observed \in [Key -> Object]
    /\ vanished \subseteq Key

(* The three sets of the queue agree with each other and with the workers:  *)
(* no key is queued twice, what is queued is what is dirty and not being    *)
(* processed, and the keys being processed are those the workers hold.      *)
QueueConsistent ==
    /\ IsInjective(queue)
    /\ Queued = dirty \ processing
    /\ processing = {item[w] : w \in Active}

(* Two workers never work on the same key at the same time, however often   *)
(* the key is added while it is being reconciled (runWorker between Get and *)
(* Done).                                                                   *)
ExclusiveProcessing ==
    \A v, w \in Active : item[v] = item[w] => v = w

(* a and b look the same to a reconciler. *)
SameObject(a, b) == a = b \/ (~a.live /\ ~b.live)

(* The controller still has k to look at. *)
Covered(k) ==
    \/ \E i \in 1..Len(pending) : pending[i].key = k /\ Enqueues(pending[i])
    \/ k \in dirty
    \/ k \in waiting

BeingRead(k) ==
    \E w \in Active :
        /\ item[w] = k
        /\ \/ pc[w] \in {"list", "requeue"}
           \/ pc[w] = "reconcile" /\ SameObject(read[w], store[k])

(* While the queue accepts work, an object the reconciler has not seen in   *)
(* its present state is still on its way to it: coalescing in Add, a change *)
(* between lister.Get and Done, an ignored resync or a failed reconcile     *)
(* never loses the last change. Deletions found by a relist are exempt; see *)
(* NoLostDelete.                                                            *)
NoLostChange ==
    \A k \in Key :
        (Registered /\ ~shuttingDown /\ k \notin vanished
            /\ ~SameObject(observed[k], store[k]))
        => Covered(k) \/ BeingRead(k)

(* The same for every change, relists included: "Deleted object. Inform     *)
(* reconciler with empty".                                                  *)
NoLostDelete ==
    \A k \in Key :
        (Registered /\ ~shuttingDown /\ ~SameObject(observed[k], store[k]))
        => Covered(k) \/ BeingRead(k)

(* A worker that will look at the queue again without being woken. *)
Awake(w) ==
    \/ pc[w] = "until" /\ ~cancelled
    \/ pc[w] = "get" /\ w \notin condWait
    \/ w \in Active

(* No lost wake-up: cond.Signal wakes a single goroutine, and still no key  *)
(* is left in the queue with every serving worker parked in Get or gone.    *)
NoLostWakeup ==
    (queue # <<>> /\ \E w \in Worker : pc[w] \in {"get", "exited"})
    => \E w \in Worker : Awake(w)

(* "Finish processing any enqueued items": once Run has returned, a queue   *)
(* that at least one worker served has been drained, by ShutDownWithDrain   *)
(* and waitGroup.Wait. The exception: a cancellation before any worker has  *)
(* come past wait.Until leaves the queue as it is.                          *)
DrainedIfServed ==
    (runPc = "returned" /\ \E w \in Worker : pc[w] = "exited")
    => queue = <<>> /\ dirty = {} /\ processing = {}

(* The reconciler is never shown an older state of an object than one it    *)
(* has accepted, though the key is read by different workers.               *)
NeverBackwards ==
    [][\A k \in Key : observed[k].version <= observed'[k].version]_vars

(* Once Run has returned, the reconciler is not called again: an owner may  *)
(* free what the reconciler uses.                                           *)
QuietAfterReturn ==
    [][runPc = "returned" => UNCHANGED <<observed, failures>>]_vars

(* queue, dirty and processing, the condition variable and the workers'     *)
(* loop together are a set of keys with work to do: see KeyedWork.          *)
Work == INSTANCE KeyedWork WITH todo <- dirty, holds <- item, open <- ~shuttingDown

(* Coalescing in Add, the key that Done puts back and the drain are steps   *)
(* of that set or change nothing in it: no key leaves it but to a worker    *)
(* that alone holds it, and none enters it after ShutDown.                  *)
ImplementsKeyedWork == Work!Spec

(* Every state an object keeps is eventually accepted by the reconciler, as *)
(* long as the workers run.                                                 *)
EventuallyObserved ==
    \A k \in Key : \A n \in 0..MaxVersion :
        (runPc = "wait" /\ store[k].version = n)
        ~> \/ SameObject(observed[k], store[k])
           \/ store[k].version # n
           \/ k \in vanished
           \/ cancelled

(* Run returns after its context is cancelled, wherever it was. *)
RunReturns == cancelled ~> runPc = "returned"
=============================================================================
