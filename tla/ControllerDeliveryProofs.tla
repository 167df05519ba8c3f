---------------------- MODULE ControllerDeliveryProofs ----------------------
(***************************************************************************)
(* What generic.go's controller promises about keys and objects, on top of *)
(* the consistent queue of GenericControllerProofs: no wake-up is lost, a  *)
(* served queue is drained, the reconciler is quiet after Run has          *)
(* returned, it is never shown an older state than one it has accepted,    *)
(* and no change is lost.                                                  *)
(***************************************************************************)
EXTENDS GenericControllerProofs

-----------------------------------------------------------------------------
\* Goroutines: who sleeps, who has ended, who is awake

(* A worker's loop ends only when the queue shuts down; a goroutine sleeps  *)
(* on the condition variable only in Get or in the drain; Run returns after *)
(* its workers.                                                             *)
LifeOK ==
    /\ \A w \in Worker : pc[w] = "exited" => shuttingDown
    /\ \A w \in Worker : w \in condWait => pc[w] = "get"
    /\ Runner \in condWait => shuttingDown
    /\ runPc = "drain" => shuttingDown
    /\ runPc = "returned" => \A w \in Worker : pc[w] \in {"off", "exited", "skipped"}

(* A worker that a cancellation cannot keep from looking at the queue. *)
Serving(w) == (pc[w] = "get" /\ w \notin condWait) \/ w \in Active

(* NoLostWakeup without the workers that have not come past wait.Until: a   *)
(* cancellation turns those away, so they must not be the only ones awake.  *)
WakeOK ==
    (queue # <<>> /\ \E w \in Worker : pc[w] \in {"get", "exited"})
    => \E w \in Worker : Serving(w)

(* Before Run is called there is no worker. *)
LEMMA InitLife == Init => LifeOK /\ WakeOK
BY DEF Init, WQInit, LifeOK, WakeOK

(* Steps that change neither the workers nor what they wait for. *)
LEMMA LifeUntouched ==
    ASSUME LifeOK, WakeOK,
           UNCHANGED <<queue, shuttingDown, condWait, pc>>,
           runPc' = "returned" => runPc = "returned" \/ \A w \in Worker : pc[w] = "off",
           runPc' = "drain" => runPc = "drain"
    PROVE  LifeOK' /\ WakeOK'
BY DEF LifeOK, WakeOK, Serving, Active

(* Whoever adds a key while the queue accepts keys wakes a worker if none   *)
(* is awake: only workers sleep then.                                       *)
LEMMA AddWakes ==
    ASSUME TypeOK, LifeOK, WakeOK, NEW k \in Key, Add(k),
           UNCHANGED <<shuttingDown, pc, runPc>>
    PROVE  LifeOK' /\ WakeOK'
<1>1. CASE UNCHANGED <<queue, condWait>>
  BY <1>1, LifeUntouched
<1>2. CASE ~shuttingDown /\ Signal
  <2>1. condWait' \subseteq condWait
    BY <1>2, SignalWakes
  <2>2. LifeOK'
    BY <1>2, <2>1 DEF LifeOK
  <2>3. ASSUME NEW v \in Worker, pc[v] \in {"get", "exited"}
        PROVE  \E w \in Worker : Serving(w)'
    <3>1. pc[v] = "get"
      BY <1>2, <2>3 DEF LifeOK
    <3>2. CASE condWait = {}
      BY <2>1, <3>1, <3>2 DEF Serving
    <3>3. CASE condWait # {}
      <4>1. PICK p \in condWait : condWait' = condWait \ {p}
        BY <1>2, <3>3 DEF Signal
      <4>2. p \in Worker /\ pc[p] = "get"
        BY <1>2 DEF LifeOK, TypeOK
      <4> QED
        BY <4>1, <4>2 DEF Serving
    <3> QED
      BY <3>2, <3>3
  <2>4. WakeOK'
    BY <2>3 DEF WakeOK
  <2> QED
    BY <2>2, <2>4
<1> QED
  BY <1>1, <1>2 DEF Add

(* Every step of Run. *)
LEMMA RunLife ==
    ASSUME TypeOK, HeldOK, LifeOK, WakeOK, RunStep
    PROVE  LifeOK' /\ WakeOK'
<1>1. CASE RunStart \/ RunNotSynced \/ RunDrained
  BY <1>1, LifeUntouched
     DEF RunStart, RunNotSynced, RunDrained, wqVars, workVars, HeldOK, NotLaunched
<1>2. CASE RunSynced
  BY <1>2 DEF RunSynced, wqVars, LifeOK, WakeOK, HeldOK, NotLaunched
<1>3. CASE RunShutDown
  BY <1>3 DEF RunShutDown, ShutDown, Broadcast, workVars, LifeOK, WakeOK, Serving, Active
<1>4. CASE RunDrainWait
  <2>1. /\ runPc = "drain"
        /\ condWait' = condWait \cup {Runner}
        /\ UNCHANGED <<queue, shuttingDown, runPc, pc>>
    BY <1>4 DEF RunDrainWait, runVars, workVars
  <2>2. \A w \in Worker : w \in condWait' <=> w \in condWait
    BY <2>1, ControllerAssumption
  <2> QED
    BY <2>1, <2>2 DEF LifeOK, WakeOK, Serving, Active
<1>5. CASE RunJoin
  BY <1>5 DEF RunJoin, wqVars, workVars, LifeOK, WakeOK, Serving, Active
<1> QED
  BY <1>1, <1>2, <1>3, <1>4, <1>5 DEF RunStep

(* Every step of a worker. *)
LEMMA WorkerLife ==
    ASSUME TypeOK, HeldOK, LifeOK, WakeOK, NEW w \in Worker, WorkerStep(w)
    PROVE  LifeOK' /\ WakeOK'
<1>1. CASE WorkerUntil(w)
  <2>1. /\ pc[w] = "until" /\ w \notin condWait
        /\ pc'[w] \in {"skipped", "get"}
        /\ \A v \in Worker \ {w} : pc'[v] = pc[v]
        /\ UNCHANGED <<queue, shuttingDown, condWait, runPc>>
    BY <1>1 DEF WorkerUntil, TypeOK, LifeOK, wqVars, runVars
  <2> QED
    BY <2>1 DEF LifeOK, WakeOK, Serving, Active
<1>2. CASE WorkerGet(w)
  <2>1. /\ pc[w] = "get" /\ w \notin condWait
        /\ pc' = [pc EXCEPT ![w] = "list"]
        /\ UNCHANGED <<shuttingDown, condWait, runPc>>
    BY <1>2 DEF WorkerGet, Get, runVars
  <2> QED
    BY <2>1 DEF LifeOK, WakeOK, Serving, Active, TypeOK
<1>3. CASE WorkerBlock(w)
  <2>1. /\ queue' = <<>> /\ ~shuttingDown
        /\ pc[w] = "get"
        /\ condWait' = condWait \cup {w}
        /\ UNCHANGED <<shuttingDown, pc, runPc>>
    BY <1>3 DEF WorkerBlock, GetWait, runVars, workVars
  <2> QED
    BY <2>1, ControllerAssumption DEF LifeOK, WakeOK
<1>4. CASE WorkerExit(w)
  <2>1. /\ queue' = <<>> /\ shuttingDown
        /\ pc[w] = "get" /\ w \notin condWait
        /\ pc' = [pc EXCEPT ![w] = "exited"]
        /\ UNCHANGED <<shuttingDown, condWait, runPc>>
    BY <1>4 DEF WorkerExit, GetShutdown, wqVars, runVars
  <2> QED
    BY <2>1 DEF LifeOK, WakeOK, TypeOK
<1>5. CASE WorkerList(w) \/ WorkerReconcile(w) \/ WorkerReconcileFails(w) \/ WorkerRequeue(w)
  <2>1. /\ pc[w] \in {"list", "reconcile", "requeue"}
        /\ pc'[w] \in {"reconcile", "requeue", "done"}
        /\ \A v \in Worker \ {w} : pc'[v] = pc[v]
        /\ UNCHANGED <<queue, shuttingDown, condWait, runPc>>
    BY <1>5 DEF WorkerList, WorkerReconcile, WorkerReconcileFails, WorkerRequeue,
                AddRateLimited, TypeOK, wqVars, runVars
  <2> QED
    BY <2>1 DEF LifeOK, WakeOK, Serving, Active
<1>6. CASE WorkerDone(w)
  <2>1. condWait' \subseteq condWait
    BY <1>6, SignalWakes DEF WorkerDone, Done
  <2>2. /\ pc[w] = "done"
        /\ pc' = [pc EXCEPT ![w] = "get"]
        /\ UNCHANGED <<shuttingDown, runPc>>
    BY <1>6 DEF WorkerDone, Done, runVars
  <2>3. w \notin condWait'
    BY <2>1, <2>2 DEF LifeOK
  <2> QED
    BY <2>1, <2>2, <2>3 DEF LifeOK, WakeOK, Serving, TypeOK
<1> QED
  BY <1>1, <1>2, <1>3, <1>4, <1>5, <1>6 DEF WorkerStep

(* The notification that a handler takes has a key. *)
LEMMA HeadNotification ==
    ASSUME TypeOK, pending # <<>>
    PROVE  Head(pending) \in Notification /\ Head(pending).key \in Key
<1>1. Head(pending) \in Notification
  BY HeadTailProperties DEF TypeOK
<1> QED
  BY <1>1 DEF Notification

(* LifeOK and WakeOK are kept by every step. *)
LEMMA NextLife == IInv /\ LifeOK /\ WakeOK /\ [Next]_vars => LifeOK' /\ WakeOK'
<1> SUFFICES ASSUME TypeOK, HeldOK, LifeOK, WakeOK, [Next]_vars
             PROVE  LifeOK' /\ WakeOK'
  BY IInvSplit
<1>1. CASE Informer \/ Cancel \/ UNCHANGED vars
  <2>1. UNCHANGED <<wqVars, workVars, runPc>>
    BY <1>1, Zenon DEF Informer, InformerStore, InformerDelete, InformerResync,
                       InformerSync, Cancel, vars, runVars
  <2> QED
    BY <2>1, LifeUntouched DEF wqVars, workVars
<1>2. CASE Handle
  <2>1. Head(pending).key \in Key
    BY <1>2, HeadNotification DEF Handle
  <2> QED
    BY <1>2, <2>1, AddWakes, LifeUntouched DEF Handle, runVars, workVars
<1>3. CASE RunStep
  BY <1>3, RunLife
<1>4. CASE \E w \in Worker : WorkerStep(w)
  BY <1>4, WorkerLife
<1>5. CASE \E k \in Key : QueueReady(k)
  BY <1>5, AddWakes DEF QueueReady, WaitingReady, runVars, workVars
<1> QED
  BY <1>1, <1>2, <1>3, <1>4, <1>5 DEF Next

(* Both hold in every reachable state. *)
THEOREM Liveliness == Spec => [](LifeOK /\ WakeOK)
BY InitLife, NextLife, Invariance, PTL DEF Spec

(* No wake-up is lost: cond.Signal wakes one goroutine only, and still      *)
(* never leaves a key in the queue to sleeping workers.                     *)
THEOREM WakeUps == Spec => []NoLostWakeup
<1>1. LifeOK /\ WakeOK => NoLostWakeup
  BY DEF WakeOK, Serving, NoLostWakeup, Awake
<1> QED
  BY <1>1, Liveliness, PTL

(* ShutDownWithDrain and waitGroup.Wait: when Run has returned, a queue     *)
(* that some worker served is empty, and stays so.                          *)
THEOREM Drain == Spec => []DrainedIfServed
<1>1. IInv /\ LifeOK /\ WakeOK => DrainedIfServed
  <2> SUFFICES ASSUME TypeOK, QueueOK, HeldOK, LifeOK, WakeOK, runPc = "returned",
                      \E w \in Worker : pc[w] = "exited"
               PROVE  queue = <<>> /\ dirty = {} /\ processing = {}
    BY IInvSplit DEF DrainedIfServed
  <2>1. \A w \in Worker : ~Serving(w) /\ w \notin Active
    BY DEF LifeOK, Serving, Active
  <2>2. queue = <<>>
    BY <2>1 DEF WakeOK
  <2>3. processing = {}
    BY <2>1 DEF HeldOK, Active
  <2>4. dirty = {}
    BY <2>2, <2>3 DEF QueueOK, Queued, Range
  <2> QED
    BY <2>2, <2>3, <2>4
<1> QED
  BY <1>1, Invariance, Liveliness, PTL

(* waitGroup.Wait: the reconciler is not called once Run has returned. *)
THEOREM Quiet == Spec => QuietAfterReturn
<1>1. LifeOK /\ [Next]_vars => [runPc = "returned" => UNCHANGED <<observed, failures>>]_vars
  <2> SUFFICES ASSUME LifeOK, Next, runPc = "returned"
               PROVE  UNCHANGED <<observed, failures>>
    OBVIOUS
  <2>1. ASSUME NEW w \in Worker, WorkerStep(w) PROVE FALSE
    BY <2>1 DEF LifeOK, WorkerStep, WorkerUntil, WorkerGet, WorkerBlock, WorkerExit,
                WorkerList, WorkerReconcile, WorkerReconcileFails, WorkerRequeue, WorkerDone
  <2>2. UNCHANGED workVars
    BY <2>1, Zenon DEF Next, Informer, InformerStore, InformerDelete, InformerResync,
                InformerSync, Cancel, Handle, RunStep, RunStart, RunSynced,
                RunNotSynced, RunShutDown, RunDrainWait, RunDrained, RunJoin, QueueReady
  <2> QED
    BY <2>2 DEF workVars
<1> QED
  BY <1>1, Liveliness, PTL DEF Spec, QuietAfterReturn
-----------------------------------------------------------------------------
\* Versions: the reconciler's view of an object never goes back

(* The informer's versions grow, and what the reconciler has accepted, what *)
(* a worker has read and what the store has come in this order.             *)
VersionsOK ==
    /\ \A k \in Key : /\ store[k].version <= version
                      /\ observed[k].version <= store[k].version
    /\ \A w \in Worker : pc[w] = "reconcile" =>
          /\ observed[item[w]].version <= read[w].version
          /\ read[w].version <= store[item[w]].version

(* Before Run is called there is no object. *)
LEMMA InitVersions == Init => VersionsOK
BY DEF Init, VersionsOK, Absent

(* A worker that holds an object to reconcile holds its key alone. *)
LEMMA ReconcilerHoldsKey ==
    ASSUME TypeOK, QueueOK, HeldOK, NEW w \in Worker, w \in Active
    PROVE  /\ item[w] \in Key
           /\ item[w] \in processing
           /\ \A v \in Active : item[v] = item[w] => v = w
BY DEF HeldOK, QueueOK, ExclusiveProcessing

(* The informer stores a newer object, or none. *)
LEMMA InformerVersions ==
    ASSUME TypeOK, QueueOK, HeldOK, VersionsOK, Informer
    PROVE  VersionsOK'
<1>1. UNCHANGED <<observed, pc, item, read>>
  BY Zenon DEF Informer, InformerStore, InformerDelete, InformerResync, InformerSync, workVars
<1>2. CASE UNCHANGED <<store, version>>
  BY <1>1, <1>2 DEF VersionsOK
<1>3. ASSUME NEW k \in Key, NEW new \in Object, new.version = version + 1,
             store' = [store EXCEPT ![k] = new], version' = version + 1
      PROVE  VersionsOK'
  <2>1. \A j \in Key : /\ store[j] \in Object /\ observed[j] \in Object
                       /\ store'[j] = IF j = k THEN new ELSE store[j]
    BY <1>3 DEF TypeOK
  <2>2. \A j \in Key : /\ store[j].version \in Nat /\ observed[j].version \in Nat
                       /\ store'[j].version \in Nat
                       /\ store[j].version <= store'[j].version
                       /\ store'[j].version <= version'
    BY <1>3, <2>1 DEF Object, VersionsOK, TypeOK
  <2>3. \A w \in Worker : pc[w] = "reconcile" =>
           item[w] \in Key /\ read[w].version \in Nat
    BY ReconcilerHoldsKey DEF Active, TypeOK, Object
  <2> QED
    BY <1>1, <2>2, <2>3 DEF VersionsOK
<1>4. ASSUME NEW k \in Key, InformerStore(k)
      PROVE  VersionsOK'
  <2> DEFINE new == [version |-> version + 1, live |-> TRUE]
  <2>1. new \in Object /\ new.version = version + 1
    BY DEF Object, TypeOK
  <2>2. store' = [store EXCEPT ![k] = new] /\ version' = version + 1
    BY <1>4 DEF InformerStore
  <2> HIDE DEF new
  <2> QED
    BY <1>3, <2>1, <2>2
<1>5. ASSUME NEW k \in Key, NEW type, InformerDelete(k, type)
      PROVE  VersionsOK'
  <2> DEFINE new == [version |-> version + 1, live |-> FALSE]
  <2>1. new \in Object /\ new.version = version + 1
    BY DEF Object, TypeOK
  <2>2. store' = [store EXCEPT ![k] = new] /\ version' = version + 1
    BY <1>5 DEF InformerDelete
  <2> HIDE DEF new
  <2> QED
    BY <1>3, <2>1, <2>2
<1>6. CASE InformerSync \/ \E k \in Key : InformerResync(k)
  BY <1>2, <1>6 DEF InformerSync, InformerResync, infVars
<1> QED
  BY <1>4, <1>5, <1>6 DEF Informer

(* A worker reads and hands over what nobody else reconciles meanwhile. *)
LEMMA WorkerVersions ==
    ASSUME TypeOK, QueueOK, HeldOK, VersionsOK, NEW w \in Worker, WorkerStep(w)
    PROVE  VersionsOK'
<1>0. UNCHANGED <<store, version>>
  BY Zenon DEF WorkerStep, WorkerUntil, WorkerGet, WorkerBlock, WorkerExit, WorkerList,
         WorkerReconcile, WorkerReconcileFails, WorkerRequeue, WorkerDone, infVars
<1>1. CASE WorkerList(w)
  <2>1. /\ item[w] \in Key
        /\ read' = [read EXCEPT ![w] = store[item[w]]]
        /\ pc' = [pc EXCEPT ![w] = "reconcile"]
        /\ UNCHANGED <<item, observed>>
    BY <1>1, ReconcilerHoldsKey DEF WorkerList, ListerGet, Active
  <2>2. store[item[w]].version \in Nat
    BY <2>1 DEF TypeOK, Object
  <2> QED
    BY <1>0, <2>1, <2>2 DEF VersionsOK, TypeOK
<1>2. CASE WorkerReconcile(w)
  <2>1. /\ item[w] \in Key /\ pc[w] = "reconcile"
        /\ observed' = [observed EXCEPT ![item[w]] = read[w]]
        /\ pc' = [pc EXCEPT ![w] = "done"]
        /\ UNCHANGED <<item, read>>
        /\ \A v \in Active : item[v] = item[w] => v = w
    BY <1>2, ReconcilerHoldsKey DEF WorkerReconcile, Active
  <2>2. \A k \in Key : observed'[k] = IF k = item[w] THEN read[w] ELSE observed[k]
    BY <2>1 DEF TypeOK
  <2>3. ASSUME NEW v \in Worker, pc'[v] = "reconcile"
        PROVE  v # w /\ pc[v] = "reconcile" /\ item[v] \in Key /\ item[v] # item[w]
    BY <2>1, <2>3, ReconcilerHoldsKey DEF Active, TypeOK
  <2> QED
    BY <1>0, <2>1, <2>2, <2>3 DEF VersionsOK
<1>3. CASE ~WorkerList(w) /\ ~WorkerReconcile(w)
  <2>1. \A v \in Worker : pc'[v] = "reconcile" =>
           pc[v] = "reconcile" /\ item'[v] = item[v] /\ read'[v] = read[v]
    BY <1>3 DEF WorkerStep, WorkerUntil, WorkerGet, WorkerBlock, WorkerExit,
                WorkerReconcileFails, WorkerRequeue, WorkerDone, TypeOK, workVars
  <2>2. UNCHANGED observed
    BY <1>3 DEF WorkerStep, WorkerUntil, WorkerGet, WorkerBlock, WorkerExit,
                WorkerReconcileFails, WorkerRequeue, WorkerDone, workVars
  <2> QED
    BY <1>0, <2>1, <2>2 DEF VersionsOK
<1> QED
  BY <1>1, <1>2, <1>3

(* Steps of Run, of the handlers and of the queue's timer leave the         *)
(* objects and the workers' hands alone.                                    *)
LEMMA OtherSteps ==
    ASSUME NotLaunched,
           Cancel \/ Handle \/ RunStep \/ (\E k \in Key : QueueReady(k)) \/ UNCHANGED vars
    PROVE  /\ UNCHANGED <<store, version, vanished, item, read, observed>>
           /\ \A w \in Worker : pc'[w] # pc[w] => pc[w] = "off" /\ pc'[w] = "until"
BY DEF Cancel, Handle, RunStep, RunStart, RunSynced, RunNotSynced, RunShutDown,
       RunDrainWait, RunDrained, RunJoin, QueueReady, infVars, workVars, vars,
       NotLaunched

(* The order of versions is kept by every step. *)
LEMMA NextVersions == IInv /\ VersionsOK /\ [Next]_vars => VersionsOK'
<1> SUFFICES ASSUME TypeOK, QueueOK, HeldOK, VersionsOK, [Next]_vars
             PROVE  VersionsOK'
  BY IInvSplit
<1>1. CASE Informer
  BY <1>1, InformerVersions
<1>2. CASE \E w \in Worker : WorkerStep(w)
  BY <1>2, WorkerVersions
<1>3. CASE Cancel \/ Handle \/ RunStep \/ (\E k \in Key : QueueReady(k)) \/ UNCHANGED vars
  <2>1. UNCHANGED <<store, version, item, read, observed>>
    BY <1>3, OtherSteps DEF HeldOK
  <2>2. \A w \in Worker : pc'[w] = "reconcile" => pc[w] = "reconcile"
    BY <1>3, OtherSteps DEF HeldOK
  <2> QED
    BY <2>1, <2>2 DEF VersionsOK
<1> QED
  BY <1>1, <1>2, <1>3 DEF Next

(* The order of versions holds in every reachable state. *)
THEOREM VersionOrder == Spec => []VersionsOK
BY InitVersions, NextVersions, Invariance, PTL DEF Spec

(* However the workers and the informer interleave, the reconciler never    *)
(* accepts an older state of an object after a newer one.                   *)
THEOREM Forwards == Spec => NeverBackwards
<1>1. IInv /\ VersionsOK /\ [Next]_vars
      => [\A k \in Key : observed[k].version <= observed'[k].version]_vars
  <2> SUFFICES ASSUME TypeOK, QueueOK, HeldOK, VersionsOK, Next, NEW k \in Key
               PROVE  observed[k].version <= observed'[k].version
    BY IInvSplit
  <2>1. observed[k].version \in Nat
    BY DEF TypeOK, Object
  <2>2. CASE UNCHANGED observed
    BY <2>1, <2>2
  <2>3. ASSUME NEW w \in Worker, WorkerReconcile(w)
        PROVE  observed[k].version <= observed'[k].version
    BY <2>1, <2>3 DEF WorkerReconcile, VersionsOK, TypeOK
  <2>4. ASSUME NEW w \in Worker, WorkerStep(w), ~WorkerReconcile(w)
        PROVE  UNCHANGED observed
    BY <2>4 DEF WorkerStep, WorkerUntil, WorkerGet, WorkerBlock, WorkerExit, WorkerList,
                WorkerReconcileFails, WorkerRequeue, WorkerDone, workVars
  <2>5. ASSUME Informer
        PROVE  UNCHANGED observed
    BY <2>5, Zenon DEF Informer, InformerStore, InformerDelete, InformerResync,
                       InformerSync, workVars
  <2> QED
    BY <2>2, <2>3, <2>4, <2>5, OtherSteps DEF Next, HeldOK
<1> QED
  BY <1>1, Invariance, VersionOrder, PTL DEF Spec, NeverBackwards
-----------------------------------------------------------------------------
\* Changes: none is lost on its way to the reconciler

(* The states of k that the controller answers for. *)
Accountable(k) == Registered /\ ~shuttingDown /\ k \notin vanished

(* A worker may be about to hand over an object that has changed since it   *)
(* was read, even one that the reconciler has already seen the successor    *)
(* of: the change that made it stale is still on its way.                   *)
StaleReadCovered ==
    \A w \in Worker :
        (pc[w] = "reconcile" /\ Accountable(item[w])
            /\ ~SameObject(read[w], store[item[w]]))
        => Covered(item[w])

(* Before the handlers are registered the reconciler has seen nothing. *)
NothingSeen == ~Registered => \A k \in Key : observed[k] = Absent

ChangeOK == NoLostChange /\ StaleReadCovered /\ NothingSeen

(* Before Run is called the controller answers for nothing. *)
LEMMA InitChange == Init => ChangeOK
BY DEF Init, WQInit, ChangeOK, NoLostChange, StaleReadCovered, NothingSeen, Registered

(* A notification more in the buffer covers all that was covered ... *)
LEMMA NotifyCovers ==
    ASSUME TypeOK, NEW n \in Notification, Notify(n), UNCHANGED <<dirty, waiting>>
    PROVE  /\ \A k \in Key : Covered(k) => Covered(k)'
           /\ (Registered /\ Enqueues(n)) => Covered(n.key)'
<1>1. pending \in Seq(Notification) /\ Len(pending) \in Nat
  BY DEF TypeOK
<1>2. CASE UNCHANGED pending
  BY <1>2 DEF Covered, Notify
<1>3. CASE pending' = Append(pending, n)
  <2>1. /\ Len(pending') = Len(pending) + 1
        /\ \A i \in 1..Len(pending) : pending'[i] = pending[i]
        /\ pending'[Len(pending) + 1] = n
    BY <1>1, <1>3, AppendProperties
  <2>2. ASSUME NEW k \in Key, Covered(k)
        PROVE  Covered(k)'
    BY <1>1, <2>1, <2>2 DEF Covered
  <2>3. ASSUME Enqueues(n)
        PROVE  Covered(n.key)'
    BY <1>1, <2>1, <2>3 DEF Covered
  <2> QED
    BY <2>2, <2>3
<1> QED
  BY <1>2, <1>3 DEF Notify

(* ... and a handler that takes one adds its key, unless nobody answers for *)
(* it any more.                                                             *)
LEMMA HandleCovers ==
    ASSUME TypeOK, Handle, ~shuttingDown
    PROVE  \A k \in Key : Covered(k) => Covered(k)'
<1> DEFINE n == Head(pending)
<1>1. pending \in Seq(Notification) /\ pending # <<>> /\ Len(pending) \in Nat
  BY DEF TypeOK, Handle
<1>2. /\ n = pending[1]
      /\ Len(pending') = Len(pending) - 1
      /\ \A i \in 1..Len(pending') : pending'[i] = pending[i + 1]
  BY <1>1, HeadTailProperties DEF Handle
<1>3. dirty \subseteq dirty' /\ (Enqueues(n) => n.key \in dirty')
  BY DEF Handle, Add
<1>4. UNCHANGED waiting
  BY DEF Handle
<1> SUFFICES ASSUME NEW k \in Key, NEW i \in 1..Len(pending),
                    pending[i].key = k, Enqueues(pending[i])
             PROVE  Covered(k)'
  BY <1>3, <1>4 DEF Covered
<1>5. CASE i = 1
  BY <1>2, <1>3, <1>5 DEF Covered
<1>6. CASE i # 1
  <2>1. i - 1 \in 1..Len(pending') /\ pending'[i - 1] = pending[i]
    BY <1>1, <1>2, <1>6
  <2> QED
    BY <2>1 DEF Covered
<1> QED
  BY <1>5, <1>6

(* A back-off that ends turns a waiting key into a dirty one. *)
LEMMA ReadyCovers ==
    ASSUME NEW j \in Key, QueueReady(j)
    PROVE  \A k \in Key : Covered(k) => Covered(k)'
<1>1. UNCHANGED pending
  BY DEF QueueReady, infVars
<1>2. dirty \subseteq dirty' /\ j \in dirty' /\ waiting' = waiting \ {j}
  BY DEF QueueReady, WaitingReady, Add
<1> QED
  BY <1>1, <1>2 DEF Covered

(* A step keeps ChangeOK if it touches neither objects nor workers' hands   *)
(* and covers what was covered.                                             *)
LEMMA ChangeUntouched ==
    ASSUME ChangeOK,
           UNCHANGED <<store, vanished, item, read, observed>>,
           \A w \in Worker : pc'[w] # pc[w] => pc[w] = "off" /\ pc'[w] = "until",
           Registered' = Registered,
           ~shuttingDown' => ~shuttingDown /\ \A k \in Key : Covered(k) => Covered(k)',
           \A w \in Worker : pc[w] = "reconcile" => item[w] \in Key
    PROVE  ChangeOK'
<1>1. StaleReadCovered'
  BY DEF ChangeOK, StaleReadCovered, Accountable, SameObject
<1>2. NothingSeen'
  BY DEF ChangeOK, NothingSeen
<1>3. ASSUME NEW k \in Key, BeingRead(k)
      PROVE  BeingRead(k)'
  <2>1. PICK w \in Worker :
           /\ w \in Active /\ item[w] = k
           /\ pc[w] \in {"list", "requeue"}
              \/ (pc[w] = "reconcile" /\ SameObject(read[w], store[k]))
    BY <1>3 DEF BeingRead, Active
  <2>2. pc'[w] = pc[w] /\ w \in Active'
    BY <2>1 DEF Active
  <2> QED
    BY <2>1, <2>2 DEF BeingRead, SameObject
<1>4. NoLostChange'
  BY <1>3 DEF ChangeOK, NoLostChange, SameObject
<1> QED
  BY <1>1, <1>2, <1>4 DEF ChangeOK

(* The informer changes one object: unless it is found gone by a relist, a  *)
(* notification that will be enqueued goes with it.                         *)
LEMMA ObjectChange ==
    ASSUME TypeOK, ChangeOK, NEW j \in Key, NEW new, NEW n \in Notification, n.key = j,
           store' = [store EXCEPT ![j] = new],
           Notify(n),
           \/ Enqueues(n) /\ vanished' = vanished \ {j}
           \/ vanished' = vanished \cup {j},
           UNCHANGED <<wqVars, runVars, workVars>>,
           \A w \in Worker : pc[w] = "reconcile" => item[w] \in Key
    PROVE  ChangeOK'
<1>1. /\ UNCHANGED <<dirty, waiting, shuttingDown, runPc, pc, item, read, observed>>
      /\ Registered' = Registered
  BY DEF wqVars, runVars, workVars, Registered
<1>2. \A k \in Key : Covered(k) => Covered(k)'
  BY <1>1, NotifyCovers
<1>3. ASSUME Accountable(j)'
      PROVE  Covered(j)'
  BY <1>1, <1>3, NotifyCovers DEF Accountable
<1>4. ASSUME NEW k \in Key, k # j
      PROVE  /\ store'[k] = store[k]
             /\ Accountable(k)' => Accountable(k)
  BY <1>1, <1>4 DEF TypeOK, Accountable
<1>5. ASSUME NEW k \in Key, k # j, BeingRead(k)
      PROVE  BeingRead(k)'
  BY <1>1, <1>4, <1>5 DEF BeingRead, Active, SameObject
<1>6. NoLostChange'
  <2> SUFFICES ASSUME NEW k \in Key, Accountable(k)', k # j,
                      ~SameObject(observed'[k], store'[k])
               PROVE  (Covered(k) \/ BeingRead(k))'
    BY <1>3 DEF NoLostChange, Accountable
  <2>1. Accountable(k) /\ ~SameObject(observed[k], store[k])
    BY <1>1, <1>4
  <2>2. Covered(k) \/ BeingRead(k)
    BY <2>1 DEF ChangeOK, NoLostChange, Accountable
  <2> QED
    BY <1>2, <1>5, <2>2
<1>7. StaleReadCovered'
  <2> SUFFICES ASSUME NEW w \in Worker, pc'[w] = "reconcile", Accountable(item[w])',
                      item[w] # j, ~SameObject(read'[w], store'[item[w]])
               PROVE  Covered(item[w])'
    BY <1>1, <1>3 DEF StaleReadCovered
  <2>1. item[w] \in Key /\ Accountable(item[w]) /\ ~SameObject(read[w], store[item[w]])
    BY <1>1, <1>4
  <2> QED
    BY <1>1, <1>2, <2>1 DEF ChangeOK, StaleReadCovered
<1>8. NothingSeen'
  BY <1>1 DEF ChangeOK, NothingSeen
<1> QED
  BY <1>6, <1>7, <1>8 DEF ChangeOK

(* Every step of the informer. *)
LEMMA InformerChange ==
    ASSUME TypeOK, QueueOK, HeldOK, VersionsOK, ChangeOK, Informer
    PROVE  ChangeOK'
<1>0. \A w \in Worker : pc[w] = "reconcile" => item[w] \in Key
  BY ReconcilerHoldsKey DEF Active
<1>1. ASSUME NEW j \in Key, InformerStore(j)
      PROVE  ChangeOK'
  <2> DEFINE new == [version |-> version + 1, live |-> TRUE]
             n == [type |-> IF store[j].live THEN "update" ELSE "add",
                   key |-> j, old |-> store[j], new |-> new]
  <2>1. new \in Object /\ store[j] \in Object
    BY DEF TypeOK, Object
  <2>2. n \in Notification /\ n.key = j
    BY <2>1 DEF Notification
  <2>3. store[j].version # version + 1
    BY <2>1 DEF VersionsOK, TypeOK, Object
  <2>4. Enqueues(n)
    BY <2>3 DEF Enqueues, KeyFuncFails, Ignored
  <2>5. /\ store' = [store EXCEPT ![j] = new]
        /\ Notify(n)
        /\ vanished' = vanished \ {j}
        /\ UNCHANGED <<wqVars, runVars, workVars>>
    BY <1>1 DEF InformerStore
  <2> HIDE DEF new, n
  <2> QED
    BY <1>0, <2>2, <2>4, <2>5, ObjectChange
<1>2. ASSUME NEW j \in Key, NEW type \in {"delete", "tombstone"}, InformerDelete(j, type)
      PROVE  ChangeOK'
  <2> DEFINE new == [version |-> version + 1, live |-> FALSE]
             n == [type |-> type, key |-> j, old |-> store[j], new |-> new]
  <2>1. new \in Object /\ store[j] \in Object
    BY DEF TypeOK, Object
  <2>2. n \in Notification /\ n.key = j /\ n.type = type
    BY <2>1 DEF Notification
  <2>3. /\ store' = [store EXCEPT ![j] = new]
        /\ Notify(n)
        /\ vanished' = IF type = "tombstone" THEN vanished \cup {j} ELSE vanished \ {j}
        /\ UNCHANGED <<wqVars, runVars, workVars>>
    BY <1>2 DEF InformerDelete
  <2> HIDE DEF new, n
  <2>4. type = "delete" => Enqueues(n)
    BY <2>2 DEF Enqueues, KeyFuncFails, Ignored
  <2> QED
    BY <1>0, <2>2, <2>3, <2>4, ObjectChange
<1>3. ASSUME NEW j \in Key, InformerResync(j)
      PROVE  ChangeOK'
  <2> DEFINE n == [type |-> "update", key |-> j, old |-> store[j], new |-> store[j]]
  <2>1. n \in Notification
    BY DEF TypeOK, Notification
  <2>2. /\ Notify(n)
        /\ UNCHANGED <<store, vanished, wqVars, runVars, workVars>>
    BY <1>3 DEF InformerResync
  <2> HIDE DEF n
  <2>3. \A k \in Key : Covered(k) => Covered(k)'
    BY <2>1, <2>2, NotifyCovers DEF wqVars
  <2> QED
    BY <1>0, <2>2, <2>3, ChangeUntouched DEF wqVars, runVars, workVars, Registered
<1>4. CASE InformerSync
  BY <1>0, <1>4, ChangeUntouched
     DEF InformerSync, wqVars, infVars, workVars, Registered, Covered
<1> QED
  BY <1>1, <1>2, <1>3, <1>4 DEF Informer

(* AddEventHandler replays every object there is, and the reconciler has    *)
(* seen none: what is not replayed is as absent as what it has seen.        *)
LEMMA StartChange ==
    ASSUME TypeOK, QueueOK, HeldOK, ChangeOK, RunStart
    PROVE  ChangeOK'
<1> DEFINE live == {k \in Key : store[k].live}
<1>1. /\ UNCHANGED <<store, vanished, pc, item, read, observed>>
      /\ runPc = "start" /\ runPc' = "sync"
  BY DEF RunStart, workVars
<1>2. \A w \in Worker : pc[w] = "off"
  BY <1>1 DEF HeldOK, NotLaunched
<1>3. ASSUME NEW k \in Key, store[k].live
      PROVE  Covered(k)'
  <2>1. PICK f \in [1..Cardinality(live) -> live] :
           /\ \A j \in live : \E i \in DOMAIN f : f[i] = j
           /\ pending' = [i \in DOMAIN f |-> [type |-> "add", key |-> f[i],
                                              old |-> Absent, new |-> store[f[i]]]]
    BY DEF RunStart, Replay
  <2>2. Cardinality(live) \in Nat
    BY ControllerAssumption, FS_Subset, FS_CardinalityType
  <2>3. DOMAIN f = 1..Cardinality(live)
    OBVIOUS
  <2>4. PICK i \in 1..Cardinality(live) : f[i] = k
    BY <1>3, <2>1, <2>3
  <2>5. pending' \in Seq(Notification)
    BY ReplayType DEF RunStart
  <2>6. Len(pending') = Cardinality(live)
    <3>1. DOMAIN pending' = 1..Cardinality(live)
      BY <2>1, <2>3
    <3>2. DOMAIN pending' = 1..Len(pending') /\ Len(pending') \in Nat
      BY <2>5, LenProperties
    <3> HIDE DEF live
    <3> QED
      BY <2>2, <3>1, <3>2
  <2>7. pending'[i] = [type |-> "add", key |-> k, old |-> Absent, new |-> store[k]]
    BY <2>1, <2>3, <2>4
  <2>8. pending'[i].key = k /\ Enqueues(pending'[i])
    BY <2>7 DEF Enqueues, KeyFuncFails, Ignored
  <2> QED
    BY <2>4, <2>6, <2>8 DEF Covered, Enqueues, KeyFuncFails, Ignored
<1>4. NoLostChange'
  <2> SUFFICES ASSUME NEW k \in Key, ~SameObject(observed[k], store[k])
               PROVE  Covered(k)'
    BY <1>1 DEF NoLostChange, SameObject
  <2>1. observed[k] = Absent
    BY <1>1 DEF ChangeOK, NothingSeen, Registered
  <2>2. store[k].live
    BY <2>1 DEF SameObject, Absent
  <2> QED
    BY <1>3, <2>2
<1>5. StaleReadCovered'
  BY <1>1, <1>2 DEF StaleReadCovered
<1>6. NothingSeen'
  BY <1>1 DEF NothingSeen, Registered
<1> QED
  BY <1>4, <1>5, <1>6 DEF ChangeOK

(* A worker's step that leaves the objects alone keeps ChangeOK if, for     *)
(* every key, what was covered or being read still is, or the reconciler    *)
(* has now seen the object as it is.                                        *)
LEMMA WorkerKeeps ==
    ASSUME ChangeOK,
           UNCHANGED <<store, vanished, shuttingDown, runPc>>,
           Registered,
           \A k \in Key : Accountable(k) /\ (Covered(k) \/ BeingRead(k))
              => \/ (Covered(k) \/ BeingRead(k))'
                 \/ SameObject(observed'[k], store[k]),
           \A k \in Key : Accountable(k) /\ SameObject(observed[k], store[k])
              => SameObject(observed'[k], store[k]) \/ Covered(k)',
           StaleReadCovered'
    PROVE  ChangeOK'
<1>1. \A k \in Key : Accountable(k)' = Accountable(k)
  BY DEF Accountable, Registered
<1>2. NoLostChange'
  BY <1>1 DEF ChangeOK, NoLostChange, Accountable
<1>3. NothingSeen'
  BY DEF NothingSeen, Registered
<1> QED
  BY <1>2, <1>3 DEF ChangeOK

(* Every step of a worker. *)
LEMMA WorkerChange ==
    ASSUME TypeOK, QueueOK, HeldOK, ChangeOK, NEW w \in Worker, WorkerStep(w)
    PROVE  ChangeOK'
<1>0. /\ UNCHANGED <<store, vanished, pending, shuttingDown, runPc>>
      /\ Registered
  <2>1. UNCHANGED <<store, vanished, pending, runPc>>
    BY Zenon DEF WorkerStep, WorkerUntil, WorkerGet, WorkerBlock, WorkerExit, WorkerList,
           WorkerReconcile, WorkerReconcileFails, WorkerRequeue, WorkerDone,
           infVars, runVars
  <2>2. UNCHANGED shuttingDown
    BY DEF WorkerStep, WorkerUntil, WorkerGet, WorkerBlock, WorkerExit, WorkerList,
           WorkerReconcile, WorkerReconcileFails, WorkerRequeue, WorkerDone,
           Get, GetWait, GetShutdown, AddRateLimited, Done, wqVars
  <2>3. pc[w] # "off"
    BY DEF WorkerStep, WorkerUntil, WorkerGet, WorkerBlock, WorkerExit, WorkerList,
           WorkerReconcile, WorkerReconcileFails, WorkerRequeue, WorkerDone
  <2> QED
    BY <2>1, <2>2, <2>3 DEF HeldOK, NotLaunched, Registered
<1>1. CASE WorkerUntil(w) \/ WorkerBlock(w) \/ WorkerExit(w) \/ WorkerDone(w)
  <2>1. UNCHANGED <<dirty, waiting, observed>>
    BY <1>1 DEF WorkerUntil, WorkerBlock, WorkerExit, WorkerDone, Done, GetWait,
                GetShutdown, wqVars, workVars
  <2>2. \A v \in Worker :
           /\ pc[v] \in {"list", "reconcile", "requeue"} \/ pc'[v] = "reconcile"
              => pc'[v] = pc[v] /\ item'[v] = item[v] /\ read'[v] = read[v]
    BY <1>1 DEF WorkerUntil, WorkerBlock, WorkerExit, WorkerDone, workVars, TypeOK
  <2>3. \A k \in Key : BeingRead(k) => BeingRead(k)'
    BY <1>0, <2>2 DEF BeingRead, Active, SameObject
  <2>4. \A k : Covered(k) => Covered(k)'
    BY <1>0, <2>1 DEF Covered
  <2>5. StaleReadCovered'
    BY <1>0, <2>2, <2>4 DEF ChangeOK, StaleReadCovered, Accountable, SameObject, Registered
  <2> QED
    BY <1>0, <2>1, <2>3, <2>4, <2>5, WorkerKeeps
<1>2. CASE WorkerGet(w)
  <2>1. PICK j \in Key : Get(j) /\ item' = [item EXCEPT ![w] = j]
    BY <1>2 DEF WorkerGet
  <2>2. j \notin processing
    BY <2>1, GetKeepsQueueOK
  <2>3. /\ pc[w] = "get"
        /\ pc' = [pc EXCEPT ![w] = "list"]
        /\ dirty' = dirty \ {j}
        /\ UNCHANGED <<waiting, read, observed>>
    BY <1>2, <2>1 DEF WorkerGet, Get
  <2>4. \A k \in Key : k # j /\ Covered(k) => Covered(k)'
    BY <1>0, <2>3 DEF Covered
  <2>5. \A v \in Worker \ {w} : pc'[v] = pc[v] /\ item'[v] = item[v]
    BY <2>1, <2>3 DEF TypeOK
  <2>6. pc'[w] = "list" /\ item'[w] = j
    BY <2>1, <2>3 DEF TypeOK
  <2>7. BeingRead(j)'
    BY <2>6 DEF BeingRead, Active
  <2>8. \A k \in Key : BeingRead(k) => BeingRead(k)'
    BY <1>0, <2>3, <2>5 DEF BeingRead, Active, SameObject
  <2>9. ASSUME NEW v \in Worker, pc'[v] = "reconcile"
        PROVE  /\ pc[v] = "reconcile" /\ item'[v] = item[v]
               /\ item[v] \in Key /\ item[v] # j
    <3>1. v # w /\ pc[v] = "reconcile" /\ item'[v] = item[v]
      BY <2>5, <2>6, <2>9
    <3>2. item[v] \in processing /\ item[v] \in Key
      BY <3>1, ReconcilerHoldsKey DEF Active
    <3> QED
      BY <2>2, <3>1, <3>2
  <2>10. StaleReadCovered'
    BY <1>0, <2>3, <2>4, <2>9 DEF ChangeOK, StaleReadCovered, Accountable, SameObject, Registered
  <2> QED
    BY <1>0, <2>3, <2>4, <2>7, <2>8, <2>10, WorkerKeeps
<1>3. CASE WorkerList(w)
  <2>1. /\ item[w] \in Key /\ pc[w] = "list"
        /\ read' = [read EXCEPT ![w] = store[item[w]]]
        /\ pc' = [pc EXCEPT ![w] = "reconcile"]
        /\ UNCHANGED <<dirty, waiting, item, observed>>
    BY <1>3, ReconcilerHoldsKey DEF WorkerList, ListerGet, Active, wqVars
  <2>2. /\ \A v \in Worker \ {w} : pc'[v] = pc[v] /\ read'[v] = read[v]
        /\ pc'[w] = "reconcile" /\ read'[w] = store[item[w]]
    BY <2>1 DEF TypeOK
  <2>3. \A k : Covered(k) => Covered(k)'
    BY <1>0, <2>1 DEF Covered
  <2>4. \A k \in Key : BeingRead(k) => BeingRead(k)'
    BY <1>0, <2>1, <2>2 DEF BeingRead, Active, SameObject
  <2>5. StaleReadCovered'
    BY <1>0, <2>1, <2>2, <2>3
       DEF ChangeOK, StaleReadCovered, Accountable, SameObject, Registered
  <2> QED
    BY <1>0, <2>1, <2>3, <2>4, <2>5, WorkerKeeps
<1>4. CASE WorkerReconcile(w)
  <2>1. /\ item[w] \in Key /\ pc[w] = "reconcile"
        /\ observed' = [observed EXCEPT ![item[w]] = read[w]]
        /\ pc' = [pc EXCEPT ![w] = "done"]
        /\ UNCHANGED <<dirty, waiting, item, read>>
    BY <1>4, ReconcilerHoldsKey DEF WorkerReconcile, Active, wqVars
  <2>2. \A k \in Key : observed'[k] = IF k = item[w] THEN read[w] ELSE observed[k]
    BY <2>1 DEF TypeOK
  <2>3. \A v \in Worker \ {w} : pc'[v] = pc[v]
    BY <2>1 DEF TypeOK
  <2>4. \A k : Covered(k) => Covered(k)'
    BY <1>0, <2>1 DEF Covered
  <2>5. \A k \in Key : k # item[w] /\ BeingRead(k) => BeingRead(k)'
    BY <1>0, <2>1, <2>3 DEF BeingRead, Active, SameObject
  <2>6. Accountable(item[w]) => SameObject(read[w], store[item[w]]) \/ Covered(item[w])
    BY <2>1 DEF ChangeOK, StaleReadCovered
  <2>7. StaleReadCovered'
    BY <1>0, <2>1, <2>3, <2>4
       DEF ChangeOK, StaleReadCovered, Accountable, SameObject, Registered, TypeOK
  <2> QED
    BY <1>0, <2>1, <2>2, <2>4, <2>5, <2>6, <2>7, WorkerKeeps
<1>5. CASE WorkerReconcileFails(w)
  <2>1. /\ pc[w] = "reconcile"
        /\ pc' = [pc EXCEPT ![w] = "requeue"]
        /\ UNCHANGED <<dirty, waiting, item, read, observed>>
    BY <1>5 DEF WorkerReconcileFails, wqVars
  <2>2. pc'[w] = "requeue" /\ \A v \in Worker \ {w} : pc'[v] = pc[v]
    BY <2>1 DEF TypeOK
  <2>3. \A k : Covered(k) => Covered(k)'
    BY <1>0, <2>1 DEF Covered
  <2>4. \A k \in Key : BeingRead(k) => BeingRead(k)'
    BY <1>0, <2>1, <2>2 DEF BeingRead, Active, SameObject
  <2>5. StaleReadCovered'
    BY <1>0, <2>1, <2>2, <2>3
       DEF ChangeOK, StaleReadCovered, Accountable, SameObject, Registered
  <2> QED
    BY <1>0, <2>1, <2>3, <2>4, <2>5, WorkerKeeps
<1>6. CASE WorkerRequeue(w)
  <2>1. /\ pc[w] = "requeue"
        /\ pc' = [pc EXCEPT ![w] = "done"]
        /\ waiting' = IF shuttingDown THEN waiting ELSE waiting \cup {item[w]}
        /\ UNCHANGED <<dirty, item, read, observed>>
    BY <1>6 DEF WorkerRequeue, AddRateLimited
  <2>2. pc'[w] = "done" /\ \A v \in Worker \ {w} : pc'[v] = pc[v]
    BY <2>1 DEF TypeOK
  <2>3. \A k : Covered(k) => Covered(k)'
    BY <1>0, <2>1 DEF Covered
  <2>4. \A k \in Key : ~shuttingDown /\ k = item[w] => Covered(k)'
    BY <2>1 DEF Covered
  <2>5. \A k \in Key : k # item[w] /\ BeingRead(k) => BeingRead(k)'
    BY <1>0, <2>1, <2>2 DEF BeingRead, Active, SameObject
  <2>6. StaleReadCovered'
    BY <1>0, <2>1, <2>2, <2>3
       DEF ChangeOK, StaleReadCovered, Accountable, SameObject, Registered
  <2>7. ASSUME NEW k \in Key, Accountable(k), Covered(k) \/ BeingRead(k)
        PROVE  (Covered(k) \/ BeingRead(k))'
    BY <2>3, <2>4, <2>5, <2>7 DEF Accountable
  <2> QED
    BY <1>0, <2>1, <2>6, <2>7, WorkerKeeps
<1> QED
  BY <1>1, <1>2, <1>3, <1>4, <1>5, <1>6 DEF WorkerStep

(* ChangeOK is kept by every step. *)
LEMMA NextChange == IInv /\ VersionsOK /\ ChangeOK /\ [Next]_vars => ChangeOK'
<1> SUFFICES ASSUME TypeOK, QueueOK, HeldOK, VersionsOK, ChangeOK, [Next]_vars
             PROVE  ChangeOK'
  BY IInvSplit
<1>0. \A w \in Worker : pc[w] = "reconcile" => item[w] \in Key
  BY ReconcilerHoldsKey DEF Active
<1>1. CASE Informer
  BY <1>1, InformerChange
<1>2. CASE RunStart
  BY <1>2, StartChange
<1>3. CASE \E w \in Worker : WorkerStep(w)
  BY <1>3, WorkerChange
<1>4. CASE \/ Cancel \/ Handle \/ (RunStep /\ ~RunStart)
           \/ (\E k \in Key : QueueReady(k)) \/ UNCHANGED vars
  <2>1. /\ UNCHANGED <<store, vanished, item, read, observed>>
        /\ \A w \in Worker : pc'[w] # pc[w] => pc[w] = "off" /\ pc'[w] = "until"
    BY <1>4, OtherSteps DEF HeldOK
  <2>2. Registered' = Registered
    BY <1>4 DEF Registered, Cancel, Handle, RunStep, RunSynced, RunNotSynced, RunShutDown,
                RunDrainWait, RunDrained, RunJoin, QueueReady, runVars, vars
  <2>3. ASSUME ~shuttingDown'
        PROVE  ~shuttingDown /\ \A k \in Key : Covered(k) => Covered(k)'
    <3>1. CASE Handle
      BY <2>3, <3>1, HandleCovers DEF Handle
    <3>2. CASE \E k \in Key : QueueReady(k)
      BY <2>3, <3>2, ReadyCovers DEF QueueReady, WaitingReady
    <3>3. CASE RunShutDown
      BY <2>3, <3>3 DEF RunShutDown, ShutDown
    <3>4. CASE Cancel \/ (RunStep /\ ~RunStart /\ ~RunShutDown) \/ UNCHANGED vars
      <4>1. UNCHANGED <<pending, dirty, waiting, shuttingDown>>
        BY <3>4 DEF Cancel, RunStep, RunSynced, RunNotSynced, RunDrainWait, RunDrained,
                    RunJoin, wqVars, infVars, vars
      <4> QED
        BY <2>3, <4>1 DEF Covered
    <3> QED
      BY <1>4, <3>1, <3>2, <3>3, <3>4
  <2> QED
    BY <1>0, <2>1, <2>2, <2>3, ChangeUntouched
<1> QED
  BY <1>1, <1>2, <1>3, <1>4 DEF Next

(* The level trigger of generic.go: for any keys, workers and interleaving, *)
(* an object that the reconciler has not seen as it is, is buffered, dirty, *)
(* backing off or in a worker's hands, as long as the queue accepts work.   *)
THEOREM Delivery == Spec => []NoLostChange
<1>1. ChangeOK => NoLostChange
  BY DEF ChangeOK
<1> QED
  BY <1>1, InitChange, NextChange, Invariance, VersionOrder, PTL DEF Spec

=============================================================================
