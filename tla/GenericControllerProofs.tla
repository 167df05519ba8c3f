----------------------- MODULE GenericControllerProofs -----------------------
(***************************************************************************)
(* Theorems about GenericController, for any set of keys, any set of       *)
(* workers and any value of the bounds.                                    *)
(***************************************************************************)
EXTENDS GenericController, TLAPS, SequenceTheorems, FiniteSetTheorems

-----------------------------------------------------------------------------
\* Sequences without repetition, as the queue uses them

(* Appending an element to the queue adds it to the queued elements. *)
LEMMA AppendRange ==
    ASSUME NEW S, NEW s \in Seq(S), NEW e \in S
    PROVE  /\ Append(s, e) \in Seq(S)
           /\ Range(Append(s, e)) = Range(s) \cup {e}
           /\ (IsInjective(s) /\ e \notin Range(s)) => IsInjective(Append(s, e))
<1>1. /\ Append(s, e) \in Seq(S)
      /\ DOMAIN Append(s, e) = 1..(Len(s) + 1)
      /\ \A i \in 1..Len(s) : Append(s, e)[i] = s[i]
      /\ Append(s, e)[Len(s) + 1] = e
  BY AppendProperties
<1>2. DOMAIN s = 1..Len(s) /\ Len(s) \in Nat
  BY LenProperties
<1>3. Range(Append(s, e)) = Range(s) \cup {e}
  BY <1>1, <1>2 DEF Range
<1>4. ASSUME IsInjective(s), e \notin Range(s)
      PROVE  IsInjective(Append(s, e))
  BY <1>1, <1>2, <1>4 DEF IsInjective, Range
<1> QED
  BY <1>1, <1>3, <1>4

(* Taking the head of a queue without repetition removes exactly that       *)
(* element from the queued ones.                                            *)
LEMMA TailRange ==
    ASSUME NEW S, NEW s \in Seq(S), s # <<>>, IsInjective(s)
    PROVE  /\ Tail(s) \in Seq(S)
           /\ Head(s) \in Range(s)
           /\ Head(s) \in S
           /\ Range(Tail(s)) = Range(s) \ {Head(s)}
           /\ IsInjective(Tail(s))
<1>1. /\ Tail(s) \in Seq(S)
      /\ Len(Tail(s)) = Len(s) - 1
      /\ \A i \in 1..Len(Tail(s)) : Tail(s)[i] = s[i + 1]
      /\ Head(s) = s[1]
      /\ Head(s) \in S
  BY HeadTailProperties
<1>2. DOMAIN s = 1..Len(s) /\ Len(s) \in Nat /\ Len(s) # 0
  BY LenProperties, EmptySeq
<1>3. DOMAIN Tail(s) = 1..(Len(s) - 1)
  BY <1>1, LenProperties
<1>4. Head(s) \in Range(s)
  BY <1>1, <1>2 DEF Range
<1>5. \A x \in Range(Tail(s)) : x \in Range(s) \ {Head(s)}
  BY <1>1, <1>2, <1>3 DEF Range, IsInjective
<1>6. \A x \in Range(s) \ {Head(s)} : x \in Range(Tail(s))
  <2> TAKE x \in Range(s) \ {Head(s)}
  <2>1. PICK i \in 1..Len(s) : s[i] = x
    BY <1>2 DEF Range
  <2>2. i # 1
    BY <2>1, <1>1
  <2>3. i - 1 \in 1..(Len(s) - 1) /\ Tail(s)[i - 1] = s[i]
    BY <2>2, <1>1, <1>2
  <2> QED
    BY <2>1, <2>3, <1>3 DEF Range
<1>7. IsInjective(Tail(s))
  BY <1>1, <1>2, <1>3 DEF IsInjective
<1> QED
  BY <1>1, <1>4, <1>5, <1>6, <1>7

-----------------------------------------------------------------------------
\* The queue's operations

(* What the queue's own fields satisfy between any two operations. *)
QueueOK ==
    /\ queue \in Seq(Key)
    /\ dirty \subseteq Key
    /\ processing \subseteq Key
    /\ condWait \subseteq Worker \cup {Runner}
    /\ IsInjective(queue)
    /\ Queued = dirty \ processing

(* Signal only takes goroutines out of the wait set. *)
LEMMA SignalWakes ==
    ASSUME Signal
    PROVE  condWait' \subseteq condWait
BY DEF Signal

(* Add keeps the fields of the queue in step. *)
LEMMA AddKeepsQueueOK ==
    ASSUME QueueOK, NEW k \in Key, Add(k), UNCHANGED processing
    PROVE  QueueOK'
<1>1. CASE UNCHANGED <<queue, dirty, condWait>>
  BY <1>1 DEF QueueOK, Queued
<1>2. CASE /\ k \notin dirty
           /\ dirty' = dirty \cup {k}
           /\ k \in processing
           /\ UNCHANGED <<queue, condWait>>
  BY <1>2 DEF QueueOK, Queued
<1>3. CASE /\ k \notin dirty
           /\ dirty' = dirty \cup {k}
           /\ k \notin processing
           /\ queue' = Append(queue, k)
           /\ Signal
  <2>1. k \notin Range(queue)
    BY <1>3 DEF QueueOK, Queued
  <2>2. /\ queue' \in Seq(Key)
        /\ Range(queue') = Range(queue) \cup {k}
        /\ IsInjective(queue')
    BY <1>3, <2>1, AppendRange DEF QueueOK
  <2> QED
    BY <1>3, <2>2, SignalWakes DEF QueueOK, Queued
<1> QED
  BY <1>1, <1>2, <1>3 DEF Add

(* Get takes an item that is not being processed. *)
LEMMA GetKeepsQueueOK ==
    ASSUME QueueOK, NEW k \in Key, Get(k)
    PROVE  QueueOK' /\ k \notin processing
<1>1. /\ queue' \in Seq(Key)
      /\ k \in Range(queue)
      /\ Range(queue') = Range(queue) \ {k}
      /\ IsInjective(queue')
  BY TailRange DEF QueueOK, Get
<1> QED
  BY <1>1 DEF QueueOK, Queued, Get

(* Done puts an item that was added meanwhile back into the queue. *)
LEMMA DoneKeepsQueueOK ==
    ASSUME QueueOK, NEW k \in processing, Done(k)
    PROVE  QueueOK'
<1>1. k \in Key /\ k \notin Range(queue)
  BY DEF QueueOK, Queued
<1>2. CASE k \in dirty /\ queue' = Append(queue, k) /\ Signal
  <2>1. /\ queue' \in Seq(Key)
        /\ Range(queue') = Range(queue) \cup {k}
        /\ IsInjective(queue')
    BY <1>1, <1>2, AppendRange DEF QueueOK
  <2> QED
    BY <1>1, <1>2, <2>1, SignalWakes DEF QueueOK, Queued, Done
<1>3. CASE k \notin dirty /\ UNCHANGED queue
  <2>1. condWait' \subseteq condWait
    BY <1>3, SignalWakes DEF Done
  <2> QED
    BY <1>1, <1>3, <2>1 DEF QueueOK, Queued, Done
<1> QED
  BY <1>2, <1>3 DEF Done

-----------------------------------------------------------------------------
\* The inductive invariant

(* Run launches the workers when the cache has synced, not before: this     *)
(* keeps a worker from being launched twice.                                *)
NotLaunched == runPc \in {"start", "sync"} => \A w \in Worker : pc[w] = "off"

(* Outside of Get to Done a worker holds no key. *)
IdleHoldsNothing == \A w \in Worker \ Active : item[w] = NoKey

(* The keys being processed are those the workers hold, and no two workers  *)
(* hold the same one.                                                       *)
HeldOK ==
    /\ processing = {item[w] : w \in Active}
    /\ ExclusiveProcessing
    /\ NotLaunched
    /\ IdleHoldsNothing

(* The invariant: types, a queue in step with itself and with the workers,  *)
(* exclusive keys, no key outside of Get to Done, and no worker before Run  *)
(* has launched it.                                                         *)
IInv ==
    /\ TypeOK
    /\ QueueConsistent
    /\ ExclusiveProcessing
    /\ NotLaunched
    /\ IdleHoldsNothing

(* IInv regrouped: what a step that leaves the queue alone keeps, and what  *)
(* it has to re-establish otherwise.                                        *)
LEMMA IInvSplit == IInv <=> TypeOK /\ QueueOK /\ HeldOK
BY DEF IInv, TypeOK, QueueOK, HeldOK, QueueConsistent

(* Before Run is called the queue is empty and no worker exists. *)
LEMMA InitIInv == Init => IInv
<1> SUFFICES ASSUME Init PROVE TypeOK /\ QueueOK /\ HeldOK
  BY IInvSplit
<1>1. queue = <<>> /\ dirty = {} /\ processing = {}
  BY DEF Init, WQInit
<1>2. Absent \in Object
  BY DEF Absent, Object
<1>3. <<>> \in Seq(Key) /\ <<>> \in Seq(Notification)
  BY EmptySeq
<1>4. Range(<<>>) = {} /\ IsInjective(<<>>)
  BY DEF Range, IsInjective
<1>5. TypeOK
  BY <1>2, <1>3 DEF Init, WQInit, TypeOK, RunPc, WorkerPc
<1>6. QueueOK
  BY <1>1, <1>3, <1>4, <1>5 DEF QueueOK, Queued, TypeOK
<1>7. Active = {}
  BY DEF Init, Active
<1>8. HeldOK
  BY <1>1, <1>7 DEF HeldOK, ExclusiveProcessing, NotLaunched, IdleHoldsNothing, Init
<1> QED
  BY <1>5, <1>6, <1>8

(* Steps that leave the queue and the workers' keys alone. *)
LEMMA UntouchedQueue ==
    ASSUME QueueOK, HeldOK, Active' = Active, NotLaunched',
           UNCHANGED <<queue, dirty, processing, condWait, item>>
    PROVE  QueueOK' /\ HeldOK'
BY DEF QueueOK, HeldOK, Queued, ExclusiveProcessing, IdleHoldsNothing

(* A notification for a key can be buffered. *)
LEMMA NotifyType ==
    ASSUME TypeOK, NEW n \in Notification, Notify(n)
    PROVE  pending' \in Seq(Notification)
<1>1. pending \in Seq(Notification)
  BY DEF TypeOK
<1>2. Append(pending, n) \in Seq(Notification)
  BY <1>1, AppendProperties
<1>3. pending' = pending \/ pending' = Append(pending, n)
  BY DEF Notify
<1> QED
  BY <1>1, <1>2, <1>3

(* Every step of the informer and of the caller. *)
LEMMA EnvironmentStep ==
    ASSUME TypeOK, QueueOK, HeldOK, Informer \/ Cancel
    PROVE  TypeOK' /\ QueueOK' /\ HeldOK'
<1>1. ASSUME NEW k \in Key, InformerStore(k)
      PROVE  TypeOK' /\ QueueOK' /\ HeldOK'
  <2> DEFINE new == [version |-> version + 1, live |-> TRUE]
             n == [type |-> IF store[k].live THEN "update" ELSE "add",
                   key |-> k, old |-> store[k], new |-> new]
  <2>1. new \in Object /\ store[k] \in Object
    BY DEF TypeOK, Object
  <2>2. n \in Notification
    BY <2>1 DEF Notification
  <2>3. pending' \in Seq(Notification)
    BY <1>1, <2>2, NotifyType DEF InformerStore
  <2>4. TypeOK'
    BY <1>1, <2>1, <2>3 DEF InformerStore, TypeOK, wqVars, runVars, workVars
  <2> QED
    BY <1>1, <2>4, UntouchedQueue DEF InformerStore, wqVars, runVars, workVars, Active, HeldOK,
                                          NotLaunched
<1>2. ASSUME NEW k \in Key, NEW type \in {"delete", "tombstone"},
             InformerDelete(k, type)
      PROVE  TypeOK' /\ QueueOK' /\ HeldOK'
  <2> DEFINE new == [version |-> version + 1, live |-> FALSE]
             n == [type |-> type, key |-> k, old |-> store[k], new |-> new]
  <2>1. new \in Object /\ store[k] \in Object
    BY DEF TypeOK, Object
  <2>2. n \in Notification
    BY <2>1 DEF Notification
  <2>3. pending' \in Seq(Notification)
    BY <1>2, <2>2, NotifyType DEF InformerDelete
  <2>4. TypeOK'
    BY <1>2, <2>1, <2>3 DEF InformerDelete, TypeOK, wqVars, runVars, workVars
  <2> QED
    BY <1>2, <2>4, UntouchedQueue DEF InformerDelete, wqVars, runVars, workVars, Active, HeldOK,
                                          NotLaunched
<1>3. ASSUME NEW k \in Key, InformerResync(k)
      PROVE  TypeOK' /\ QueueOK' /\ HeldOK'
  <2> DEFINE n == [type |-> "update", key |-> k, old |-> store[k], new |-> store[k]]
  <2>1. n \in Notification
    BY DEF TypeOK, Notification
  <2>2. pending' \in Seq(Notification)
    BY <1>3, <2>1, NotifyType DEF InformerResync
  <2>3. TypeOK'
    BY <1>3, <2>2 DEF InformerResync, TypeOK, wqVars, runVars, workVars
  <2> QED
    BY <1>3, <2>3, UntouchedQueue DEF InformerResync, wqVars, runVars, workVars, Active, HeldOK,
                                          NotLaunched
<1>4. CASE InformerSync
  BY <1>4, UntouchedQueue
     DEF InformerSync, TypeOK, wqVars, infVars, workVars, Active, HeldOK, NotLaunched
<1>5. CASE Cancel
  BY <1>5, UntouchedQueue
     DEF Cancel, TypeOK, wqVars, infVars, workVars, Active, HeldOK, NotLaunched
<1> QED
  BY <1>1, <1>2, <1>3, <1>4, <1>5 DEF Informer

(* A handler consumes a notification and may add its key. *)
LEMMA HandleStep ==
    ASSUME TypeOK, QueueOK, HeldOK, Handle
    PROVE  TypeOK' /\ QueueOK' /\ HeldOK'
<1>1. /\ pending' \in Seq(Notification)
      /\ Head(pending) \in Notification
  BY HeadTailProperties DEF Handle, TypeOK
<1>2. Head(pending).key \in Key
  BY <1>1 DEF Notification
<1>3. QueueOK'
  <2>1. CASE Enqueues(Head(pending))
    BY <1>2, <2>1, AddKeepsQueueOK DEF Handle
  <2>2. CASE ~Enqueues(Head(pending))
    BY <2>2 DEF Handle, QueueOK, Queued
  <2> QED
    BY <2>1, <2>2
<1>4. TypeOK'
  BY <1>1, <1>3 DEF Handle, TypeOK, QueueOK, runVars, workVars
<1>5. HeldOK'
  BY DEF Handle, HeldOK, NotLaunched, ExclusiveProcessing, IdleHoldsNothing, Active,
         workVars, runVars
<1> QED
  BY <1>3, <1>4, <1>5

(* What AddEventHandler replays is a sequence of notifications. *)
LEMMA ReplayType ==
    ASSUME TypeOK, NEW s \in Replay
    PROVE  s \in Seq(Notification)
<1> DEFINE live == {k \in Key : store[k].live}
<1>1. IsFiniteSet(live)
  BY ControllerAssumption, FS_Subset
<1>2. Cardinality(live) \in Nat
  BY <1>1, FS_CardinalityType
<1>3. PICK f \in [1..Cardinality(live) -> live] :
         s = [i \in DOMAIN f |-> [type |-> "add", key |-> f[i],
                                  old |-> Absent, new |-> store[f[i]]]]
  BY DEF Replay
<1>4. DOMAIN f = 1..Cardinality(live)
  OBVIOUS
<1>5. \A i \in DOMAIN f : [type |-> "add", key |-> f[i],
                           old |-> Absent, new |-> store[f[i]]] \in Notification
  BY DEF TypeOK, Notification, Object, Absent
<1>6. s \in [1..Cardinality(live) -> Notification]
  BY <1>3, <1>4, <1>5
<1> QED
  BY <1>2, <1>6, SeqDef

(* Every step of Run. *)
LEMMA RunStepKeeps ==
    ASSUME TypeOK, QueueOK, HeldOK, RunStep
    PROVE  TypeOK' /\ QueueOK' /\ HeldOK'
<1>1. CASE RunStart
  <2>1. pending' \in Seq(Notification)
    BY <1>1, ReplayType DEF RunStart
  <2> QED
    BY <1>1, <2>1, UntouchedQueue
       DEF RunStart, TypeOK, RunPc, wqVars, workVars, Active, HeldOK, NotLaunched
<1>2. CASE RunSynced
  <2>1. Active = {} /\ Active' = {}
    BY <1>2 DEF RunSynced, Active, HeldOK, NotLaunched
  <2>2. NotLaunched'
    BY <1>2 DEF RunSynced, NotLaunched
  <2>3. TypeOK'
    BY <1>2 DEF RunSynced, TypeOK, RunPc, WorkerPc, wqVars, infVars
  <2> QED
    BY <1>2, <2>1, <2>2, <2>3, UntouchedQueue DEF RunSynced, wqVars
<1>3. CASE RunNotSynced
  BY <1>3, UntouchedQueue
     DEF RunNotSynced, TypeOK, RunPc, wqVars, infVars, workVars, Active,
         HeldOK, NotLaunched
<1>4. CASE RunShutDown
  BY <1>4 DEF RunShutDown, ShutDown, Broadcast, TypeOK, RunPc, infVars, workVars,
              Active, QueueOK, Queued, HeldOK, NotLaunched,
              ExclusiveProcessing, IdleHoldsNothing
<1>5. CASE RunDrainWait
  BY <1>5 DEF RunDrainWait, TypeOK, infVars, runVars, workVars,
              Active, QueueOK, Queued, HeldOK, NotLaunched,
              ExclusiveProcessing, IdleHoldsNothing
<1>6. CASE RunDrained
  BY <1>6, UntouchedQueue
     DEF RunDrained, TypeOK, RunPc, wqVars, infVars, workVars, Active,
         HeldOK, NotLaunched
<1>7. CASE RunJoin
  BY <1>7, UntouchedQueue
     DEF RunJoin, TypeOK, RunPc, wqVars, infVars, workVars, Active,
         HeldOK, NotLaunched
<1> QED
  BY <1>1, <1>2, <1>3, <1>4, <1>5, <1>6, <1>7 DEF RunStep

(* Every step of a worker. *)
LEMMA WorkerStepKeeps ==
    ASSUME TypeOK, QueueOK, HeldOK, NEW w \in Worker, WorkerStep(w)
    PROVE  TypeOK' /\ QueueOK' /\ HeldOK'
<1>0. pc[w] # "off" /\ NotLaunched'
  BY DEF HeldOK, NotLaunched, TypeOK, WorkerStep, WorkerUntil, WorkerGet,
         WorkerBlock, WorkerExit, WorkerList, WorkerReconcile,
         WorkerReconcileFails, WorkerRequeue, WorkerDone, runVars, workVars
<1>1. CASE WorkerUntil(w)
  <2>1. Active' = Active
    BY <1>1 DEF WorkerUntil, TypeOK, Active
  <2> QED
    BY <1>0, <1>1, <2>1, UntouchedQueue
       DEF WorkerUntil, TypeOK, WorkerPc, wqVars, infVars, runVars
<1>2. CASE WorkerGet(w)
  <2>1. PICK k \in Key : Get(k) /\ item' = [item EXCEPT ![w] = k]
    BY <1>2 DEF WorkerGet
  <2>2. QueueOK' /\ k \notin processing
    BY <2>1, GetKeepsQueueOK
  <2>3. TypeOK'
    BY <1>2, <2>1, <2>2
       DEF WorkerGet, Get, TypeOK, QueueOK, WorkerPc, infVars, runVars
  <2>4. w \notin Active /\ Active' = Active \cup {w}
    BY <1>2 DEF WorkerGet, TypeOK, Active
  <2>5. item'[w] = k /\ \A v \in Active : item'[v] = item[v] /\ item[v] \in processing
    BY <2>1, <2>4 DEF TypeOK, HeldOK, Active
  <2>6. processing' = {item'[v] : v \in Active'}
    BY <2>1, <2>4, <2>5 DEF Get, HeldOK
  <2>7. ExclusiveProcessing'
    BY <2>2, <2>4, <2>5 DEF ExclusiveProcessing, HeldOK
  <2>8. IdleHoldsNothing'
    BY <2>1, <2>4 DEF IdleHoldsNothing, HeldOK, TypeOK
  <2> QED
    BY <1>0, <2>2, <2>3, <2>6, <2>7, <2>8 DEF HeldOK
<1>3. CASE WorkerBlock(w)
  BY <1>0, <1>3
     DEF WorkerBlock, GetWait, TypeOK, QueueOK, Queued, HeldOK, NotLaunched,
         ExclusiveProcessing, IdleHoldsNothing, Active, infVars, runVars, workVars
<1>4. CASE WorkerExit(w)
  <2>1. Active' = Active
    BY <1>4 DEF WorkerExit, TypeOK, Active
  <2> QED
    BY <1>0, <1>4, <2>1, UntouchedQueue
       DEF WorkerExit, GetShutdown, TypeOK, WorkerPc, wqVars, infVars, runVars
<1>5. CASE WorkerList(w)
  <2>1. Active' = Active
    BY <1>5 DEF WorkerList, ListerGet, TypeOK, Active
  <2>2. item[w] \in Key
    BY <1>5 DEF WorkerList, ListerGet, TypeOK, HeldOK, QueueOK, Active
  <2> QED
    BY <1>0, <1>5, <2>1, <2>2, UntouchedQueue
       DEF WorkerList, ListerGet, TypeOK, WorkerPc, wqVars, infVars, runVars
<1>6. CASE WorkerReconcile(w)
  <2>1. Active' = Active
    BY <1>6 DEF WorkerReconcile, TypeOK, Active
  <2> QED
    BY <1>0, <1>6, <2>1, UntouchedQueue
       DEF WorkerReconcile, TypeOK, WorkerPc, wqVars, infVars, runVars
<1>7. CASE WorkerReconcileFails(w)
  <2>1. Active' = Active
    BY <1>7 DEF WorkerReconcileFails, TypeOK, Active
  <2> QED
    BY <1>0, <1>7, <2>1, UntouchedQueue
       DEF WorkerReconcileFails, TypeOK, WorkerPc, wqVars, infVars, runVars
<1>8. CASE WorkerRequeue(w)
  <2>1. Active' = Active
    BY <1>8 DEF WorkerRequeue, TypeOK, Active
  <2>2. item[w] \in Key
    BY <1>8 DEF WorkerRequeue, TypeOK, HeldOK, QueueOK, Active
  <2> QED
    BY <1>0, <1>8, <2>1, <2>2, UntouchedQueue
       DEF WorkerRequeue, AddRateLimited, TypeOK, WorkerPc, infVars, runVars
<1>9. CASE WorkerDone(w)
  <2>1. item[w] \in processing
    BY <1>9 DEF WorkerDone, HeldOK, Active
  <2>2. QueueOK'
    BY <1>9, <2>1, DoneKeepsQueueOK DEF WorkerDone
  <2>3. TypeOK'
    <3>1. Absent \in Object
      BY DEF Absent, Object
    <3> QED
      BY <1>9, <2>2, <3>1
         DEF WorkerDone, Done, TypeOK, QueueOK, WorkerPc, infVars, runVars
  <2>4. w \in Active /\ Active' = Active \ {w}
    BY <1>9 DEF WorkerDone, TypeOK, Active
  <2>5. \A v \in Active' : item'[v] = item[v] /\ item[v] # item[w]
    BY <1>9, <2>4 DEF WorkerDone, TypeOK, HeldOK, ExclusiveProcessing, Active
  <2>6. processing' = {item'[v] : v \in Active'}
    BY <1>9, <2>4, <2>5 DEF WorkerDone, Done, HeldOK
  <2>7. ExclusiveProcessing'
    BY <2>4, <2>5 DEF ExclusiveProcessing, HeldOK
  <2>8. IdleHoldsNothing'
    BY <1>9, <2>4 DEF WorkerDone, IdleHoldsNothing, HeldOK, TypeOK
  <2> QED
    BY <1>0, <2>2, <2>3, <2>6, <2>7, <2>8 DEF HeldOK
<1> QED
  BY <1>1, <1>2, <1>3, <1>4, <1>5, <1>6, <1>7, <1>8, <1>9 DEF WorkerStep

(* A back-off that has elapsed. *)
LEMMA QueueReadyKeeps ==
    ASSUME TypeOK, QueueOK, HeldOK, NEW k \in Key, QueueReady(k)
    PROVE  TypeOK' /\ QueueOK' /\ HeldOK'
<1>1. QueueOK'
  BY AddKeepsQueueOK DEF QueueReady, WaitingReady
<1>2. TypeOK'
  BY <1>1 DEF QueueReady, WaitingReady, TypeOK, QueueOK, infVars, runVars, workVars
<1>3. HeldOK'
  BY DEF QueueReady, WaitingReady, HeldOK, NotLaunched, ExclusiveProcessing,
         IdleHoldsNothing, Active, runVars, workVars
<1> QED
  BY <1>1, <1>2, <1>3

(* The invariant is inductive. *)
LEMMA NextIInv == IInv /\ [Next]_vars => IInv'
<1> SUFFICES ASSUME TypeOK, QueueOK, HeldOK, [Next]_vars
             PROVE  TypeOK' /\ QueueOK' /\ HeldOK'
  BY IInvSplit, PTL
<1>1. CASE Informer \/ Cancel
  BY <1>1, EnvironmentStep
<1>2. CASE Handle
  BY <1>2, HandleStep
<1>3. CASE RunStep
  BY <1>3, RunStepKeeps
<1>4. CASE \E w \in Worker : WorkerStep(w)
  BY <1>4, WorkerStepKeeps
<1>5. CASE \E k \in Key : QueueReady(k)
  BY <1>5, QueueReadyKeeps
<1>6. CASE UNCHANGED vars
  <2>1. TypeOK'
    BY <1>6 DEF vars, wqVars, infVars, runVars, workVars, TypeOK
  <2> QED
    BY <1>6, <2>1, UntouchedQueue
       DEF vars, wqVars, runVars, workVars, Active, HeldOK, NotLaunched
<1> QED
  BY <1>1, <1>2, <1>3, <1>4, <1>5, <1>6 DEF Next

-----------------------------------------------------------------------------
\* Theorems

(* IInv holds in every reachable state of generic.go's controller. *)
THEOREM Invariance == Spec => []IInv
BY InitIInv, NextIInv, PTL DEF Spec

(* Type correctness of the controller, its queue and its workers. *)
THEOREM TypeCorrect == Spec => []TypeOK
<1>1. IInv => TypeOK
  BY DEF IInv
<1> QED
  BY <1>1, Invariance, PTL

(* The queue's slice and sets, and the workers between Get and Done, agree  *)
(* in every reachable state, for any number of keys and workers.            *)
THEOREM QueueIsConsistent == Spec => []QueueConsistent
<1>1. IInv => QueueConsistent
  BY DEF IInv
<1> QED
  BY <1>1, Invariance, PTL

(* No two workers ever reconcile the same key at the same time, for any     *)
(* number of keys and workers.                                              *)
THEOREM MutualExclusion == Spec => []ExclusiveProcessing
<1>1. IInv => ExclusiveProcessing
  BY DEF IInv
<1> QED
  BY <1>1, Invariance, PTL
-----------------------------------------------------------------------------
\* The work queue and the workers implement KeyedWork

(* Add is a request of its key, or nothing. *)
LEMMA AddRequests ==
    ASSUME NEW k \in Key, Add(k), UNCHANGED <<item, shuttingDown>>
    PROVE  [Work!Next]_(Work!workVars)
<1>1. CASE UNCHANGED dirty
  BY <1>1 DEF Work!workVars
<1>2. CASE ~shuttingDown /\ dirty' = dirty \cup {k}
  <2>1. Work!Request(k)
    BY <1>2 DEF Work!Request
  <2> QED
    BY <2>1 DEF Work!Next
<1> QED
  BY <1>1, <1>2 DEF Add

(* Get is a claim: the head of the queue is dirty and nobody holds it. *)
LEMMA GetClaims ==
    ASSUME IInv, NEW w \in Worker, WorkerGet(w)
    PROVE  Work!Next
<1>1. TypeOK /\ QueueOK /\ HeldOK
  BY IInvSplit
<1>2. PICK k \in Key : Get(k) /\ item' = [item EXCEPT ![w] = k]
  BY DEF WorkerGet
<1>3. k \notin processing
  BY <1>1, <1>2, GetKeepsQueueOK
<1>4. k \in dirty
  BY <1>1, <1>2, TailRange DEF Get, QueueOK, Queued
<1>5. item[w] = NoKey
  BY <1>1 DEF WorkerGet, Active, HeldOK, IdleHoldsNothing
<1>6. \A v \in Worker : item[v] # k
  BY <1>1, <1>3, ControllerAssumption DEF HeldOK, IdleHoldsNothing
<1>7. Work!Claim(w, k)
  BY <1>2, <1>4, <1>5, <1>6 DEF Work!Claim, Get
<1> QED
  BY <1>7 DEF Work!Next

(* Done is a release: the key stays in the set if it was added meanwhile. *)
LEMMA DoneReleases ==
    ASSUME IInv, NEW w \in Worker, WorkerDone(w)
    PROVE  Work!Next
<1>1. item[w] # NoKey
  BY ControllerAssumption, IInvSplit DEF WorkerDone, HeldOK, QueueOK, Active
<1>2. Work!Release(w)
  BY <1>1 DEF WorkerDone, Done, Work!Release
<1> QED
  BY <1>2 DEF Work!Next

(* Every step of the controller is a step of KeyedWork, or none. *)
LEMMA StepImplements ==
    ASSUME IInv, [Next]_vars
    PROVE  [Work!Next]_(Work!workVars)
<1>1. CASE Informer \/ Cancel \/ UNCHANGED vars
  <2>1. UNCHANGED <<wqVars, workVars>>
    BY <1>1, Zenon DEF Informer, InformerStore, InformerDelete, InformerResync,
                       InformerSync, Cancel, vars
  <2> QED
    BY <2>1 DEF wqVars, workVars, Work!workVars
<1>2. CASE Handle
  <2>1. Head(pending) \in Notification
    BY <1>2, HeadTailProperties DEF Handle, IInv, TypeOK
  <2>2. Head(pending).key \in Key
    BY <2>1 DEF Notification
  <2> QED
    BY <1>2, <2>2, AddRequests DEF Handle, workVars, Work!workVars
<1>3. CASE RunStep
  <2>1. CASE RunShutDown
    <3>1. Work!Close
      BY <2>1 DEF RunShutDown, ShutDown, workVars, Work!Close
    <3> QED
      BY <3>1 DEF Work!Next
  <2>2. CASE ~RunShutDown
    BY <1>3, <2>2 DEF RunStep, RunStart, RunSynced, RunNotSynced, RunDrainWait,
                      RunDrained, RunJoin, wqVars, workVars, Work!workVars
  <2> QED
    BY <2>1, <2>2
<1>4. ASSUME NEW w \in Worker, WorkerStep(w)
      PROVE  [Work!Next]_(Work!workVars)
  <2>1. CASE WorkerGet(w)
    BY <2>1, GetClaims
  <2>2. CASE WorkerDone(w)
    BY <2>2, DoneReleases
  <2>3. CASE ~WorkerGet(w) /\ ~WorkerDone(w)
    BY <1>4, <2>3
       DEF WorkerStep, WorkerUntil, WorkerBlock, WorkerExit, WorkerList,
           WorkerReconcile, WorkerReconcileFails, WorkerRequeue, GetWait,
           GetShutdown, AddRateLimited, wqVars, workVars, Work!workVars
  <2> QED
    BY <2>1, <2>2, <2>3
<1>5. ASSUME NEW k \in Key, QueueReady(k)
      PROVE  [Work!Next]_(Work!workVars)
  BY <1>5, AddRequests DEF QueueReady, WaitingReady, workVars
<1> QED
  BY <1>1, <1>2, <1>3, <1>4, <1>5 DEF Next

(* The work queue, driven by the handlers, Run and any number of workers,   *)
(* implements the abstract set of keys with work to do.                     *)
THEOREM Refinement == Spec => ImplementsKeyedWork
<1>1. Init => Work!Init
  BY DEF Init, WQInit, Work!Init
<1>2. IInv /\ [Next]_vars => [Work!Next]_(Work!workVars)
  BY StepImplements
<1> QED
  BY <1>1, <1>2, Invariance, PTL DEF Spec, ImplementsKeyedWork, Work!Spec
=============================================================================
