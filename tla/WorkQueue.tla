----------------------------- MODULE WorkQueue -----------------------------
(***************************************************************************)
(* The rate limited work queue that pkg/controller/generic.go drives:      *)
(* client-go's workqueue.Type (vendor/.../workqueue/queue.go) with the     *)
(* delaying layer above it (delaying_queue.go).                            *)
(*                                                                         *)
(* Each operation runs under the queue's mutex, so each is one atomic      *)
(* change of the variables below.  The condition variable is modelled:     *)
(* condWait holds the goroutines parked in cond.Wait, Signal releases one  *)
(* of them and Broadcast all.  Metrics, the clock and the back-off         *)
(* durations are left out; an item in waiting may become ready at any      *)
(* time.                                                                   *)
(***************************************************************************)
EXTENDS Naturals, Sequences, Functions

CONSTANT Key        \* the items: namespace/name keys

VARIABLES
    queue,          \* Type.queue: order in which items will be handed out
    dirty,          \* Type.dirty: items that need processing
    processing,     \* Type.processing: items handed out and not yet Done
    shuttingDown,   \* Type.shuttingDown
    condWait,       \* goroutines blocked in Type.cond.Wait()
    waiting         \* delayingType: items whose back-off has not elapsed

wqVars == <<queue, dirty, processing, shuttingDown, condWait, waiting>>

WQInit ==
    /\ queue = <<>>
    /\ dirty = {}
    /\ processing = {}
    /\ shuttingDown = FALSE
    /\ condWait = {}
    /\ waiting = {}

Queued == Range(queue)

-----------------------------------------------------------------------------
\* sync.Cond

Signal ==
    \/ /\ condWait = {}
       /\ UNCHANGED condWait
    \/ \E p \in condWait : condWait' = condWait \ {p}

Broadcast == condWait' = {}

-----------------------------------------------------------------------------
\* Type

(* Defect: Add does not look at processing. *)
AddWhileProcessing(item) ==
    \/ /\ shuttingDown \/ item \in dirty
       /\ UNCHANGED <<queue, dirty, condWait>>
    \/ /\ ~shuttingDown
       /\ item \notin dirty
       /\ dirty' = dirty \cup {item}
       /\ queue' = Append(queue, item)
       /\ Signal

(* Defect: Add does not signal. *)
AddWithoutSignal(item) ==
    /\ UNCHANGED condWait
    /\ IF shuttingDown \/ item \in dirty
       THEN UNCHANGED <<queue, dirty>>
       ELSE /\ dirty' = dirty \cup {item}
            /\ queue' = IF item \in processing THEN queue ELSE Append(queue, item)

(* Add coalesces: an item that is already dirty is not queued again, and an *)
(* item being processed is only marked; Done will queue it.                 *)
Add(item) ==
    \/ /\ shuttingDown \/ item \in dirty
       /\ UNCHANGED <<queue, dirty, condWait>>
    \/ /\ ~shuttingDown
       /\ item \notin dirty
       /\ dirty' = dirty \cup {item}
       /\ \/ /\ item \in processing
             /\ UNCHANGED <<queue, condWait>>
          \/ /\ item \notin processing
             /\ queue' = Append(queue, item)
             /\ Signal

(* Get, when an item is available. *)
Get(item) ==
    /\ queue # <<>>
    /\ item = Head(queue)
    /\ queue' = Tail(queue)
    /\ processing' = processing \cup {item}
    /\ dirty' = dirty \ {item}
    /\ UNCHANGED <<shuttingDown, condWait, waiting>>

(* Get, when the caller p has to block. *)
GetWait(p) ==
    /\ queue = <<>>
    /\ ~shuttingDown
    /\ condWait' = condWait \cup {p}
    /\ UNCHANGED <<queue, dirty, processing, shuttingDown, waiting>>

(* Defect: Get stops handing out items as soon as the queue shuts down. *)
GetShutdownAtOnce ==
    /\ shuttingDown
    /\ UNCHANGED wqVars

(* Get returns shutdown = true. *)
GetShutdown ==
    /\ queue = <<>>
    /\ shuttingDown
    /\ UNCHANGED wqVars

(* Defect: Done also forgets that the item was added again meanwhile. *)
DoneClearsDirty(item) ==
    /\ processing' = processing \ {item}
    /\ dirty' = dirty \ {item}
    /\ IF processing' = {} THEN Signal ELSE UNCHANGED condWait
    /\ UNCHANGED <<queue, shuttingDown, waiting>>

Done(item) ==
    /\ processing' = processing \ {item}
    /\ \/ /\ item \in dirty
          /\ queue' = Append(queue, item)
          /\ Signal
       \/ /\ item \notin dirty
          /\ UNCHANGED queue
          /\ IF processing' = {} THEN Signal ELSE UNCHANGED condWait
    /\ UNCHANGED <<dirty, shuttingDown, waiting>>

(* Defect: ShutDown wakes nobody. *)
ShutDownQuietly ==
    /\ shuttingDown' = TRUE
    /\ UNCHANGED <<queue, dirty, processing, condWait, waiting>>

ShutDown ==
    /\ shuttingDown' = TRUE
    /\ Broadcast
    /\ UNCHANGED <<queue, dirty, processing, waiting>>

-----------------------------------------------------------------------------
\* delayingType

(* AddRateLimited with a back-off that is never zero. *)
AddRateLimited(item) ==
    /\ waiting' = IF shuttingDown THEN waiting ELSE waiting \cup {item}
    /\ UNCHANGED <<queue, dirty, processing, shuttingDown, condWait>>

(* waitingLoop: the back-off of item has elapsed. The loop ends as soon as  *)
(* the queue is shutting down.                                              *)
WaitingReady(item) ==
    /\ ~shuttingDown
    /\ item \in waiting
    /\ waiting' = waiting \ {item}
    /\ Add(item)
    /\ UNCHANGED <<processing, shuttingDown>>
=============================================================================
