-------------------------- MODULE InformerFactory --------------------------
(***************************************************************************)
(* pkg/generated/informers/externalversions/factory.go: the factory from   *)
(* which several users take shared informers, and which any of them may    *)
(* start and shut down.                                                    *)
(*                                                                         *)
(* InformerFor, Start and the first parts of Shutdown and WaitForCacheSync *)
(* run under the factory's lock without blocking, so each is one step; the *)
(* waiting is not.  An informer is known by its type and by how many of    *)
(* that type the factory has made.  What it lists, watches and resyncs is  *)
(* left out.  main is a user that takes its informers (NewPlugin) and then *)
(* calls Start; the other calls are open to every user of the package.     *)
(* Each user passes its own context's Done() as the stop channel.          *)
(***************************************************************************)
EXTENDS Naturals, Sequences, FiniteSets, Functions

CONSTANTS
    Type,               \* object types: policies and bindings
    User                \* goroutines that use the factory

ASSUME FactoryAssumption == IsFiniteSet(Type)

VARIABLES
    informers,          \* informers made of each type; the last one is kept
    startedInformers,
    wg,                 \* the WaitGroup
    shuttingDown,
    runs,               \* per type, the goroutines that Start launched
    synced,             \* informers whose HasSynced() is true
    closed,             \* users whose stop channel is closed
    pc,                 \* the call in which a user waits
    waits,              \* WaitForCacheSync: types still to look at
    failed,             \* WaitForCacheSync: types mapped to false so far
    relies,             \* history: informers handed out before a user's Start
    down                \* history: a Shutdown has returned

factoryVars == <<informers, startedInformers, wg, shuttingDown>>
informerVars == <<runs, synced, closed>>
callVars == <<pc, waits, failed>>
historyVars == <<relies, down>>
vars == <<factoryVars, informerVars, callVars, historyVars>>

Informer(t) == <<t, informers[t]>>

(* The informers that users hold. *)
Given == UNION {{t} \X (1..informers[t]) : t \in Type}

Init ==
    /\ informers = [t \in Type |-> 0]
    /\ startedInformers = {}
    /\ wg = 0
    /\ shuttingDown = FALSE
    /\ runs = [t \in Type |-> <<>>]
    /\ synced = {}
    /\ closed = {}
    /\ pc = [u \in User |-> "idle"]
    /\ waits = [u \in User |-> {}]
    /\ failed = [u \in User |-> {}]
    /\ relies = [u \in User |-> {}]
    /\ down = FALSE

-----------------------------------------------------------------------------
\* The factory

(* Defect: InformerFor makes an informer each time. *)
InformerForAnew(u, t) ==
    /\ pc[u] = "idle"
    /\ informers[t] < 2
    /\ informers' = [informers EXCEPT ![t] = @ + 1]
    /\ UNCHANGED <<startedInformers, wg, shuttingDown, informerVars, callVars,
                   historyVars>>

(* InformerFor, through Informer(), Lister() or ForResource(). *)
InformerFor(u, t) ==
    /\ pc[u] = "idle"
    /\ informers' = [informers EXCEPT ![t] = IF @ = 0 THEN 1 ELSE @]
    /\ UNCHANGED <<startedInformers, wg, shuttingDown, informerVars, callVars,
                   historyVars>>

Requested == {t \in Type : informers[t] # 0}

(* go informer.Run(stopCh), for each of the types. *)
Launch(types, u) ==
    /\ wg' = wg + Cardinality(types)
    /\ runs' = [t \in Type |->
                  IF t \notin types THEN runs[t]
                  ELSE Append(runs[t], [informer |-> Informer(t), stop |-> u,
                                        running |-> TRUE])]

(* Defect: Start does not look at shuttingDown. *)
StartAnyway(u) ==
    /\ pc[u] = "idle"
    /\ Launch(Requested \ startedInformers, u)
    /\ startedInformers' = Requested
    /\ relies' = [relies EXCEPT ![u] = Given]
    /\ UNCHANGED <<informers, shuttingDown, synced, closed, callVars, down>>

(* Defect: Start forgets what it has started. *)
StartForgets(u) ==
    /\ pc[u] = "idle"
    /\ ~shuttingDown
    /\ Launch(Requested, u)
    /\ relies' = [relies EXCEPT ![u] = Given]
    /\ UNCHANGED <<informers, startedInformers, shuttingDown, synced, closed, callVars,
                   down>>

(* Defect: Start does nothing once the factory was started. *)
StartOnce(u) ==
    /\ pc[u] = "idle"
    /\ ~shuttingDown
    /\ LET types == IF startedInformers = {} THEN Requested ELSE {}
       IN  /\ Launch(types, u)
           /\ startedInformers' = startedInformers \cup types
    /\ relies' = [relies EXCEPT ![u] = Given]
    /\ UNCHANGED <<informers, shuttingDown, synced, closed, callVars, down>>

(* Once the factory is shutting down, Start changes nothing. *)
Start(u) ==
    /\ pc[u] = "idle"
    /\ ~shuttingDown
    /\ Launch(Requested \ startedInformers, u)
    /\ startedInformers' = Requested
    /\ relies' = [relies EXCEPT ![u] = Given]
    /\ UNCHANGED <<informers, shuttingDown, synced, closed, callVars, down>>

Shutdown(u) ==
    /\ pc[u] = "idle"
    /\ shuttingDown' = TRUE
    /\ pc' = [pc EXCEPT ![u] = "shutdown"]
    /\ UNCHANGED <<informers, startedInformers, wg, informerVars, waits, failed,
                   historyVars>>

(* wg.Wait() *)
ShutdownReturn(u) ==
    /\ pc[u] = "shutdown"
    /\ wg = 0
    /\ pc' = [pc EXCEPT ![u] = "idle"]
    /\ down' = TRUE
    /\ UNCHANGED <<factoryVars, informerVars, waits, failed, relies>>

(* Defect: the informers that were never started are waited for too. *)
WaitForAll(u) ==
    /\ pc[u] = "idle"
    /\ pc' = [pc EXCEPT ![u] = "sync"]
    /\ waits' = [waits EXCEPT ![u] = Requested]
    /\ UNCHANGED <<factoryVars, informerVars, failed, historyVars>>

(* The informers are copied under the lock ... *)
WaitForCacheSync(u) ==
    /\ pc[u] = "idle"
    /\ pc' = [pc EXCEPT ![u] = "sync"]
    /\ waits' = [waits EXCEPT ![u] = Requested \cap startedInformers]
    /\ UNCHANGED <<factoryVars, informerVars, failed, historyVars>>

(* ... and waited for one by one: cache.WaitForCacheSync looks at HasSynced *)
(* before it looks at the channel.                                          *)
WaitNext(u) ==
    /\ pc[u] = "sync"
    /\ \E t \in waits[u] :
          /\ Informer(t) \in synced \/ u \in closed
          /\ waits' = [waits EXCEPT ![u] = @ \ {t}]
          /\ failed' = IF Informer(t) \in synced THEN failed
                       ELSE [failed EXCEPT ![u] = @ \cup {t}]
    /\ UNCHANGED <<factoryVars, informerVars, pc, historyVars>>

WaitReturn(u) ==
    /\ pc[u] = "sync"
    /\ waits[u] = {}
    /\ pc' = [pc EXCEPT ![u] = "idle"]
    /\ failed' = [failed EXCEPT ![u] = {}]
    /\ UNCHANGED <<factoryVars, informerVars, waits, historyVars>>

-----------------------------------------------------------------------------
\* The informers' goroutines and the channels' owners

(* The first list has arrived and was handed to the handlers. *)
InformerSync(t) ==
    /\ \E i \in DOMAIN runs[t] :
          /\ runs[t][i].running
          /\ runs[t][i].informer \notin synced
          /\ synced' = synced \cup {runs[t][i].informer}
    /\ UNCHANGED <<factoryVars, runs, closed, callVars, historyVars>>

(* Defect: the goroutine ends without wg.Done(). *)
RunEndUncounted(t) ==
    /\ \E i \in DOMAIN runs[t] :
          /\ runs[t][i].running
          /\ runs[t][i].stop \in closed
          /\ runs' = [runs EXCEPT ![t][i].running = FALSE]
    /\ UNCHANGED <<factoryVars, synced, closed, callVars, historyVars>>

(* informer.Run returns; the deferred wg.Done() *)
RunEnd(t) ==
    /\ \E i \in DOMAIN runs[t] :
          /\ runs[t][i].running
          /\ runs[t][i].stop \in closed
          /\ runs' = [runs EXCEPT ![t][i].running = FALSE]
    /\ wg' = wg - 1
    /\ UNCHANGED <<informers, startedInformers, shuttingDown, synced, closed,
                   callVars, historyVars>>

CloseStop(u) ==
    /\ closed' = closed \cup {u}
    /\ UNCHANGED <<factoryVars, runs, synced, callVars, historyVars>>

-----------------------------------------------------------------------------

Waiting(u) == ShutdownReturn(u) \/ WaitNext(u) \/ WaitReturn(u)

Next ==
    \/ \E u \in User, t \in Type : InformerFor(u, t)
    \/ \E u \in User : Start(u)
    \/ \E u \in User : Shutdown(u)
    \/ \E u \in User : WaitForCacheSync(u)
    \/ \E u \in User : Waiting(u)
    \/ \E t \in Type : InformerSync(t) \/ RunEnd(t)
    \/ \E u \in User : CloseStop(u)

(* Goroutines that can go on do, and a running informer's list succeeds at  *)
(* last: the reflector repeats it. Nobody has to close a channel.           *)
Fairness ==
    /\ \A u \in User : WF_vars(Waiting(u))
    /\ \A t \in Type : WF_vars(InformerSync(t)) /\ WF_vars(RunEnd(t))

Spec == Init /\ [][Next]_vars /\ Fairness

-----------------------------------------------------------------------------
\* Properties

(* Every variable has its type. *)
TypeOK ==
    /\ informers \in [Type -> Nat]
    /\ startedInformers \subseteq Requested
    /\ wg \in 0..Cardinality(Type)
    /\ shuttingDown \in BOOLEAN
    /\ \A t \in Type : \A i \in DOMAIN runs[t] :
          runs[t][i] \in [informer : {t} \X Nat, stop : User, running : BOOLEAN]
    /\ synced \subseteq Type \X Nat
    /\ closed \subseteq User
    /\ pc \in [User -> {"idle", "shutdown", "sync"}]
    /\ waits \in [User -> SUBSET Type]
    /\ failed \in [User -> SUBSET Type]
    /\ relies \in [User -> SUBSET Given]
    /\ down \in BOOLEAN

(* "This allows Start() to be called multiple times safely": however the    *)
(* users' calls interleave, an informer is run by one goroutine, and it is  *)
(* the informer that every user of its type holds.                          *)
OneRunPerInformer ==
    \A t \in Type :
        /\ Len(runs[t]) <= 1
        /\ \A i \in DOMAIN runs[t] : \A informer \in Given :
              informer[1] = t => informer = runs[t][i].informer

(* Shutdown "blocks until all goroutines have terminated" and "no new       *)
(* informers can be started anymore": once one of the calls has returned no *)
(* informer runs, though another user calls Start meanwhile or later.       *)
ShutdownIsFinal ==
    down => \A t \in Type : \A i \in DOMAIN runs[t] : ~runs[t][i].running

(* A user that took its informers, called Start while the factory was open  *)
(* and got no false from WaitForCacheSync may read its listers: every       *)
(* informer handed out before its Start has synced, whoever started it.     *)
SyncCoversMine ==
    [][\A u \in User :
          (pc[u] = "sync" /\ pc'[u] = "idle" /\ failed[u] = {})
          => relies[u] \subseteq synced]_vars

Stopped(informer) ==
    \E i \in DOMAIN runs[informer[1]] : runs[informer[1]][i].stop \in closed

(* An informer that was requested before Start, as main does ("Start after  *)
(* informers have been requested from factory"), gets its objects unless    *)
(* the channel it was started with is closed.                               *)
RequestedThenSynced ==
    \A t \in Type :
        (\E u \in User : Informer(t) \in relies[u]) ~> (Informer(t) \in synced \/ Stopped(Informer(t)))

(* Shutdown returns when the channels of all Starts are closed, "either     *)
(* before Shutdown gets called or while it is waiting".                     *)
ShutdownReturns ==
    \A u \in User :
        (pc[u] = "shutdown" /\ \A t \in startedInformers : Stopped(Informer(t)))
        ~> pc[u] # "shutdown"

(* WaitForCacheSync "blocks until all started informers' caches were synced *)
(* or the stop channel gets closed". It waits for ever only for an informer *)
(* that was stopped, by another channel than its own, before it had synced. *)
WaitReturns ==
    \A u \in User :
        pc[u] = "sync"
        ~> \/ pc[u] # "sync"
           \/ /\ u \notin closed
              /\ \E t \in waits[u] : Informer(t) \notin synced /\ Stopped(Informer(t))
=============================================================================
