--------------------------- MODULE SchemaResolver ---------------------------
(***************************************************************************)
(* pkg/controller/schemaresolver/resolver.go: a cache of OpenAPI schemas   *)
(* in front of discovery, under an RWMutex, with CRD event handlers that   *)
(* purge it.                                                               *)
(*                                                                         *)
(* Discovery is external: the schema of a kind is a number that grows with *)
(* every change of the kind's CRD, 0 while no CRD defines the kind.        *)
(* Resolving such a kind is an error, as is a failure of discovery itself; *)
(* an error is cached like a schema, and is written 0 too.                 *)
(***************************************************************************)
EXTENDS Naturals, Sequences, FiniteSets

CONSTANTS
    Kind,           \* the kinds that CRDs define (a CRD's spec.group, names.kind)
    CrdKind,        \* the group and kind a CRD object itself reports
    Caller,         \* goroutines that call ResolveSchema
    MaxSchema,      \* bound: changes of one CRD
    MaxEvents,      \* bound: undelivered CRD events
    MaxCalls        \* bound: calls of ResolveSchema

Free == "free"      \* no caller holds the lock

ASSUME ResolverAssumption ==
    /\ CrdKind \notin Kind
    /\ Kind # {}
    /\ Free \notin Caller
    /\ MaxSchema \in Nat /\ MaxEvents \in Nat /\ MaxCalls \in Nat

VARIABLES
    published,      \* discovery: the schema of each kind now
    events,         \* CRD events not yet handled: [kind, schema]
    cache,          \* Controller.cache; None where there is no entry
    lock,           \* who holds Controller.lock for writing
    pc,             \* where each caller is
    gvk,            \* what each caller resolves
    fetched,        \* what the caller's call of discovery returned
    atCall,         \* history: what was published when the call began
    result,         \* what the last call of each caller returned
    calls

vars == <<published, events, cache, lock, pc, gvk, fetched, atCall, result,
          calls>>
callVars == <<pc, gvk, fetched, atCall, result, calls>>

None == MaxSchema + 1

Init ==
    /\ published = [k \in Kind |-> 0]
    /\ events = <<>>
    /\ cache = [k \in Kind |-> None]
    /\ lock = Free
    /\ pc = [c \in Caller |-> "idle"]
    /\ gvk = [c \in Caller |-> CHOOSE k \in Kind : TRUE]
    /\ fetched = [c \in Caller |-> 0]
    /\ atCall = [c \in Caller |-> 0]
    /\ result = [c \in Caller |-> None]
    /\ calls = 0

-----------------------------------------------------------------------------
\* CRDs

(* A CRD is created or changed: discovery serves the new schema and the CRD *)
(* informer will tell its handlers.                                         *)
CrdChange(k) ==
    /\ published[k] < MaxSchema
    /\ Len(events) < MaxEvents
    /\ published' = [published EXCEPT ![k] = @ + 1]
    /\ events' = Append(events, [kind |-> k, schema |-> published[k] + 1])
    /\ UNCHANGED <<cache, lock, callVars>>

(* crd.GetObjectKind(): the group and kind of the CRD object, empty once it  *)
(* was decoded, and never those that the CRD defines.                       *)
ObjectKind(event) == CrdKind

(* purgeCRDFromCache, called by the handlers of Run. *)
HandleCrdEvent ==
    /\ events # <<>>
    /\ lock = Free
    /\ events' = Tail(events)
    /\ cache' = [k \in Kind |->
                    IF k = ObjectKind(Head(events)) THEN None ELSE cache[k]]
    /\ UNCHANGED <<published, lock, callVars>>

-----------------------------------------------------------------------------
\* ResolveSchema

ResolveCall(c, k) ==
    /\ pc[c] = "idle"
    /\ calls < MaxCalls
    /\ calls' = calls + 1
    /\ gvk' = [gvk EXCEPT ![c] = k]
    /\ atCall' = [atCall EXCEPT ![c] = published[k]]
    /\ pc' = [pc EXCEPT ![c] = "lookup"]
    /\ UNCHANGED <<published, events, cache, lock, fetched, result>>

(* resolveSchemaFromCache under the read lock. *)
ResolveHit(c) ==
    /\ pc[c] = "lookup"
    /\ lock = Free
    /\ cache[gvk[c]] # None
    /\ result' = [result EXCEPT ![c] = cache[gvk[c]]]
    /\ pc' = [pc EXCEPT ![c] = "idle"]
    /\ UNCHANGED <<published, events, cache, lock, gvk, fetched, atCall, calls>>

ResolveMiss(c) ==
    /\ pc[c] = "lookup"
    /\ lock = Free
    /\ cache[gvk[c]] = None
    /\ pc' = [pc EXCEPT ![c] = "lock"]
    /\ UNCHANGED <<published, events, cache, lock, gvk, fetched, atCall, result, calls>>

ResolveLock(c) ==
    /\ pc[c] = "lock"
    /\ lock = Free
    /\ lock' = c
    /\ pc' = [pc EXCEPT ![c] = "fetch"]
    /\ UNCHANGED <<published, events, cache, gvk, fetched, atCall, result, calls>>

(* Defect: discovery was asked before the lock was taken. *)
ResolveFetchBeforeLock(c) ==
    /\ pc[c] = "fetch"
    /\ fetched' = [fetched EXCEPT ![c] = atCall[c]]
    /\ pc' = [pc EXCEPT ![c] = "store"]
    /\ UNCHANGED <<published, events, cache, lock, gvk, atCall, result, calls>>

(* Discovery is asked while the lock is held, whether or not another caller *)
(* has filled the entry meanwhile.                                          *)
ResolveFetch(c) ==
    /\ pc[c] = "fetch"
    /\ fetched' = [fetched EXCEPT ![c] = published[gvk[c]]]
    /\ pc' = [pc EXCEPT ![c] = "store"]
    /\ UNCHANGED <<published, events, cache, lock, gvk, atCall, result, calls>>

ResolveFetchFails(c) ==
    /\ pc[c] = "fetch"
    /\ fetched' = [fetched EXCEPT ![c] = 0]
    /\ pc' = [pc EXCEPT ![c] = "store"]
    /\ UNCHANGED <<published, events, cache, lock, gvk, atCall, result, calls>>

(* Defect: the lock is not released. *)
ResolveStoreKeepsLock(c) ==
    /\ pc[c] = "store"
    /\ cache' = [cache EXCEPT ![gvk[c]] = fetched[c]]
    /\ result' = [result EXCEPT ![c] = fetched[c]]
    /\ pc' = [pc EXCEPT ![c] = "idle"]
    /\ UNCHANGED <<published, events, lock, gvk, fetched, atCall, calls>>

(* Whatever discovery returned is cached, an error included. *)
ResolveStore(c) ==
    /\ pc[c] = "store"
    /\ cache' = [cache EXCEPT ![gvk[c]] = fetched[c]]
    /\ result' = [result EXCEPT ![c] = fetched[c]]
    /\ lock' = Free
    /\ pc' = [pc EXCEPT ![c] = "idle"]
    /\ UNCHANGED <<published, events, gvk, fetched, atCall, calls>>

-----------------------------------------------------------------------------

Resolve(c) ==
    \/ ResolveHit(c) \/ ResolveMiss(c) \/ ResolveLock(c)
    \/ ResolveFetch(c) \/ ResolveFetchFails(c) \/ ResolveStore(c)

Next ==
    \/ \E k \in Kind : CrdChange(k)
    \/ HandleCrdEvent
    \/ \E c \in Caller, k \in Kind : ResolveCall(c, k)
    \/ \E c \in Caller : Resolve(c)

Spec == Init /\ [][Next]_vars

(* Callers and handlers run, and discovery answers; a writer gets the lock  *)
(* when it is free often enough (sync.RWMutex does not starve).             *)
FairSpec ==
    /\ Spec
    /\ SF_vars(HandleCrdEvent)
    /\ \A c \in Caller : SF_vars(Resolve(c))

-----------------------------------------------------------------------------
\* Properties

(* Every variable has its type, and the lock is held by a caller that is    *)
(* between Lock and Unlock.                                                 *)
TypeOK ==
    /\ published \in [Kind -> 0..MaxSchema]
    /\ events \in Seq([kind : Kind, schema : 0..MaxSchema])
    /\ cache \in [Kind -> 0..None]
    /\ lock \in Caller \cup {Free}
    /\ \A c \in Caller : pc[c] \in {"fetch", "store"} <=> lock = c
    /\ pc \in [Caller -> {"idle", "lookup", "lock", "fetch", "store"}]
    /\ gvk \in [Caller -> Kind]
    /\ fetched \in [Caller -> 0..MaxSchema]
    /\ atCall \in [Caller -> 0..MaxSchema]
    /\ result \in [Caller -> 0..None]
    /\ calls \in Nat

(* A call that goes to discovery returns an error or a schema that is no    *)
(* older than the one published when the call began and no older than the   *)
(* entry it replaces: two callers that both miss fetch one after the other. *)
MissIsFresh ==
    [][\A c \in Caller : (pc[c] = "store" /\ pc'[c] = "idle" /\ result'[c] # 0)
          => /\ result'[c] >= atCall[c]
             /\ cache[gvk[c]] # None => cache[gvk[c]] <= cache'[gvk[c]]]_vars

(* Every call of ResolveSchema returns, though discovery is asked with the  *)
(* lock held.                                                               *)
CallsReturn == \A c \in Caller : pc[c] = "lookup" ~> pc[c] = "idle"
=============================================================================
