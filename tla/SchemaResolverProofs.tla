------------------------ MODULE SchemaResolverProofs ------------------------
(***************************************************************************)
(* Proofs about SchemaResolver: its type invariant, which says who holds   *)
(* the lock, and that a call which misses the cache never returns, and     *)
(* never writes over a newer entry with, a schema that is out of date.     *)
(*                                                                         *)
(* Freshness needs what the write lock protects: between the call of       *)
(* discovery and the store the entry cannot change, because whoever stores *)
(* or purges needs the lock (StoreFresh); before that it is enough that    *)
(* the cache is never ahead of discovery (CacheBehind) and that schemas    *)
(* only grow (CallBehind).                                                 *)
(***************************************************************************)
EXTENDS SchemaResolver, TLAPS

CacheBehind == \A k \in Kind : cache[k] # None => cache[k] <= published[k]

CallBehind ==
    \A c \in Caller : pc[c] # "idle" => atCall[c] <= published[gvk[c]]

StoreFresh ==
    \A c \in Caller : pc[c] = "store" =>
        /\ fetched[c] <= published[gvk[c]]
        /\ fetched[c] # 0 =>
              /\ atCall[c] <= fetched[c]
              /\ cache[gvk[c]] # None => cache[gvk[c]] <= fetched[c]

FreshInv == TypeOK /\ CacheBehind /\ CallBehind /\ StoreFresh
USE DEF None

-----------------------------------------------------------------------------
\* The type invariant

(* Every step of the resolver or of the CRDs it reads about keeps the types *)
(* and keeps the lock with the caller between Lock and Unlock.              *)
LEMMA TypeStep == TypeOK /\ [Next]_vars => TypeOK'
<1> SUFFICES ASSUME TypeOK, [Next]_vars PROVE TypeOK'
  OBVIOUS
<1> USE ResolverAssumption
<1>1. ASSUME NEW k \in Kind, CrdChange(k) PROVE TypeOK'
  <2>1. published[k] + 1 \in 0..MaxSchema
    BY <1>1 DEF TypeOK, CrdChange
  <2>2. published' \in [Kind -> 0..MaxSchema]
    BY <1>1, <2>1 DEF TypeOK, CrdChange
  <2>3. events' \in Seq([kind : Kind, schema : 0..MaxSchema])
    BY <1>1, <2>1 DEF TypeOK, CrdChange
  <2> QED
    BY <1>1, <2>2, <2>3 DEF TypeOK, CrdChange, callVars
<1>2. ASSUME HandleCrdEvent PROVE TypeOK'
  <2>1. events' \in Seq([kind : Kind, schema : 0..MaxSchema])
    BY <1>2 DEF TypeOK, HandleCrdEvent
  <2>2. cache' \in [Kind -> 0..None]
    BY <1>2 DEF TypeOK, HandleCrdEvent
  <2> QED
    BY <1>2, <2>1, <2>2 DEF TypeOK, HandleCrdEvent, callVars
<1>3. ASSUME NEW c \in Caller, NEW k \in Kind, ResolveCall(c, k) PROVE TypeOK'
  <2>1. gvk' \in [Caller -> Kind] /\ atCall' \in [Caller -> 0..MaxSchema] /\ calls' \in Nat
    BY <1>3 DEF TypeOK, ResolveCall
  <2>2. pc' \in [Caller -> {"idle", "lookup", "lock", "fetch", "store"}]
        /\ \A d \in Caller : pc'[d] \in {"fetch", "store"} <=> lock' = d
    BY <1>3 DEF TypeOK, ResolveCall
  <2> QED
    BY <1>3, <2>1, <2>2 DEF TypeOK, ResolveCall
<1>4. ASSUME NEW c \in Caller, ResolveHit(c) PROVE TypeOK'
  BY <1>4 DEF TypeOK, ResolveHit
<1>5. ASSUME NEW c \in Caller, ResolveMiss(c) PROVE TypeOK'
  BY <1>5 DEF TypeOK, ResolveMiss
<1>6. ASSUME NEW c \in Caller, ResolveLock(c) PROVE TypeOK'
  BY <1>6 DEF TypeOK, ResolveLock
<1>7. ASSUME NEW c \in Caller, ResolveFetch(c) PROVE TypeOK'
  BY <1>7 DEF TypeOK, ResolveFetch
<1>8. ASSUME NEW c \in Caller, ResolveFetchFails(c) PROVE TypeOK'
  <2>1. 0 \in 0..MaxSchema
    OBVIOUS
  <2>2. fetched' \in [Caller -> 0..MaxSchema]
    BY <1>8, <2>1 DEF TypeOK, ResolveFetchFails
  <2>3. pc' \in [Caller -> {"idle", "lookup", "lock", "fetch", "store"}]
        /\ \A d \in Caller : pc'[d] \in {"fetch", "store"} <=> lock' = d
    BY <1>8 DEF TypeOK, ResolveFetchFails
  <2> QED
    BY <1>8, <2>2, <2>3 DEF TypeOK, ResolveFetchFails
<1>9. ASSUME NEW c \in Caller, ResolveStore(c) PROVE TypeOK'
  <2>1. fetched[c] \in 0..None
    BY DEF TypeOK
  <2>2. cache' \in [Kind -> 0..None] /\ result' \in [Caller -> 0..None]
    BY <1>9, <2>1 DEF TypeOK, ResolveStore
  <2>3. lock = c /\ \A d \in Caller : pc[d] \in {"fetch", "store"} => d = c
    BY <1>9 DEF TypeOK, ResolveStore
  <2>4. \A d \in Caller : pc'[d] \in {"fetch", "store"} <=> lock' = d
    BY <1>9, <2>3 DEF TypeOK, ResolveStore
  <2> QED
    BY <1>9, <2>2, <2>4 DEF TypeOK, ResolveStore
<1>10. ASSUME UNCHANGED vars PROVE TypeOK'
  BY <1>10 DEF TypeOK, vars
<1> QED
  BY <1>1, <1>2, <1>3, <1>4, <1>5, <1>6, <1>7, <1>8, <1>9, <1>10
     DEF Next, Resolve

-----------------------------------------------------------------------------
\* Freshness

(* The resolver starts with nothing cached and nobody calling. *)
LEMMA FreshInit == Init => FreshInv
<1> SUFFICES ASSUME Init PROVE FreshInv
  OBVIOUS
<1> USE ResolverAssumption
<1>1. (CHOOSE k \in Kind : TRUE) \in Kind
  OBVIOUS
<1>2. 0 \in 0..MaxSchema /\ None \in 0..None /\ 0 \in Nat
  OBVIOUS
<1>3. TypeOK
  <2>1. published \in [Kind -> 0..MaxSchema] /\ cache \in [Kind -> 0..None]
    BY <1>2 DEF Init
  <2>2. events \in Seq([kind : Kind, schema : 0..MaxSchema])
    BY DEF Init
  <2>3. gvk \in [Caller -> Kind] /\ pc \in [Caller -> {"idle", "lookup", "lock", "fetch", "store"}]
    BY <1>1 DEF Init
  <2>4. /\ fetched \in [Caller -> 0..MaxSchema] /\ atCall \in [Caller -> 0..MaxSchema]
        /\ result \in [Caller -> 0..None] /\ calls \in Nat
    BY <1>2 DEF Init
  <2>5. lock \in Caller \cup {Free}
        /\ \A c \in Caller : pc[c] \in {"fetch", "store"} <=> lock = c
    BY DEF Init
  <2> QED
    BY <2>1, <2>2, <2>3, <2>4, <2>5 DEF TypeOK
<1>4. CacheBehind /\ CallBehind /\ StoreFresh
  BY DEF Init, CacheBehind, CallBehind, StoreFresh
<1> QED
  BY <1>3, <1>4 DEF FreshInv

(* A change of a CRD makes discovery newer, never older; so what was behind *)
(* it stays behind it.                                                      *)
LEMMA FreshCrdChange ==
  ASSUME FreshInv, NEW k \in Kind, CrdChange(k)
  PROVE  CacheBehind' /\ CallBehind' /\ StoreFresh'
<1> USE ResolverAssumption
<1>1. published \in [Kind -> 0..MaxSchema] /\ cache \in [Kind -> 0..None]
      /\ gvk \in [Caller -> Kind] /\ atCall \in [Caller -> 0..MaxSchema]
      /\ fetched \in [Caller -> 0..MaxSchema]
  BY DEF FreshInv, TypeOK
<1>2. \A j \in Kind : published[j] \in Nat /\ published'[j] \in Nat
                       /\ published[j] <= published'[j]
  BY <1>1 DEF CrdChange
<1>3. UNCHANGED <<cache, pc, gvk, fetched, atCall>>
  BY DEF CrdChange, callVars
<1>4. CacheBehind'
  BY <1>1, <1>2, <1>3 DEF FreshInv, CacheBehind
<1>5. CallBehind'
  BY <1>1, <1>2, <1>3 DEF FreshInv, CallBehind
<1>6. StoreFresh'
  BY <1>1, <1>2, <1>3 DEF FreshInv, StoreFresh
<1> QED
  BY <1>4, <1>5, <1>6

(* A purge of the cache needs the lock, so it meets no caller that is about *)
(* to store what it fetched.                                                *)
LEMMA FreshPurge ==
  ASSUME FreshInv, HandleCrdEvent
  PROVE  CacheBehind' /\ CallBehind' /\ StoreFresh'
<1> USE ResolverAssumption
<1>1. \A c \in Caller : pc[c] # "store"
  BY DEF FreshInv, TypeOK, HandleCrdEvent
<1>2. UNCHANGED <<published, pc, gvk, fetched, atCall>>
  BY DEF HandleCrdEvent, callVars
<1>3. \A k \in Kind : cache'[k] = None \/ cache'[k] = cache[k]
  BY DEF HandleCrdEvent
<1>4. CacheBehind'
  BY <1>2, <1>3 DEF FreshInv, CacheBehind
<1>5. CallBehind'
  BY <1>2 DEF FreshInv, CallBehind
<1>6. StoreFresh'
  BY <1>1, <1>2 DEF StoreFresh
<1> QED
  BY <1>4, <1>5, <1>6

(* A caller that fetches asks discovery while it holds the lock: the answer *)
(* is as new as anything cached, and as new as what was published when the  *)
(* call began.                                                              *)
LEMMA FreshFetch ==
  ASSUME FreshInv, NEW c \in Caller, ResolveFetch(c) \/ ResolveFetchFails(c)
  PROVE  CacheBehind' /\ CallBehind' /\ StoreFresh'
<1> USE ResolverAssumption
<1>1. published \in [Kind -> 0..MaxSchema] /\ cache \in [Kind -> 0..None]
      /\ gvk \in [Caller -> Kind] /\ atCall \in [Caller -> 0..MaxSchema]
      /\ fetched \in [Caller -> 0..MaxSchema] /\ DOMAIN pc = Caller
  BY DEF FreshInv, TypeOK
<1>2. UNCHANGED <<published, cache, gvk, atCall>> /\ pc[c] = "fetch"
      /\ pc' = [pc EXCEPT ![c] = "store"]
  BY DEF ResolveFetch, ResolveFetchFails
<1>3. fetched'[c] = published[gvk[c]] \/ fetched'[c] = 0
  BY <1>1 DEF ResolveFetch, ResolveFetchFails
<1>4. \A d \in Caller : d # c => fetched'[d] = fetched[d] /\ pc'[d] = pc[d]
  BY <1>1 DEF ResolveFetch, ResolveFetchFails
<1>5. CacheBehind'
  BY <1>2 DEF FreshInv, CacheBehind
<1>6. CallBehind'
  BY <1>1, <1>2, <1>4 DEF FreshInv, CallBehind
<1>7. StoreFresh'
  <2> SUFFICES ASSUME NEW d \in Caller, pc'[d] = "store"
               PROVE  /\ fetched'[d] <= published[gvk[d]]
                      /\ fetched'[d] # 0 =>
                            /\ atCall[d] <= fetched'[d]
                            /\ cache[gvk[d]] # None => cache[gvk[d]] <= fetched'[d]
    BY <1>2 DEF StoreFresh
  <2>1. CASE d = c
    <3>1. atCall[c] <= published[gvk[c]]
          /\ (cache[gvk[c]] # None => cache[gvk[c]] <= published[gvk[c]])
          /\ published[gvk[c]] \in Nat
      BY <1>1, <1>2 DEF FreshInv, CallBehind, CacheBehind
    <3> QED
      BY <1>3, <2>1, <3>1
  <2>2. CASE d # c
    BY <1>4, <2>2 DEF FreshInv, StoreFresh
  <2> QED
    BY <2>1, <2>2
<1> QED
  BY <1>5, <1>6, <1>7

(* A store is done by the one caller that holds the lock. *)
LEMMA FreshStore ==
  ASSUME FreshInv, NEW c \in Caller, ResolveStore(c)
  PROVE  CacheBehind' /\ CallBehind' /\ StoreFresh'
<1> USE ResolverAssumption
<1>1. cache \in [Kind -> 0..None] /\ gvk \in [Caller -> Kind]
      /\ DOMAIN pc = Caller /\ DOMAIN result = Caller
  BY DEF FreshInv, TypeOK
<1>2. UNCHANGED <<published, gvk, atCall, fetched>> /\ pc[c] = "store"
      /\ pc' = [pc EXCEPT ![c] = "idle"]
      /\ cache' = [cache EXCEPT ![gvk[c]] = fetched[c]]
  BY DEF ResolveStore
<1>3. \A d \in Caller : pc'[d] # "store"
  BY <1>1, <1>2 DEF FreshInv, TypeOK
<1>4. fetched[c] <= published[gvk[c]]
  BY <1>2 DEF FreshInv, StoreFresh
<1>5. CacheBehind'
  BY <1>1, <1>2, <1>4 DEF FreshInv, CacheBehind
<1>6. CallBehind'
  BY <1>1, <1>2 DEF FreshInv, CallBehind
<1>7. StoreFresh'
  BY <1>3 DEF StoreFresh
<1> QED
  BY <1>5, <1>6, <1>7

(* No step makes the cache, a running call or a fetched schema inconsistent *)
(* with discovery.                                                          *)
LEMMA FreshStep == FreshInv /\ [Next]_vars => FreshInv'
<1> SUFFICES ASSUME FreshInv, [Next]_vars PROVE FreshInv'
  OBVIOUS
<1> USE ResolverAssumption
<1>0. TypeOK'
  BY TypeStep DEF FreshInv
<1>1. DOMAIN pc = Caller /\ DOMAIN gvk = Caller /\ DOMAIN atCall = Caller
      /\ \A k \in Kind : published[k] \in Nat
  BY DEF FreshInv, TypeOK
<1>2. SUFFICES CacheBehind' /\ CallBehind' /\ StoreFresh'
  BY <1>0 DEF FreshInv
<1>3. ASSUME NEW c \in Caller, NEW k \in Kind, ResolveCall(c, k)
      PROVE  CacheBehind' /\ CallBehind' /\ StoreFresh'
  <2>1. UNCHANGED <<published, cache, fetched>>
    BY <1>3 DEF ResolveCall
  <2>2. \A d \in Caller : d # c => pc'[d] = pc[d] /\ gvk'[d] = gvk[d] /\ atCall'[d] = atCall[d]
    BY <1>1, <1>3 DEF ResolveCall
  <2>3. pc'[c] = "lookup" /\ gvk'[c] = k /\ atCall'[c] = published[k]
    BY <1>1, <1>3 DEF ResolveCall
  <2>4. CacheBehind'
    BY <2>1 DEF FreshInv, CacheBehind
  <2>5. CallBehind'
    BY <1>1, <2>1, <2>2, <2>3 DEF FreshInv, CallBehind
  <2>6. StoreFresh'
    BY <2>1, <2>2, <2>3 DEF FreshInv, StoreFresh
  <2> QED
    BY <2>4, <2>5, <2>6
<1>4. ASSUME NEW c \in Caller, ResolveHit(c) \/ ResolveMiss(c) \/ ResolveLock(c)
      PROVE  CacheBehind' /\ CallBehind' /\ StoreFresh'
  <2>1. UNCHANGED <<published, cache, fetched, gvk, atCall>>
    BY <1>4 DEF ResolveHit, ResolveMiss, ResolveLock
  <2>2. \A d \in Caller : (pc'[d] = pc[d]) \/ (pc[d] # "idle" /\ pc'[d] # "store")
    BY <1>1, <1>4 DEF ResolveHit, ResolveMiss, ResolveLock
  <2>3. CacheBehind'
    BY <2>1 DEF FreshInv, CacheBehind
  <2>4. CallBehind'
    BY <2>1, <2>2 DEF FreshInv, CallBehind
  <2>5. StoreFresh'
    BY <2>1, <2>2 DEF FreshInv, StoreFresh
  <2> QED
    BY <2>3, <2>4, <2>5
<1>5. ASSUME UNCHANGED vars PROVE CacheBehind' /\ CallBehind' /\ StoreFresh'
  BY <1>5 DEF FreshInv, CacheBehind, CallBehind, StoreFresh, vars
<1> QED
  BY <1>3, <1>4, <1>5, FreshCrdChange, FreshPurge, FreshFetch, FreshStore
     DEF Next, Resolve

-----------------------------------------------------------------------------
\* The theorems

(* The invariant holds in every reachable state. *)
THEOREM FreshInvariance == Spec => []FreshInv
  BY FreshInit, FreshStep, PTL DEF Spec

(* For every number of kinds and callers: every variable has its type, and  *)
(* the lock is held exactly by the caller that is between Lock and Unlock   *)
(* of ResolveSchema.                                                        *)
THEOREM ResolverTypeCorrect == Spec => []TypeOK
<1>1. FreshInv => TypeOK
  BY DEF FreshInv
<1> QED
  BY <1>1, FreshInvariance, PTL

(* For every number of kinds and callers: a call that goes to discovery     *)
(* returns an error or a schema no older than the one published when the    *)
(* call began, and never puts an older schema over a newer cached one,      *)
(* though callers that all miss fetch one after the other.                  *)
THEOREM MissesAreFresh == Spec => MissIsFresh
<1> DEFINE Fresh ==
      \A c \in Caller : (pc[c] = "store" /\ pc'[c] = "idle" /\ result'[c] # 0)
          => /\ result'[c] >= atCall[c]
             /\ cache[gvk[c]] # None => cache[gvk[c]] <= cache'[gvk[c]]
<1>1. FreshInv /\ [Next]_vars => [Fresh]_vars
  <2> SUFFICES ASSUME FreshInv, Next, NEW c \in Caller,
                      pc[c] = "store", pc'[c] = "idle", result'[c] # 0
               PROVE  /\ result'[c] >= atCall[c]
                      /\ cache[gvk[c]] # None => cache[gvk[c]] <= cache'[gvk[c]]
    BY Zenon
  <2> USE ResolverAssumption
  <2>1. DOMAIN pc = Caller /\ DOMAIN result = Caller /\ DOMAIN cache = Kind
        /\ gvk[c] \in Kind /\ atCall[c] \in Nat /\ fetched[c] \in Nat
    BY DEF FreshInv, TypeOK
  <2>2. ResolveStore(c)
    <3>1. ~(\E k \in Kind : CrdChange(k)) /\ ~HandleCrdEvent
      BY DEF CrdChange, HandleCrdEvent, callVars
    <3>2. ASSUME NEW d \in Caller, NEW k \in Kind, ResolveCall(d, k) PROVE FALSE
      BY <2>1, <3>2 DEF ResolveCall
    <3>3. ASSUME NEW d \in Caller, Resolve(d) PROVE ResolveStore(d) /\ d = c
      BY <2>1, <3>3 DEF Resolve, ResolveHit, ResolveMiss, ResolveLock, ResolveFetch,
            ResolveFetchFails, ResolveStore
    <3> QED
      BY <3>1, <3>2, <3>3 DEF Next
  <2>3. result'[c] = fetched[c] /\ cache'[gvk[c]] = fetched[c]
    BY <2>1, <2>2 DEF ResolveStore
  <2> QED
    BY <2>1, <2>3 DEF FreshInv, StoreFresh
<1> QED
  BY <1>1, FreshInvariance, PTL DEF Spec, MissIsFresh

=============================================================================
