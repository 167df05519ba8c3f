------------------------ MODULE InformerFactoryProofs ------------------------
(***************************************************************************)
(* Theorems about InformerFactory, for any set of types and any number of  *)
(* users.                                                                  *)
(***************************************************************************)
EXTENDS InformerFactory, TLAPS, SequenceTheorems, FiniteSetTheorems

-----------------------------------------------------------------------------
\* The inductive invariant

(* The one informer of a type. *)
Only(t) == <<t, 1>>

(* A goroutine of Start that runs the informer of t. *)
Run(t) == [informer : {Only(t)}, stop : User, running : BOOLEAN]

(* The types whose informer is running. *)
Running == {t \in Type : \E i \in DOMAIN runs[t] : runs[t][i].running}

(* InformerFor has made at most one informer of a type, and Start has       *)
(* launched it once or not at all.                                          *)
OnceOK ==
    /\ informers \in [Type -> {0, 1}]
    /\ startedInformers \subseteq Requested
    /\ DOMAIN runs = Type
    /\ \A t \in Type : /\ runs[t] \in Seq(Run(t))
                       /\ Len(runs[t]) = IF t \in startedInformers THEN 1 ELSE 0
    /\ synced \subseteq {Only(t) : t \in Type}

(* The WaitGroup counts the running informers. A call of Shutdown that has  *)
(* returned has found none, and there will be none: Start looks at          *)
(* shuttingDown.                                                            *)
DownOK ==
    /\ wg = Cardinality(Running)
    /\ shuttingDown \in BOOLEAN
    /\ down \in BOOLEAN
    /\ \A u \in User : pc[u] = "shutdown" => shuttingDown
    /\ down => shuttingDown /\ Running = {}

(* What a user relies on was started by its call of Start at the latest;    *)
(* while it waits, each such informer has synced, is still to be looked at, *)
(* or was given up.                                                         *)
CallsOK ==
    /\ closed \subseteq User
    /\ pc \in [User -> {"idle", "shutdown", "sync"}]
    /\ waits \in [User -> SUBSET Type]
    /\ failed \in [User -> SUBSET Type]
    /\ relies \in [User -> SUBSET {Only(t) : t \in startedInformers}]
    /\ \A u \in User : \A t \in Type :
          (pc[u] = "sync" /\ Only(t) \in relies[u])
          => t \in waits[u] \/ t \in failed[u] \/ Only(t) \in synced

(* The inductive invariant of the factory. *)
FInv == OnceOK /\ DownOK /\ CallsOK

(* Nothing has been asked for. *)
LEMMA InitFactory == Init => FInv
<1> SUFFICES ASSUME Init PROVE FInv
  OBVIOUS
<1>1. \A t \in Type : runs[t] = <<>> /\ <<>> \in Seq(Run(t)) /\ Len(<<>>) = 0
  BY EmptySeq DEF Init
<1>2. \A t \in Type : DOMAIN runs[t] = {}
  BY <1>1
<1>3. OnceOK
  BY <1>1 DEF Init, OnceOK, Requested
<1>4. Running = {}
  BY <1>2 DEF Running
<1>5. DownOK
  BY <1>4, FS_EmptySet DEF Init, DownOK
<1>6. CallsOK
  BY DEF Init, CallsOK
<1> QED
  BY <1>3, <1>5, <1>6 DEF FInv

(* Start has launched one goroutine for a type it has started, none for any *)
(* other.                                                                   *)
LEMMA Goroutines ==
    ASSUME OnceOK, NEW t \in Type
    PROVE  /\ runs[t] \in Seq(Run(t))
           /\ DOMAIN runs[t] = IF t \in startedInformers THEN {1} ELSE {}
           /\ t \in Running <=> t \in startedInformers /\ runs[t][1].running
           /\ t \in startedInformers => runs[t][1] \in Run(t)
<1>1. runs[t] \in Seq(Run(t)) /\ Len(runs[t]) = IF t \in startedInformers THEN 1 ELSE 0
  BY DEF OnceOK
<1>2. DOMAIN runs[t] = 1..Len(runs[t])
  BY <1>1, LenProperties
<1>3. DOMAIN runs[t] = IF t \in startedInformers THEN {1} ELSE {}
  <2>1. 1..1 = {1} /\ 1..0 = {}
    OBVIOUS
  <2>2. CASE t \in startedInformers
    BY <1>1, <1>2, <2>1, <2>2
  <2>3. CASE t \notin startedInformers
    BY <1>1, <1>2, <2>1, <2>3
  <2> QED
    BY <2>2, <2>3
<1>4. t \in startedInformers => runs[t][1] \in Run(t)
  BY <1>1, ElementOfSeq
<1> QED
  BY <1>1, <1>3, <1>4 DEF Running

(* Every informer that users hold is the only one of its type. *)
LEMMA GivenOnly ==
    ASSUME OnceOK
    PROVE  Given = {Only(t) : t \in Requested}
<1>1. ASSUME NEW t \in Type
      PROVE  {t} \X (1..informers[t]) = IF t \in Requested THEN {Only(t)} ELSE {}
  <2>1. informers[t] = 0 \/ informers[t] = 1
    BY DEF OnceOK
  <2>2. 1..1 = {1} /\ 1..0 = {}
    OBVIOUS
  <2>3. CASE informers[t] = 0
    <3>1. {t} \X {} = {} /\ t \notin Requested
      BY <2>3 DEF Requested
    <3> QED
      BY <2>2, <2>3, <3>1
  <2>4. CASE informers[t] = 1
    <3>1. {t} \X {1} = {<<t, 1>>} /\ t \in Requested
      BY <2>4 DEF Requested
    <3> QED
      BY <2>2, <2>4, <3>1 DEF Only
  <2> QED
    BY <2>1, <2>3, <2>4
<1>2. Given = UNION {IF t \in Requested THEN {Only(t)} ELSE {} : t \in Type}
  BY <1>1 DEF Given
<1>3. Requested \subseteq Type
  BY DEF Requested
<1> QED
  BY <1>2, <1>3

(* The sets of types are finite. *)
LEMMA FiniteTypes ==
    ASSUME NEW S \in SUBSET Type
    PROVE  /\ IsFiniteSet(S)
           /\ Cardinality(S) \in Nat
           /\ Cardinality(S) <= Cardinality(Type)
           /\ Cardinality(Type) \in Nat
           /\ Cardinality(S) = 0 <=> S = {}
BY FactoryAssumption, FS_Subset, FS_CardinalityType, FS_EmptySet

-----------------------------------------------------------------------------
\* The steps

(* InformerFor keeps the informer that is there. *)
LEMMA InformerForKeeps ==
    ASSUME FInv, NEW u \in User, NEW t \in Type, InformerFor(u, t)
    PROVE  FInv'
<1>1. /\ informers' \in [Type -> {0, 1}]
      /\ \A v \in Type : informers[v] # 0 => informers'[v] # 0
      /\ UNCHANGED <<startedInformers, wg, shuttingDown, informerVars, callVars, historyVars>>
  BY DEF InformerFor, FInv, OnceOK
<1>2. Running' = Running
  BY <1>1 DEF Running, informerVars
<1>3. OnceOK'
  BY <1>1 DEF FInv, OnceOK, Requested, informerVars, Run
<1>4. DownOK'
  BY <1>1, <1>2 DEF FInv, DownOK, callVars, historyVars
<1>5. CallsOK'
  BY <1>1 DEF FInv, CallsOK, informerVars, callVars, historyVars
<1> QED
  BY <1>3, <1>4, <1>5 DEF FInv

(* Start launches the informers that were requested since. *)
LEMMA StartKeeps ==
    ASSUME FInv, NEW u \in User, Start(u)
    PROVE  FInv'
<1> DEFINE types == Requested \ startedInformers
<1>1. /\ pc[u] = "idle" /\ ~shuttingDown
      /\ wg' = wg + Cardinality(types)
      /\ runs' = [t \in Type |->
                    IF t \notin types THEN runs[t]
                    ELSE Append(runs[t], [informer |-> Informer(t), stop |-> u,
                                          running |-> TRUE])]
      /\ startedInformers' = Requested
      /\ relies' = [relies EXCEPT ![u] = Given]
      /\ UNCHANGED <<informers, shuttingDown, synced, closed, callVars, down>>
  BY DEF Start, Launch
<1>2. types \subseteq Type /\ startedInformers \subseteq Requested /\ Requested \subseteq Type
  BY DEF FInv, OnceOK, Requested
<1>3. Requested' = Requested
  BY <1>1 DEF Requested
<1> HIDE DEF types
<1>4. ASSUME NEW t \in types
      PROVE  /\ runs'[t] \in Seq(Run(t)) /\ Len(runs'[t]) = 1
             /\ runs'[t][1].running /\ t \notin Running
  <2>1. t \in Type /\ t \in Requested /\ t \notin startedInformers
    BY <1>2, <1>4 DEF types
  <2>2. runs[t] \in Seq(Run(t)) /\ Len(runs[t]) = 0 /\ t \notin Running
    BY <2>1, Goroutines DEF FInv, OnceOK
  <2>3. Informer(t) = Only(t)
    BY <2>1 DEF Informer, Only, Requested, FInv, OnceOK
  <2> DEFINE r == [informer |-> Informer(t), stop |-> u, running |-> TRUE]
  <2>4. r \in Run(t) /\ r.running
    BY <2>3 DEF Run
  <2>5. runs'[t] = Append(runs[t], r)
    BY <1>1, <1>4, <2>1
  <2> HIDE DEF r
  <2>6. /\ Append(runs[t], r) \in Seq(Run(t))
        /\ Len(Append(runs[t], r)) = 1
        /\ Append(runs[t], r)[1] = r
    BY <2>2, <2>4, AppendProperties
  <2> QED
    BY <2>2, <2>4, <2>5, <2>6
<1>5. \A t \in Type \ types : runs'[t] = runs[t] /\ (t \in startedInformers' <=> t \in startedInformers)
  BY <1>1, <1>2 DEF types
<1>6. OnceOK'
  <2>1. \A t \in Type : /\ runs'[t] \in Seq(Run(t))
                        /\ Len(runs'[t]) = IF t \in startedInformers' THEN 1 ELSE 0
    <3>1. \A t \in types : t \in startedInformers'
      BY <1>1 DEF types
    <3> QED
      BY <1>4, <1>5, <3>1 DEF FInv, OnceOK
  <2>2. startedInformers' \subseteq Requested' /\ DOMAIN runs' = Type
    BY <1>1, <1>3
  <2> QED
    BY <1>1, <2>1, <2>2 DEF FInv, OnceOK, Run
<1>7. Running' = Running \cup types
  <2>1. \A t \in types : t \in Running'
    <3> TAKE t \in types
    <3>1. 1 \in DOMAIN runs'[t]
      BY <1>4, LenProperties
    <3> QED
      BY <1>2, <1>4, <3>1 DEF Running
  <2>2. \A t \in Type \ types : t \in Running' <=> t \in Running
    BY <1>5 DEF Running
  <2>3. Running \subseteq Type /\ Running' \subseteq Type
    BY DEF Running
  <2> QED
    BY <1>2, <2>1, <2>2, <2>3
<1>8. Cardinality(Running') = Cardinality(Running) + Cardinality(types)
  <2>1. Running \cap types = {} /\ Running \subseteq Type
    BY <1>4 DEF Running
  <2>2. IsFiniteSet(Running) /\ IsFiniteSet(types)
    BY <1>2, <2>1, FiniteTypes
  <2>3. Cardinality(Running) \in Nat /\ Cardinality(types) \in Nat /\ Cardinality({}) = 0
    BY <2>2, FS_CardinalityType, FS_EmptySet
  <2>4. Cardinality(Running \cup types)
        = Cardinality(Running) + Cardinality(types) - Cardinality(Running \cap types)
    BY <2>2, FS_Union
  <2>5. Cardinality(Running') = Cardinality(Running \cup types)
    BY <1>7
  <2>6. Cardinality(Running \cap types) = 0
    BY <2>1, <2>3
  <2> QED
    BY <2>3, <2>4, <2>5, <2>6
<1>9. DownOK'
  BY <1>1, <1>8 DEF FInv, DownOK, callVars
<1>10. CallsOK'
  <2>1. Given = {Only(t) : t \in startedInformers'}
    BY <1>1, GivenOnly DEF FInv
  <2>2. relies' \in [User -> SUBSET {Only(t) : t \in startedInformers'}]
    BY <1>1, <1>2, <2>1 DEF FInv, CallsOK
  <2>3. \A v \in User : pc[v] = "sync" => relies'[v] = relies[v]
    BY <1>1 DEF FInv, CallsOK
  <2> QED
    BY <1>1, <2>2, <2>3 DEF FInv, CallsOK, callVars
<1> QED
  BY <1>6, <1>9, <1>10 DEF FInv

(* The calls that wait. *)
LEMMA CallKeeps ==
    ASSUME FInv, NEW u \in User,
           Shutdown(u) \/ WaitForCacheSync(u) \/ Waiting(u)
    PROVE  FInv'
<1>1. UNCHANGED <<informers, startedInformers, wg, runs, synced, closed, relies>>
  BY DEF Shutdown, WaitForCacheSync, Waiting, ShutdownReturn, WaitNext, WaitReturn,
         factoryVars, informerVars, historyVars
<1>2. OnceOK' /\ Running' = Running
  BY <1>1 DEF FInv, OnceOK, Requested, Running, Run
<1>3. DownOK'
  <2>1. Running \subseteq Type
    BY DEF Running
  <2>2. wg = 0 => Running = {}
    BY <2>1, FiniteTypes DEF FInv, DownOK
  <2>3. wg' = Cardinality(Running')
    BY <1>1, <1>2 DEF FInv, DownOK
  <2>4. CASE Shutdown(u)
    BY <1>2, <2>3, <2>4 DEF FInv, DownOK, CallsOK, Shutdown, historyVars
  <2>5. CASE ShutdownReturn(u)
    BY <1>2, <2>2, <2>3, <2>5 DEF FInv, DownOK, CallsOK, ShutdownReturn, factoryVars
  <2>6. CASE WaitForCacheSync(u) \/ WaitNext(u) \/ WaitReturn(u)
    <3>1. /\ UNCHANGED <<shuttingDown, down>>
          /\ \A v \in User : pc'[v] = "shutdown" => pc[v] = "shutdown"
      BY <2>6 DEF FInv, CallsOK, WaitForCacheSync, WaitNext, WaitReturn, factoryVars,
                  historyVars
    <3> QED
      BY <1>2, <2>3, <3>1 DEF FInv, DownOK
  <2> QED
    BY <2>4, <2>5, <2>6 DEF Waiting
<1>4. CASE Shutdown(u) \/ ShutdownReturn(u)
  BY <1>1, <1>2, <1>3, <1>4 DEF FInv, CallsOK, Shutdown, ShutdownReturn
<1>5. CASE WaitForCacheSync(u)
  <2>1. /\ pc' = [pc EXCEPT ![u] = "sync"]
        /\ waits' = [waits EXCEPT ![u] = Requested \cap startedInformers]
        /\ UNCHANGED failed
    BY <1>5 DEF WaitForCacheSync
  <2>2. startedInformers \subseteq Requested /\ Requested \subseteq Type
    BY DEF FInv, OnceOK, Requested
  <2>3. \A t \in Type : Only(t) \in relies[u] => t \in startedInformers
    BY DEF FInv, CallsOK, Only
  <2>4. waits'[u] = startedInformers /\ \A v \in User \ {u} : waits'[v] = waits[v]
    BY <2>1, <2>2 DEF FInv, CallsOK
  <2> QED
    BY <1>1, <1>2, <1>3, <2>1, <2>2, <2>3, <2>4 DEF FInv, CallsOK
<1>6. CASE WaitNext(u)
  <2>1. PICK t \in waits[u] :
           /\ waits' = [waits EXCEPT ![u] = @ \ {t}]
           /\ failed' = IF Informer(t) \in synced THEN failed
                        ELSE [failed EXCEPT ![u] = @ \cup {t}]
    BY <1>6 DEF WaitNext
  <2>2. t \in Type /\ UNCHANGED pc
    BY <1>6 DEF WaitNext, FInv, CallsOK
  <2>3. Informer(t) \in synced => Informer(t) = Only(t)
    BY <2>2 DEF FInv, OnceOK, Informer, Only
  <2>4. /\ waits' \in [User -> SUBSET Type] /\ failed' \in [User -> SUBSET Type]
        /\ waits'[u] = waits[u] \ {t}
        /\ Informer(t) \in synced \/ t \in failed'[u]
        /\ \A v \in User : failed[v] \subseteq failed'[v]
        /\ \A v \in User \ {u} : waits'[v] = waits[v]
    BY <2>1, <2>2 DEF FInv, CallsOK
  <2> QED
    BY <1>1, <1>2, <1>3, <2>2, <2>3, <2>4 DEF FInv, CallsOK
<1>7. CASE WaitReturn(u)
  BY <1>1, <1>2, <1>3, <1>7 DEF FInv, CallsOK, WaitReturn
<1> QED
  BY <1>4, <1>5, <1>6, <1>7 DEF Waiting

(* The informers' goroutines. *)
LEMMA GoroutineKeeps ==
    ASSUME FInv, NEW t \in Type, InformerSync(t) \/ RunEnd(t)
    PROVE  FInv'
<1>1. CASE InformerSync(t)
  <2>1. PICK i \in DOMAIN runs[t] : synced' = synced \cup {runs[t][i].informer}
    BY <1>1 DEF InformerSync
  <2>2. runs[t][i].informer = Only(t)
    BY <2>1, Goroutines DEF FInv, Run
  <2>3. UNCHANGED <<factoryVars, runs, closed, callVars, historyVars>>
    BY <1>1 DEF InformerSync
  <2>4. OnceOK' /\ Running' = Running
    BY <2>1, <2>2, <2>3 DEF FInv, OnceOK, Requested, Running, Run, factoryVars
  <2>5. DownOK' /\ CallsOK'
    BY <2>1, <2>3, <2>4 DEF FInv, DownOK, CallsOK, factoryVars, callVars, historyVars
  <2> QED
    BY <2>4, <2>5 DEF FInv
<1>2. CASE RunEnd(t)
  <2>1. PICK i \in DOMAIN runs[t] :
           runs[t][i].running /\ runs' = [runs EXCEPT ![t][i].running = FALSE]
    BY <1>2 DEF RunEnd
  <2>2. /\ wg' = wg - 1
        /\ UNCHANGED <<informers, startedInformers, shuttingDown, synced, closed,
                       callVars, historyVars>>
    BY <1>2 DEF RunEnd
  <2>3. i = 1 /\ t \in startedInformers /\ t \in Running /\ runs[t][1] \in Run(t)
    BY <2>1, Goroutines DEF FInv
  <2> DEFINE r == [runs[t][1] EXCEPT !.running = FALSE]
  <2>4. r \in Run(t) /\ ~r.running
    BY <2>3 DEF Run
  <2>5. runs' = [runs EXCEPT ![t] = [runs[t] EXCEPT ![1] = r]]
    BY <2>1, <2>3
  <2> HIDE DEF r
  <2>6. /\ [runs[t] EXCEPT ![1] = r] \in Seq(Run(t))
        /\ Len([runs[t] EXCEPT ![1] = r]) = 1
        /\ [runs[t] EXCEPT ![1] = r][1] = r
    <3>1. runs[t] \in Seq(Run(t)) /\ Len(runs[t]) = 1
      BY <2>3 DEF FInv, OnceOK
    <3>2. 1 \in 1..Len(runs[t])
      BY <3>1
    <3> QED
      BY <2>4, <3>1, <3>2, ExceptSeq
  <2>7. /\ runs'[t] = [runs[t] EXCEPT ![1] = r]
        /\ \A v \in Type \ {t} : runs'[v] = runs[v]
        /\ DOMAIN runs' = Type
    BY <2>5 DEF FInv, OnceOK
  <2>8. OnceOK'
    <3>1. \A v \in Type : /\ runs'[v] \in Seq(Run(v))
                          /\ Len(runs'[v]) = IF v \in startedInformers THEN 1 ELSE 0
      BY <2>3, <2>6, <2>7 DEF FInv, OnceOK
    <3> QED
      BY <2>2, <2>7, <3>1 DEF FInv, OnceOK, Requested, Run
  <2>9. Running' = Running \ {t}
    <3>1. t \notin Running'
      <4>1. DOMAIN runs'[t] = {1}
        BY <2>6, <2>7, LenProperties
      <4> QED
        BY <2>4, <2>6, <2>7, <4>1 DEF Running
    <3>2. \A v \in Type \ {t} : v \in Running' <=> v \in Running
      BY <2>7 DEF Running
    <3> QED
      BY <3>1, <3>2 DEF Running
  <2>10. Cardinality(Running') = Cardinality(Running) - 1
    <3>1. IsFiniteSet(Running)
      BY FiniteTypes DEF Running
    <3> QED
      BY <2>3, <2>9, <3>1, FS_RemoveElement
  <2>11. DownOK'
    BY <2>2, <2>9, <2>10 DEF FInv, DownOK, callVars, historyVars
  <2>12. CallsOK'
    BY <2>2 DEF FInv, CallsOK, callVars, historyVars
  <2> QED
    BY <2>8, <2>11, <2>12 DEF FInv
<1> QED
  BY <1>1, <1>2

(* FInv is kept by every step. *)
LEMMA NextFactory == FInv /\ [Next]_vars => FInv'
<1> SUFFICES ASSUME FInv, [Next]_vars PROVE FInv'
  OBVIOUS
<1>1. CASE UNCHANGED vars \/ \E u \in User : CloseStop(u)
  <2>1. /\ UNCHANGED <<informers, startedInformers, wg, shuttingDown, runs, synced, pc,
                       waits, failed, relies, down>>
        /\ closed' \subseteq closed \cup User
    BY <1>1 DEF CloseStop, vars, factoryVars, informerVars, callVars, historyVars
  <2>2. OnceOK' /\ Running' = Running
    BY <2>1 DEF FInv, OnceOK, Requested, Running, Run
  <2>3. DownOK'
    BY <2>1, <2>2 DEF FInv, DownOK
  <2>4. CallsOK'
    BY <2>1 DEF FInv, CallsOK
  <2> QED
    BY <2>2, <2>3, <2>4 DEF FInv
<1> QED
  BY <1>1, InformerForKeeps, StartKeeps, CallKeeps, GoroutineKeeps DEF Next

-----------------------------------------------------------------------------
\* Theorems

(* FInv holds in every reachable state of the factory. *)
THEOREM FactoryInvariance == Spec => []FInv
BY InitFactory, NextFactory, PTL DEF Spec

(* Type correctness of factory.go's shared informers. *)
THEOREM FactoryTypeCorrect == Spec => []TypeOK
<1>1. FInv => TypeOK
  <2> SUFFICES ASSUME FInv PROVE TypeOK
    OBVIOUS
  <2>1. ASSUME NEW t \in Type, NEW i \in DOMAIN runs[t]
        PROVE  runs[t][i] \in [informer : {t} \X Nat, stop : User, running : BOOLEAN]
    <3>1. runs[t][i] \in Run(t)
      BY <2>1, Goroutines DEF FInv
    <3>2. Only(t) \in {t} \X Nat
      BY DEF Only
    <3> QED
      BY <3>1, <3>2 DEF Run
  <2>2. wg \in 0..Cardinality(Type)
    <3>1. Running \in SUBSET Type /\ wg = Cardinality(Running)
      BY DEF Running, FInv, DownOK
    <3> QED
      BY <3>1, FiniteTypes
  <2>3. synced \subseteq Type \X Nat
    BY DEF FInv, OnceOK, Only
  <2>4. relies \in [User -> SUBSET Given]
    <3>1. {Only(t) : t \in startedInformers} \subseteq Given
      BY GivenOnly DEF FInv, OnceOK
    <3> QED
      BY <3>1 DEF FInv, CallsOK
  <2>5. informers \in [Type -> Nat]
    BY DEF FInv, OnceOK
  <2> QED
    BY <2>1, <2>2, <2>3, <2>4, <2>5 DEF FInv, OnceOK, DownOK, CallsOK, TypeOK
<1> QED
  BY <1>1, FactoryInvariance, PTL

(* "This allows Start() to be called multiple times safely", for any number *)
(* of types and users.                                                      *)
THEOREM StartIsSafe == Spec => []OneRunPerInformer
<1>1. FInv => OneRunPerInformer
  <2> SUFFICES ASSUME FInv, NEW t \in Type
               PROVE  /\ Len(runs[t]) <= 1
                      /\ \A i \in DOMAIN runs[t] : \A informer \in Given :
                            informer[1] = t => informer = runs[t][i].informer
    BY DEF OneRunPerInformer
  <2>1. Len(runs[t]) <= 1
    <3>1. Len(runs[t]) = 1 \/ Len(runs[t]) = 0
      BY DEF FInv, OnceOK
    <3>2. 0 <= 1 /\ 1 <= 1
      OBVIOUS
    <3> QED
      BY <3>1, <3>2, Zenon
  <2>2. \A i \in DOMAIN runs[t] : runs[t][i].informer = Only(t)
    BY Goroutines DEF FInv, Run
  <2>3. \A informer \in Given : informer[1] = t => informer = Only(t)
    BY GivenOnly DEF FInv, Only
  <2> QED
    BY <2>1, <2>2, <2>3
<1> QED
  BY <1>1, FactoryInvariance, PTL

(* After a Shutdown has returned no informer runs, however many users race  *)
(* it with Start.                                                           *)
THEOREM ShutdownFinal == Spec => []ShutdownIsFinal
<1>1. FInv => ShutdownIsFinal
  BY DEF FInv, DownOK, Running, ShutdownIsFinal
<1> QED
  BY <1>1, FactoryInvariance, PTL

(* A user whose WaitForCacheSync reported no failure reads synced caches,   *)
(* whoever started them.                                                    *)
THEOREM SyncCovers == Spec => SyncCoversMine
<1>1. FInv /\ [Next]_vars
      => [\A u \in User : (pc[u] = "sync" /\ pc'[u] = "idle" /\ failed[u] = {})
                          => relies[u] \subseteq synced]_vars
  <2> SUFFICES ASSUME FInv, Next, NEW u \in User,
                      pc[u] = "sync", pc'[u] = "idle", failed[u] = {}
               PROVE  relies[u] \subseteq synced
    OBVIOUS
  <2>1. waits[u] = {}
    BY DEF Next, InformerFor, Start, Shutdown, WaitForCacheSync, Waiting, ShutdownReturn,
           WaitNext, WaitReturn, InformerSync, RunEnd, CloseStop, callVars, FInv, CallsOK
  <2>2. startedInformers \subseteq Type
    BY DEF FInv, OnceOK, Requested
  <2> QED
    BY <2>1, <2>2 DEF FInv, CallsOK
<1> QED
  BY <1>1, FactoryInvariance, PTL DEF Spec, SyncCoversMine

=============================================================================
