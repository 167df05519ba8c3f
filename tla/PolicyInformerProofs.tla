------------------------ MODULE PolicyInformerProofs ------------------------
(***************************************************************************)
(* Proofs about PolicyInformer: its type invariant, which says that the    *)
(* store holds only writes that converted, and that a reflector which has  *)
(* caught up mirrors the server outside the three gaps that                *)
(* TransformedClient opens.                                                *)
(*                                                                         *)
(* The mirror is not inductive.  A watch that ends resumes at the version  *)
(* of the last event it delivered, and the initial events come in no order *)
(* of their versions: the resumed watch may send again what the store has  *)
(* already.  So a stored version need not be that of the cursor; it is the *)
(* version after some change from the cursor on (SomeLater), and when the  *)
(* cursor reaches the end of the log only the newest is left.  A watch     *)
(* from no version has no cursor to compare with; there a stored object    *)
(* must still exist (WatchOK), and in its stream an object is either yet   *)
(* to come or absent until the first event is delivered (StreamOK).        *)
(***************************************************************************)
EXTENDS PolicyInformer, TLAPS

(* The changes of name n among the first i of the log l ... *)
Of(l, i, n) == {j \in 1..i : l[j].name = n}

(* ... the last of them ... *)
LastOf(l, i, n) == CHOOSE j \in Of(l, i, n) : \A m \in Of(l, i, n) : m <= j

(* ... and the version they leave the object with: At for any log. *)
Version(l, i, n) ==
    IF Of(l, i, n) = {} THEN 0
    ELSE IF l[LastOf(l, i, n)].type = "DELETED" THEN 0 ELSE LastOf(l, i, n)

(* Among the changes of a name there is a last one. *)
HasLast(l) ==
    \A i \in 0..Len(l), n \in Name :
        Of(l, i, n) # {} =>
            \E j \in Of(l, i, n) : \A m \in Of(l, i, n) : m <= j

PlaceOK ==
    /\ lastSync \in 0..Len(log)
    /\ cursor \in 0..Len(log)
    /\ phase = "stream" => lastSync <= cursor
    /\ phase = "stream" => \A n \in initial : Version(log, cursor, n) # 0
    /\ phase # "stream" => initial = {}

(* The store has n as it was after change i or after a later one. *)
SomeLater(n, i) == \E j \in i..Len(log) : store[n] = Version(log, j, n)

WatchOK ==
    (phase = "watch" /\ ~interrupted) =>
        \A n \in Name \ (gap \cup dropped) :
            /\ lastSync = 0 => (store[n] # 0 => Version(log, Len(log), n) # 0)
            /\ lastSync # 0 => SomeLater(n, lastSync)

StreamOK ==
    (phase = "stream" /\ ~interrupted) =>
        \A n \in Name \ (gap \cup dropped \cup initial) :
            /\ lastSync = 0 => store[n] = 0
            /\ SomeLater(n, cursor)

InformerInv == TypeOK /\ HasLast(log) /\ PlaceOK /\ WatchOK /\ StreamOK
-----------------------------------------------------------------------------
\* The history of the server

(* A log that grows still has a last change of every name that it changes:  *)
(* the new one, or the one it had.                                          *)
LEMMA HasLastAppend ==
  ASSUME NEW E, NEW l \in Seq(E), NEW e \in E, HasLast(l)
  PROVE  HasLast(Append(l, e))
<1> DEFINE a == Append(l, e)
<1>1. Len(a) = Len(l) + 1 /\ Len(l) \in Nat /\ (\A j \in 1..Len(l) : a[j] = l[j])
      /\ a[Len(l) + 1] = e
  OBVIOUS
<1> SUFFICES ASSUME NEW i \in 0..Len(a), NEW n \in Name, Of(a, i, n) # {}
             PROVE  \E j \in Of(a, i, n) : \A m \in Of(a, i, n) : m <= j
  BY DEF HasLast
<1> HIDE DEF a
<1>2. CASE i \in 0..Len(l)
  <2>1. Of(a, i, n) = Of(l, i, n)
    BY <1>1, <1>2 DEF Of
  <2> QED
    BY <1>2, <2>1 DEF HasLast
<1>3. CASE i = Len(l) + 1 /\ e.name = n
  <2>1. i \in Of(a, i, n) /\ \A m \in Of(a, i, n) : m <= i
    BY <1>1, <1>3 DEF Of
  <2> QED
    BY <2>1
<1>4. CASE i = Len(l) + 1 /\ e.name # n
  <2>1. Of(a, i, n) = Of(l, Len(l), n)
    BY <1>1, <1>4 DEF Of
  <2>2. Len(l) \in 0..Len(l)
    BY <1>1
  <2> QED
    BY <2>1, <2>2 DEF HasLast
<1> QED
  BY <1>1, <1>2, <1>3, <1>4

(* The last change of a name is one of its changes. *)
LEMMA LastIsOf ==
  ASSUME NEW l, NEW i \in 0..Len(l), NEW n \in Name, HasLast(l), Of(l, i, n) # {}
  PROVE  /\ LastOf(l, i, n) \in Of(l, i, n)
         /\ \A m \in Of(l, i, n) : m <= LastOf(l, i, n)
  BY DEF HasLast, LastOf

(* A version is 0 or the position of a write of that name in the log. *)
LEMMA VersionIsWrite ==
  ASSUME NEW E, NEW l \in Seq(E), NEW i \in 0..Len(l), NEW n \in Name, HasLast(l)
  PROVE  /\ Version(l, i, n) \in 0..i
         /\ Version(l, i, n) # 0 => /\ l[Version(l, i, n)].name = n
                                    /\ l[Version(l, i, n)].type # "DELETED"
<1>1. i \in Nat
  OBVIOUS
<1>2. CASE Of(l, i, n) = {}
  BY <1>1, <1>2 DEF Version
<1>3. CASE Of(l, i, n) # {}
  <2>1. LastOf(l, i, n) \in Of(l, i, n)
    BY <1>3, LastIsOf
  <2>2. LastOf(l, i, n) \in 1..i /\ l[LastOf(l, i, n)].name = n
    BY <2>1 DEF Of
  <2> QED
    BY <1>1, <1>3, <2>2 DEF Version
<1> QED
  BY <1>2, <1>3

(* A change decides the version of its own name and of no other. *)
LEMMA VersionStep ==
  ASSUME NEW E, NEW l \in Seq(E), NEW i \in 0..Len(l), i + 1 <= Len(l),
         NEW n \in Name, HasLast(l)
  PROVE  Version(l, i + 1, n) =
           IF l[i + 1].name = n THEN (IF l[i + 1].type = "DELETED" THEN 0 ELSE i + 1)
           ELSE Version(l, i, n)
<1>1. i \in Nat /\ i + 1 \in 0..Len(l)
  OBVIOUS
<1>2. CASE l[i + 1].name = n
  <2>1. i + 1 \in Of(l, i + 1, n)
    BY <1>1, <1>2 DEF Of
  <2>2. LastOf(l, i + 1, n) \in Of(l, i + 1, n) /\ i + 1 <= LastOf(l, i + 1, n)
    BY <1>1, <2>1, LastIsOf
  <2>3. LastOf(l, i + 1, n) = i + 1
    BY <1>1, <2>2 DEF Of
  <2> QED
    BY <1>2, <2>1, <2>3 DEF Version
<1>3. CASE l[i + 1].name # n
  <2>1. Of(l, i + 1, n) = Of(l, i, n)
    BY <1>1, <1>3 DEF Of
  <2>2. LastOf(l, i + 1, n) = LastOf(l, i, n)
    BY <2>1 DEF LastOf
  <2> QED
    BY <1>3, <2>1, <2>2 DEF Version
<1> QED
  BY <1>2, <1>3

(* What comes later does not change the past. *)
LEMMA VersionAppend ==
  ASSUME NEW E, NEW l \in Seq(E), NEW e \in E, NEW i \in 0..Len(l), NEW n \in Name,
         HasLast(l)
  PROVE  Version(Append(l, e), i, n) = Version(l, i, n)
<1> DEFINE a == Append(l, e)
<1>1. \A j \in 1..Len(l) : a[j] = l[j]
  OBVIOUS
<1> HIDE DEF a
<1>2. Of(a, i, n) = Of(l, i, n)
  BY <1>1 DEF Of
<1>3. LastOf(a, i, n) = LastOf(l, i, n)
  BY <1>2 DEF LastOf
<1>4. CASE Of(l, i, n) = {}
  BY <1>2, <1>4 DEF Version, a
<1>5. CASE Of(l, i, n) # {}
  <2>1. LastOf(l, i, n) \in Of(l, i, n)
    BY <1>5, LastIsOf
  <2>2. a[LastOf(l, i, n)] = l[LastOf(l, i, n)]
    BY <1>1, <2>1 DEF Of
  <2>3. Version(a, i, n) = Version(l, i, n)
    BY <1>2, <1>3, <1>5, <2>2 DEF Version
  <2> QED
    BY <2>3 DEF a
<1> QED
  BY <1>4, <1>5

(* The last change of a longer log decides. *)
LEMMA VersionLast ==
  ASSUME NEW E, NEW l \in Seq(E), NEW e \in E, NEW n \in Name, HasLast(l)
  PROVE  Version(Append(l, e), Len(l) + 1, n) =
           IF e.name = n THEN (IF e.type = "DELETED" THEN 0 ELSE Len(l) + 1)
           ELSE Version(l, Len(l), n)
<1> DEFINE a == Append(l, e)
<1>1. a \in Seq(E) /\ Len(a) = Len(l) + 1 /\ Len(l) \in Nat /\ a[Len(l) + 1] = e
  OBVIOUS
<1>2. HasLast(a)
  BY HasLastAppend
<1>3. Version(a, Len(l), n) = Version(l, Len(l), n)
  <2>1. Len(l) \in 0..Len(l)
    BY <1>1
  <2> QED
    BY <2>1, VersionAppend
<1> HIDE DEF a
<1>4. Len(l) \in 0..Len(a) /\ Len(l) + 1 <= Len(a)
  BY <1>1
<1>5. Version(a, Len(l) + 1, n) =
        IF a[Len(l) + 1].name = n
        THEN (IF a[Len(l) + 1].type = "DELETED" THEN 0 ELSE Len(l) + 1)
        ELSE Version(a, Len(l), n)
  BY <1>1, <1>2, <1>4, VersionStep
<1> QED
  BY <1>1, <1>3, <1>5 DEF a

(* The model's At is Version of the server's log. *)
LEMMA AtIsVersion ==
  /\ \A i : \A n \in Name : At(i)[n] = Version(log, i, n)
  /\ \A n \in Name : Now[n] = Version(log, Len(log), n)
  BY DEF At, Now, Version, LastOf, Of
-----------------------------------------------------------------------------
\* Steps of the server

Entry == [type : {"ADDED", "MODIFIED", "DELETED"}, name : Name, converts : BOOLEAN]

(* The server makes a change that the reflector is not told of yet; a       *)
(* deletion before a watch from no version is noted.                        *)
Grows(e) ==
    /\ log' = Append(log, e)
    /\ gap' \subseteq Name /\ gap \subseteq gap'
    /\ (phase = "watch" /\ lastSync = 0 /\ e.type = "DELETED") => e.name \in gap'
    /\ UNCHANGED <<compacted, phase, lastSync, store, initial, cursor, faults,
                   dropped, interrupted>>

(* A write or a deletion on the server leaves the store as current as it    *)
(* was, but for a name that is deleted where no event will say so.          *)
LEMMA GrowsStep ==
  ASSUME InformerInv, NEW e \in Entry, Grows(e)
  PROVE  InformerInv'
<1>1. log \in Seq(Entry) /\ Len(log) \in Nat /\ HasLast(log)
  BY DEF InformerInv, TypeOK, Entry
<1>2. log' \in Seq(Entry) /\ Len(log') = Len(log) + 1
      /\ (\A j \in 1..Len(log) : log'[j] = log[j])
  BY <1>1 DEF Grows
<1>3. HasLast(log)'
  <2>1. HasLast(Append(log, e))
    BY <1>1, HasLastAppend
  <2> QED
    BY <2>1 DEF Grows, HasLast, Of
<1>4. \A i \in 0..Len(log), n \in Name : Version(log', i, n) = Version(log, i, n)
  BY <1>1, VersionAppend DEF Grows
<1>5. \A n \in Name : n = e.name \/ Version(log', Len(log'), n) = Version(log, Len(log), n)
  BY <1>1, <1>2, VersionLast DEF Grows
<1>6. TypeOK'
  <2>1. store' \in [Name -> 0..Len(log')]
    BY <1>1, <1>2 DEF InformerInv, TypeOK, Grows
  <2>2. \A n \in Name : store[n] # 0 => store[n] \in 1..Len(log)
    BY <1>1 DEF InformerInv, TypeOK
  <2>3. \A n \in Name : store'[n] # 0 =>
          log'[store'[n]].name = n /\ log'[store'[n]].type # "DELETED" /\ To(store[n])'
    BY <1>2, <2>2, Zenon DEF InformerInv, TypeOK, To, Grows
  <2> QED
    BY <1>2, <2>1, <2>3 DEF InformerInv, TypeOK, Grows, Entry, To
<1>7. PlaceOK'
  <2>1. cursor \in 0..Len(log) /\ lastSync \in 0..Len(log)
    BY DEF InformerInv, PlaceOK
  <2>2. cursor' \in 0..Len(log') /\ lastSync' \in 0..Len(log')
    BY <1>1, <1>2, <2>1 DEF Grows
  <2>3. initial \subseteq Name
    BY DEF InformerInv, TypeOK
  <2> QED
    BY <1>4, <2>1, <2>2, <2>3 DEF InformerInv, PlaceOK, Grows
<1>8. \A n \in Name, i \in 0..Len(log) : SomeLater(n, i) => SomeLater(n, i)'
  <2> SUFFICES ASSUME NEW n \in Name, NEW i \in 0..Len(log),
                      NEW j \in i..Len(log), store[n] = Version(log, j, n)
               PROVE  \E h \in i..Len(log') : store'[n] = Version(log', h, n)
    BY DEF SomeLater
  <2>1. j \in 0..Len(log) /\ j \in i..Len(log')
    BY <1>1, <1>2
  <2> QED
    BY <1>4, <2>1 DEF Grows
<1>9. WatchOK'
  <2> SUFFICES ASSUME phase = "watch", ~interrupted, NEW n \in Name \ (gap' \cup dropped)
               PROVE  /\ lastSync = 0 => (store[n] # 0 => Version(log', Len(log'), n) # 0)
                      /\ lastSync # 0 => \A i : i = lastSync => SomeLater(n, i)'
    BY DEF WatchOK, Grows, SomeLater
  <2>1. n \in Name \ (gap \cup dropped)
    BY DEF Grows
  <2>2. lastSync = 0 => (store[n] # 0 => Version(log, Len(log), n) # 0)
    BY <2>1 DEF InformerInv, WatchOK
  <2>3. lastSync = 0 /\ n = e.name => Version(log', Len(log'), n) # 0
    <3>1. SUFFICES ASSUME lastSync = 0, n = e.name PROVE Version(log', Len(log'), n) # 0
      OBVIOUS
    <3>2. e.type # "DELETED"
      BY <3>1 DEF Grows
    <3>3. Version(log', Len(log'), n) = Len(log) + 1
      BY <1>1, <1>2, <3>1, <3>2, VersionLast DEF Grows
    <3> QED
      BY <1>1, <3>3
  <2>4. lastSync # 0 => SomeLater(n, lastSync) /\ lastSync \in 0..Len(log)
    BY <2>1 DEF InformerInv, WatchOK, PlaceOK
  <2> QED
    BY <1>5, <1>8, <2>2, <2>3, <2>4
<1>10. StreamOK'
  <2> SUFFICES ASSUME phase = "stream", ~interrupted,
                      NEW n \in Name \ (gap' \cup dropped \cup initial)
               PROVE  /\ lastSync = 0 => store[n] = 0
                      /\ \A i : i = cursor => SomeLater(n, i)'
    BY DEF StreamOK, Grows, SomeLater
  <2>1. n \in Name \ (gap \cup dropped \cup initial)
    BY DEF Grows
  <2>2. (lastSync = 0 => store[n] = 0) /\ SomeLater(n, cursor) /\ cursor \in 0..Len(log)
    BY <2>1 DEF InformerInv, StreamOK, PlaceOK
  <2> QED
    BY <1>8, <2>2
<1> QED
  BY <1>3, <1>6, <1>7, <1>9, <1>10 DEF InformerInv

(* Every operation of the API server keeps the invariant. *)
LEMMA ServerStep == InformerInv /\ Server => InformerInv'
<1> SUFFICES ASSUME InformerInv, Server PROVE InformerInv'
  OBVIOUS
<1>1. ASSUME NEW n \in Name, NEW ok \in Convertible, ApiWrite(n, ok) PROVE InformerInv'
  <2> DEFINE e == [type |-> IF Now[n] = 0 THEN "ADDED" ELSE "MODIFIED",
                   name |-> n, converts |-> ok]
  <2>1. ok \in BOOLEAN
    BY InformerAssumption
  <2>2. e \in Entry
    BY <2>1 DEF Entry
  <2>3. e.type # "DELETED"
    OBVIOUS
  <2>4. Grows(e)
    BY <1>1, <2>3 DEF ApiWrite, Grows, reflectorVars, InformerInv, TypeOK
  <2> QED
    BY <2>2, <2>4, GrowsStep
<1>2. ASSUME NEW n \in Name, ApiDelete(n) PROVE InformerInv'
  <2> DEFINE e == [type |-> "DELETED", name |-> n, converts |-> log[Now[n]].converts]
  <2>1. log[Now[n]].converts \in BOOLEAN
    <3>1. log \in Seq(Entry) /\ HasLast(log) /\ Len(log) \in 0..Len(log)
      BY DEF InformerInv, TypeOK, Entry
    <3>2. Now[n] \in 1..Len(log)
      <4>1. Version(log, Len(log), n) \in 0..Len(log)
        BY <3>1, VersionIsWrite
      <4> QED
        BY <1>2, <3>1, <4>1, AtIsVersion DEF ApiDelete
    <3>3. log[Now[n]] \in Entry
      BY <3>1, <3>2
    <3> QED
      BY <3>3 DEF Entry
  <2>2. e \in Entry
    BY <2>1 DEF Entry
  <2>3. Grows(e)
    BY <1>2 DEF ApiDelete, Grows, reflectorVars, InformerInv, TypeOK
  <2> QED
    BY <2>2, <2>3, GrowsStep
<1>3. ASSUME ApiCompact PROVE InformerInv'
  <2>1. compacted' \in Nat
    BY <1>3 DEF ApiCompact, InformerInv, TypeOK
  <2>2. UNCHANGED <<log, phase, lastSync, store, initial, cursor, faults, gap,
                    dropped, interrupted>>
    BY <1>3 DEF ApiCompact, reflectorVars
  <2>3. TypeOK'
    BY <2>1, <2>2 DEF InformerInv, TypeOK, To
  <2>4. HasLast(log)' /\ PlaceOK' /\ WatchOK' /\ StreamOK'
    BY <2>2 DEF InformerInv, HasLast, PlaceOK, WatchOK, StreamOK, SomeLater
  <2> QED
    BY <2>3, <2>4 DEF InformerInv
<1> QED
  BY <1>1, <1>2, <1>3 DEF Server
-----------------------------------------------------------------------------
\* Steps of the reflector

StoreOK ==
    /\ store \in [Name -> 0..Len(log)]
    /\ \A n \in Name : store[n] # 0 =>
          log[store[n]].name = n /\ log[store[n]].type # "DELETED" /\ To(store[n])

(* What the proofs below use of the log. *)
LEMMA LogFacts ==
  ASSUME InformerInv
  PROVE  log \in Seq(Entry) /\ Len(log) \in Nat /\ HasLast(log) /\ Len(log) \in 0..Len(log)
  BY DEF InformerInv, TypeOK, Entry

(* A list replaces the store with objects that exist and convert; a name it *)
(* leaves out, on a later page, is absent from the store.                   *)
LEMMA ListStep ==
  ASSUME InformerInv, ReflectorList
  PROVE  InformerInv'
<1>1. log \in Seq(Entry) /\ Len(log) \in Nat /\ HasLast(log) /\ Len(log) \in 0..Len(log)
  BY LogFacts
<1>2. \A n \in Name : /\ Now[n] \in 0..Len(log) /\ Now[n] = Version(log, Len(log), n)
                      /\ Now[n] # 0 => /\ log[Now[n]].name = n
                                       /\ log[Now[n]].type # "DELETED"
  BY <1>1, VersionIsWrite, AtIsVersion
<1>3. UNCHANGED <<log, compacted, initial, cursor, faults>> /\ phase' = "watch"
      /\ lastSync' = 0 /\ gap' = {} /\ dropped' = {} /\ interrupted' = FALSE
      /\ phase = "list"
  BY DEF ReflectorList, serverVars, ListResourceVersion
<1>4. \A n \in Name : store'[n] = 0 \/ (n \in Page(Now) /\ store'[n] = Now[n])
  BY DEF ReflectorList, ListContinues
<1>5. StoreOK'
  <2>1. store' \in [Name -> 0..Len(log)]
    BY <1>1, <1>2 DEF ReflectorList, ListContinues
  <2>2. \A n \in Name : store'[n] # 0 =>
          log[store'[n]].name = n /\ log[store'[n]].type # "DELETED" /\ log[store'[n]].converts
    BY <1>2, <1>4 DEF ReflectorList, ListSucceeds, To
  <2> QED
    BY <1>3, <2>1, <2>2 DEF StoreOK, To
<1>6. TypeOK'
  BY <1>3, <1>5 DEF InformerInv, TypeOK, StoreOK, To
<1>7. HasLast(log)' /\ PlaceOK' /\ StreamOK'
  BY <1>1, <1>3 DEF InformerInv, PlaceOK, StreamOK, HasLast
<1>8. WatchOK'
  BY <1>2, <1>3, <1>4 DEF WatchOK
<1> QED
  BY <1>6, <1>7, <1>8 DEF InformerInv

(* A watch begins at the last version seen, or from none with the objects   *)
(* that exist now.                                                          *)
LEMMA WatchStep ==
  ASSUME InformerInv, ReflectorWatch
  PROVE  InformerInv'
<1>1. log \in Seq(Entry) /\ Len(log) \in Nat /\ HasLast(log) /\ Len(log) \in 0..Len(log)
  BY LogFacts
<1>2. \A n \in Name : Now[n] = Version(log, Len(log), n)
  BY AtIsVersion
<1>3. UNCHANGED <<log, compacted, lastSync, store, faults, gap, dropped, interrupted>>
      /\ phase = "watch" /\ phase' = "stream"
  BY DEF ReflectorWatch, serverVars
<1>4. lastSync = 0 => initial' = Existing(Now) /\ cursor' = Len(log)
  BY DEF ReflectorWatch
<1>5. lastSync # 0 => initial' = {} /\ cursor' = lastSync
  BY DEF ReflectorWatch
<1>6. lastSync \in 0..Len(log)
  BY DEF InformerInv, PlaceOK
<1>7. TypeOK'
  <2>1. initial' \subseteq Name /\ cursor' \in Nat
    BY <1>1, <1>4, <1>5, <1>6 DEF Existing
  <2> QED
    BY <1>3, <2>1 DEF InformerInv, TypeOK, To
<1>8. PlaceOK'
  <2>1. cursor' \in 0..Len(log) /\ lastSync <= cursor'
    BY <1>1, <1>4, <1>5, <1>6
  <2>2. \A n \in initial' : Version(log, cursor', n) # 0
    BY <1>2, <1>4, <1>5 DEF Existing
  <2> QED
    BY <1>3, <1>6, <2>1, <2>2 DEF PlaceOK
<1>9. WatchOK' /\ HasLast(log)'
  BY <1>1, <1>3 DEF WatchOK, HasLast
<1>10. StreamOK'
  <2> SUFFICES ASSUME ~interrupted, NEW n \in Name \ (gap \cup dropped \cup initial')
               PROVE  /\ lastSync = 0 => store[n] = 0
                      /\ \E j \in cursor'..Len(log) : store[n] = Version(log, j, n)
    BY <1>3 DEF StreamOK, SomeLater
  <2>1. CASE lastSync = 0
    <3>1. Version(log, Len(log), n) = 0
      BY <1>2, <1>4, <2>1 DEF Existing
    <3>2. store[n] = 0
      BY <1>3, <2>1, <3>1 DEF InformerInv, WatchOK
    <3>3. Len(log) \in cursor'..Len(log)
      BY <1>1, <1>4, <2>1
    <3> QED
      BY <3>1, <3>2, <3>3
  <2>2. CASE lastSync # 0
    BY <1>3, <1>5, <2>2 DEF InformerInv, WatchOK, SomeLater
  <2> QED
    BY <2>1, <2>2
<1> QED
  BY <1>7, <1>8, <1>9, <1>10 DEF InformerInv

(* The steps that end a watch, an expired one included, and a bookmark. *)
LEMMA WatchEndSteps ==
  ASSUME InformerInv, NEW next \in {"watch", "list"},
         ReflectorWatchExpired \/ StreamBookmark \/ StreamEnd(next)
  PROVE  InformerInv'
<1>1. log \in Seq(Entry) /\ Len(log) \in Nat /\ HasLast(log) /\ Len(log) \in 0..Len(log)
  BY LogFacts
<1>2. lastSync \in 0..Len(log) /\ cursor \in 0..Len(log)
      /\ (phase = "stream" => lastSync <= cursor)
  BY DEF InformerInv, PlaceOK
<1>3. CASE ReflectorWatchExpired
  <2>1. UNCHANGED <<log, compacted, lastSync, store, initial, cursor, faults, gap,
                    dropped, interrupted>> /\ phase = "watch" /\ phase' = "list"
    BY <1>3 DEF ReflectorWatchExpired, serverVars
  <2>2. TypeOK'
    BY <2>1 DEF InformerInv, TypeOK, To
  <2>3. HasLast(log)' /\ PlaceOK' /\ WatchOK' /\ StreamOK'
    BY <2>1 DEF InformerInv, HasLast, PlaceOK, WatchOK, StreamOK
  <2> QED
    BY <2>2, <2>3 DEF InformerInv
<1>4. CASE StreamBookmark
  <2>1. UNCHANGED <<log, compacted, phase, store, initial, cursor, faults, gap,
                    dropped, interrupted>> /\ phase = "stream" /\ lastSync' = cursor
    BY <1>4 DEF StreamBookmark, serverVars
  <2>2. cursor # 0
    BY <1>1, <1>2, <1>4 DEF StreamBookmark
  <2>3. TypeOK'
    BY <2>1 DEF InformerInv, TypeOK, To
  <2>4. PlaceOK'
    BY <1>1, <1>2, <2>1 DEF InformerInv, PlaceOK
  <2>5. HasLast(log)' /\ WatchOK' /\ StreamOK'
    BY <2>1, <2>2 DEF InformerInv, HasLast, WatchOK, StreamOK, SomeLater
  <2> QED
    BY <2>3, <2>4, <2>5 DEF InformerInv
<1>5. CASE StreamEnd(next)
  <2>1. UNCHANGED <<log, compacted, lastSync, store, cursor, gap, dropped>>
        /\ phase = "stream" /\ phase' = next /\ initial' = {}
    BY <1>5 DEF StreamEnd, serverVars
  <2>2. faults' \in Nat /\ interrupted' \in BOOLEAN
        /\ (~interrupted' => ~interrupted /\ initial = {})
    <3>1. faults' \in Nat
      BY <1>5 DEF StreamEnd, InformerInv, TypeOK
    <3>2. interrupted' \in BOOLEAN /\ (~interrupted' => ~interrupted /\ initial = {})
      BY <1>5, Zenon DEF StreamEnd
    <3> QED
      BY <3>1, <3>2
  <2>3. TypeOK'
    BY <2>1, <2>2 DEF InformerInv, TypeOK, To
  <2>4. PlaceOK' /\ StreamOK' /\ HasLast(log)'
    BY <1>1, <1>2, <2>1 DEF PlaceOK, StreamOK, HasLast
  <2>5. WatchOK'
    <3> SUFFICES ASSUME ~interrupted', NEW n \in Name \ (gap \cup dropped)
                 PROVE  /\ lastSync = 0 => store[n] = 0
                        /\ \E j \in lastSync..Len(log) : store[n] = Version(log, j, n)
      BY <2>1 DEF WatchOK, SomeLater
    <3>1. (lastSync = 0 => store[n] = 0) /\ SomeLater(n, cursor)
      BY <2>1, <2>2 DEF InformerInv, StreamOK
    <3>2. PICK j \in cursor..Len(log) : store[n] = Version(log, j, n)
      BY <3>1 DEF SomeLater
    <3>3. j \in lastSync..Len(log)
      BY <1>1, <1>2, <2>1
    <3> QED
      BY <3>1, <3>2, <3>3
  <2> QED
    BY <2>3, <2>4, <2>5 DEF InformerInv
<1> QED
  BY <1>3, <1>4, <1>5
-----------------------------------------------------------------------------
\* Events

(* An event that converts puts its object, or its absence, into the store   *)
(* and its version into lastSync; one that does not is noted as dropped.    *)
LEMMA DeliverEffect ==
  ASSUME InformerInv, NEW i \in 1..Len(log), Deliver(i)
  PROVE  /\ \/ /\ store'[log[i].name] = (IF log[i].type = "DELETED" THEN 0 ELSE i)
               /\ lastSync' = i
               /\ dropped' = dropped
            \/ /\ log[i].name \in dropped'
               /\ store' = store /\ lastSync' = lastSync
         /\ \A n \in Name : n # log[i].name => store'[n] = store[n]
         /\ dropped \subseteq dropped' /\ dropped' \subseteq Name
         /\ UNCHANGED log => StoreOK'
<1>1. log \in Seq(Entry) /\ Len(log) \in Nat
  BY LogFacts
<1>2. log[i] \in Entry
  BY <1>1
<1>3. log[i].name \in Name
  BY <1>2 DEF Entry
<1>4. store \in [Name -> 0..Len(log)] /\ dropped \subseteq Name
  BY DEF InformerInv, TypeOK
<1>5. CASE To(i)
  <2>1. store' = [store EXCEPT ![log[i].name] = IF log[i].type = "DELETED" THEN 0 ELSE i]
        /\ lastSync' = i /\ dropped' = dropped
    BY <1>5 DEF Deliver
  <2>2. i \in 0..Len(log) /\ 0 \in 0..Len(log)
    BY <1>1
  <2>3. store' \in [Name -> 0..Len(log)]
    BY <1>3, <1>4, <2>1, <2>2
  <2>4. \A n \in Name : store'[n] # 0 =>
          log[store'[n]].name = n /\ log[store'[n]].type # "DELETED" /\ To(store'[n])
    <3> SUFFICES ASSUME NEW n \in Name, store'[n] # 0
                 PROVE  log[store'[n]].name = n /\ log[store'[n]].type # "DELETED"
                        /\ To(store'[n])
      OBVIOUS
    <3>1. CASE n = log[i].name
      <4>1. store'[n] = i /\ log[i].type # "DELETED"
        BY <1>3, <1>4, <2>1, <3>1
      <4> QED
        BY <1>5, <3>1, <4>1
    <3>2. CASE n # log[i].name
      <4>1. store'[n] = store[n]
        BY <1>4, <2>1, <3>2
      <4> QED
        BY <4>1 DEF InformerInv, TypeOK
    <3> QED
      BY <3>1, <3>2
  <2>5. UNCHANGED log => StoreOK'
    BY <2>3, <2>4 DEF StoreOK, To
  <2> QED
    BY <1>3, <1>4, <2>1, <2>5
<1>6. CASE ~To(i)
  <2>1. dropped' = dropped \cup {log[i].name} /\ store' = store /\ lastSync' = lastSync
    BY <1>6 DEF Deliver
  <2>2. UNCHANGED log => StoreOK'
    BY <2>1 DEF StoreOK, InformerInv, TypeOK, To
  <2> QED
    BY <1>3, <1>4, <2>1, <2>2
<1> QED
  BY <1>5, <1>6

(* An initial event brings one object to the state at the cursor. *)
LEMMA InitialStep ==
  ASSUME InformerInv, NEW n \in Name, StreamInitial(n)
  PROVE  InformerInv'
<1>1. log \in Seq(Entry) /\ Len(log) \in Nat /\ HasLast(log) /\ Len(log) \in 0..Len(log)
  BY LogFacts
<1>2. UNCHANGED <<log, compacted, phase, cursor, faults, gap, interrupted>>
      /\ phase = "stream" /\ n \in initial /\ initial' = initial \ {n}
  BY DEF StreamInitial, serverVars
<1>3. lastSync \in 0..Len(log) /\ cursor \in 0..Len(log) /\ lastSync <= cursor
      /\ \A m \in initial : Version(log, cursor, m) # 0
  BY <1>2 DEF InformerInv, PlaceOK
<1> DEFINE v == Version(log, cursor, n)
<1>4. v \in 1..cursor /\ v \in 1..Len(log) /\ log[v].name = n /\ log[v].type # "DELETED"
  <2>1. v \in 0..cursor /\ v # 0
    BY <1>1, <1>2, <1>3, VersionIsWrite
  <2> QED
    BY <1>1, <1>2, <1>3, <2>1, VersionIsWrite
<1>5. Deliver(v)
  <2>1. At(cursor)[n] = v
    BY AtIsVersion
  <2> QED
    BY <2>1 DEF StreamInitial
<1> HIDE DEF v
<1>6. /\ \/ store'[n] = v /\ lastSync' = v /\ dropped' = dropped
         \/ n \in dropped' /\ store' = store /\ lastSync' = lastSync
      /\ \A m \in Name : m # n => store'[m] = store[m]
      /\ dropped \subseteq dropped' /\ dropped' \subseteq Name
      /\ StoreOK'
  BY <1>2, <1>4, <1>5, DeliverEffect
<1>7. lastSync' \in 0..Len(log) /\ lastSync' <= cursor
  <2>1. lastSync' = lastSync \/ lastSync' = v
    BY <1>6
  <2> QED
    BY <1>1, <1>3, <1>4, <2>1
<1>8. TypeOK'
  <2>1. lastSync' \in Nat
    BY <1>7
  <2> QED
    BY <1>2, <1>6, <2>1 DEF InformerInv, TypeOK, StoreOK, To
<1>9. PlaceOK'
  BY <1>2, <1>3, <1>7 DEF PlaceOK
<1>10. HasLast(log)' /\ WatchOK'
  BY <1>1, <1>2 DEF HasLast, WatchOK
<1>11. StreamOK'
  <2> SUFFICES ASSUME ~interrupted, NEW m \in Name \ (gap \cup dropped' \cup initial')
               PROVE  /\ lastSync' = 0 => store'[m] = 0
                      /\ \E j \in cursor..Len(log) : store'[m] = Version(log, j, m)
    BY <1>2 DEF StreamOK, SomeLater
  <2>1. CASE m = n
    <3>1. store'[n] = v /\ lastSync' = v
      BY <1>6, <2>1
    <3>2. v # 0 /\ cursor \in cursor..Len(log)
      BY <1>1, <1>3, <1>4
    <3> QED
      BY <2>1, <3>1, <3>2 DEF v
  <2>2. CASE m # n
    <3>1. m \in Name \ (gap \cup dropped \cup initial) /\ store'[m] = store[m]
      BY <1>2, <1>6, <2>2
    <3>2. (lastSync = 0 => store[m] = 0)
          /\ \E j \in cursor..Len(log) : store[m] = Version(log, j, m)
      BY <1>2, <3>1 DEF InformerInv, StreamOK, SomeLater
    <3>3. lastSync' = lastSync \/ (lastSync' = v /\ v # 0)
      BY <1>4, <1>6
    <3> QED
      BY <3>1, <3>2, <3>3
  <2> QED
    BY <2>1, <2>2
<1> QED
  BY <1>8, <1>9, <1>10, <1>11 DEF InformerInv

(* An event of the watch moves the cursor over one change: the store is as  *)
(* current as the new cursor, also where the change was sent before.        *)
LEMMA ChangeStep ==
  ASSUME InformerInv, StreamChange
  PROVE  InformerInv'
<1>1. log \in Seq(Entry) /\ Len(log) \in Nat /\ HasLast(log) /\ Len(log) \in 0..Len(log)
  BY LogFacts
<1>2. UNCHANGED <<log, compacted, phase, initial, faults, gap, interrupted>>
      /\ phase = "stream" /\ initial = {} /\ cursor' = cursor + 1 /\ cursor < Len(log)
      /\ Deliver(cursor + 1)
  BY DEF StreamChange, serverVars
<1>3. lastSync \in 0..Len(log) /\ cursor \in 0..Len(log) /\ lastSync <= cursor
  BY <1>2 DEF InformerInv, PlaceOK
<1> DEFINE i == cursor + 1
           c == log[i].name
<1>4. i \in 1..Len(log) /\ i \in Nat /\ i # 0 /\ cursor + 1 <= Len(log)
  BY <1>1, <1>2, <1>3
<1>5. \A n \in Name : Version(log, i, n) =
        IF c = n THEN (IF log[i].type = "DELETED" THEN 0 ELSE i)
        ELSE Version(log, cursor, n)
  BY <1>1, <1>3, <1>4, VersionStep
<1>6. /\ \/ /\ store'[c] = (IF log[i].type = "DELETED" THEN 0 ELSE i)
            /\ lastSync' = i
            /\ dropped' = dropped
         \/ c \in dropped' /\ store' = store /\ lastSync' = lastSync
      /\ \A m \in Name : m # c => store'[m] = store[m]
      /\ dropped \subseteq dropped' /\ dropped' \subseteq Name
      /\ StoreOK'
  BY <1>2, <1>4, DeliverEffect
<1>7. cursor' = i
  BY <1>2
<1> HIDE DEF i, c
<1>8. lastSync' \in 0..Len(log) /\ lastSync' <= i
  <2>1. lastSync' = lastSync \/ lastSync' = i
    BY <1>6
  <2>2. lastSync <= i
    BY <1>3 DEF i
  <2> QED
    BY <1>1, <1>3, <1>4, <2>1, <2>2
<1>9. TypeOK'
  <2>1. lastSync' \in Nat
    BY <1>8
  <2> QED
    BY <1>2, <1>4, <1>6, <1>7, <2>1 DEF InformerInv, TypeOK, StoreOK, To
<1>10. PlaceOK'
  BY <1>2, <1>4, <1>7, <1>8 DEF PlaceOK
<1>11. HasLast(log)' /\ WatchOK'
  BY <1>1, <1>2 DEF HasLast, WatchOK
<1>12. StreamOK'
  <2> SUFFICES ASSUME ~interrupted, NEW n \in Name \ (gap \cup dropped')
               PROVE  /\ lastSync' = 0 => store'[n] = 0
                      /\ \E j \in i..Len(log) : store'[n] = Version(log, j, n)
    BY <1>2, <1>7 DEF StreamOK, SomeLater
  <2>0. i \in i..Len(log)
    BY <1>1, <1>4
  <2>1. CASE n = c
    <3>1. store'[n] = Version(log, i, n) /\ lastSync' = i
      BY <1>5, <1>6, <2>1
    <3> QED
      BY <1>4, <2>0, <3>1
  <2>2. CASE n # c
    <3>1. n \in Name \ (gap \cup dropped) /\ store'[n] = store[n]
      BY <1>6, <2>2
    <3>2. (lastSync = 0 => store[n] = 0) /\ SomeLater(n, cursor)
      BY <1>2, <3>1 DEF InformerInv, StreamOK
    <3>3. PICK j \in cursor..Len(log) : store[n] = Version(log, j, n)
      BY <3>2 DEF SomeLater
    <3>4. CASE j = cursor
      BY <1>4, <1>5, <1>6, <2>0, <2>2, <3>1, <3>2, <3>3, <3>4
    <3>5. CASE j # cursor
      <4>1. j \in i..Len(log)
        BY <1>1, <1>3, <3>5 DEF i
      <4> QED
        BY <1>4, <1>6, <3>1, <3>2, <3>3, <4>1
    <3> QED
      BY <3>4, <3>5
  <2> QED
    BY <2>1, <2>2
<1> QED
  BY <1>9, <1>10, <1>11, <1>12 DEF InformerInv

-----------------------------------------------------------------------------
\* The theorems

(* Nothing is stored and nothing has happened. *)
LEMMA InformerInit == Init => InformerInv
<1> SUFFICES ASSUME Init PROVE InformerInv
  OBVIOUS
<1>1. log = <<>> /\ Len(log) = 0
  BY DEF Init
<1>2. HasLast(log)
  <2> SUFFICES ASSUME NEW i \in 0..0, NEW n \in Name PROVE Of(log, i, n) = {}
    BY <1>1 DEF HasLast
  <2>1. i = 0 /\ 1..0 = {}
    OBVIOUS
  <2> QED
    BY <2>1 DEF Of
<1>3. TypeOK
  <2>1. store \in [Name -> 0..Len(log)] /\ \A n \in Name : store[n] = 0
    BY <1>1 DEF Init
  <2>2. log \in Seq([type : {"ADDED", "MODIFIED", "DELETED"}, name : Name,
                    converts : BOOLEAN])
    BY <1>1
  <2>3. compacted \in Nat /\ lastSync \in Nat /\ cursor \in Nat /\ faults \in Nat
        /\ phase \in {"list", "watch", "stream"}
    BY DEF Init
  <2>4. initial \subseteq Name /\ gap \subseteq Name /\ dropped \subseteq Name
        /\ interrupted \in BOOLEAN
    BY Zenon DEF Init
  <2> QED
    BY <2>1, <2>2, <2>3, <2>4, Zenon DEF TypeOK
<1>4. PlaceOK /\ WatchOK /\ StreamOK
  BY <1>1 DEF Init, PlaceOK, WatchOK, StreamOK
<1> QED
  BY <1>2, <1>3, <1>4 DEF InformerInv

(* The invariant holds in every reachable state. *)
THEOREM InformerInvariance == Spec => []InformerInv
<1>1. InformerInv /\ [Next]_vars => InformerInv'
  <2> SUFFICES ASSUME InformerInv, [Next]_vars PROVE InformerInv'
    OBVIOUS
  <2>1. CASE Server
    BY <2>1, ServerStep
  <2>2. CASE Reflector
    <3>1. "watch" \in {"watch", "list"}
      OBVIOUS
    <3> QED
      BY <2>2, <3>1, ListStep, WatchStep, WatchEndSteps, InitialStep, ChangeStep
         DEF Reflector
  <2>3. CASE StreamBookmark \/ \E next \in {"watch", "list"} : StreamEnd(next)
    <3>1. "watch" \in {"watch", "list"}
      OBVIOUS
    <3> QED
      BY <2>3, <3>1, WatchEndSteps
  <2>4. CASE UNCHANGED vars
    <3>1. TypeOK'
      BY <2>4 DEF InformerInv, TypeOK, To, vars
    <3>2. HasLast(log)' /\ PlaceOK' /\ WatchOK' /\ StreamOK'
      BY <2>4 DEF InformerInv, HasLast, PlaceOK, WatchOK, StreamOK, SomeLater, vars
    <3> QED
      BY <3>1, <3>2 DEF InformerInv
  <2> QED
    BY <2>1, <2>2, <2>3, <2>4 DEF Next
<1> QED
  BY <1>1, InformerInit, PTL DEF Spec

(* For every number of objects, page size and length of history: every      *)
(* variable has its type, and what the store holds under a name is a write  *)
(* of that name which converted, never a deletion and never an object that  *)
(* To refused, by whichever of list and watch it came.                      *)
THEOREM InformerTypeCorrect == Spec => []TypeOK
<1>1. InformerInv => TypeOK
  BY DEF InformerInv
<1> QED
  BY <1>1, InformerInvariance, PTL

(* For every number of objects, page size, length of history and number of  *)
(* failures: a store that has caught up is the server's state, but for      *)
(* names deleted before a watch from no version, names with a change that   *)
(* did not convert, and a watch that ended within its initial events.       *)
(* Paging that is cut short and events that are sent again do no other      *)
(* harm.                                                                    *)
THEOREM Mirror == Spec => []MirrorsOutsideGaps
<1>1. InformerInv => MirrorsOutsideGaps
  <2> SUFFICES ASSUME InformerInv, CaughtUp, ~interrupted,
                      NEW n \in Name \ (gap \cup dropped)
               PROVE  store[n] = Now[n]
    BY DEF MirrorsOutsideGaps
  <2>1. phase = "stream" /\ initial = {} /\ cursor = Len(log)
    BY DEF CaughtUp
  <2>2. Len(log) \in Nat
    BY LogFacts
  <2>3. SomeLater(n, cursor)
    BY <2>1 DEF InformerInv, StreamOK
  <2>4. PICK j \in cursor..Len(log) : store[n] = Version(log, j, n)
    BY <2>3 DEF SomeLater
  <2>5. j = Len(log)
    BY <2>1, <2>2
  <2> QED
    BY <2>4, <2>5, AtIsVersion
<1> QED
  BY <1>1, InformerInvariance, PTL

=============================================================================
