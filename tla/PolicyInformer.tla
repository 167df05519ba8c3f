--------------------------- MODULE PolicyInformer ---------------------------
(***************************************************************************)
(* How a policy written as a CRD object reaches the evaluator's informer:  *)
(* the API server, TransformedClient's List and Watch                      *)
(* (pkg/controller/transformed_client.go), and client-go's Reflector       *)
(* (vendor/.../cache/reflector.go) that calls them.                        *)
(*                                                                         *)
(* The API server is external.  It is a log of changes; the resource       *)
(* version of a change is its position in the log, and of an object the    *)
(* version of its last change.  Names are numbers, in the order in which   *)
(* the server pages through them.  A conversion To either succeeds and     *)
(* keeps name and version, or fails; which objects fail is part of the     *)
(* log.                                                                    *)
(***************************************************************************)
EXTENDS Naturals, Sequences, FiniteSets

CONSTANTS
    Names,          \* number of objects: names are 1..Names
    PageLimit,      \* objects per page where the server honours a limit; 0: never
    MaxLog,         \* bound: changes made on the server
    MaxFaults,      \* bound: watches that end or expire
    Convertible     \* the values ToSucceeds may have: a subset of BOOLEAN

ASSUME InformerAssumption ==
    /\ Names \in Nat /\ PageLimit \in Nat
    /\ MaxLog \in Nat /\ MaxFaults \in Nat
    /\ Convertible \subseteq BOOLEAN /\ TRUE \in Convertible

VARIABLES
    log,            \* the server's history
    compacted,      \* changes up to here can no longer be watched
    phase,          \* where the reflector is: "list", "watch" or "stream"
    lastSync,       \* lastSyncResourceVersion; 0 is the empty string
    store,          \* informer store: name -> version, 0 if absent
    initial,        \* names whose synthetic ADDED is still to be sent
    cursor,         \* last change this watch has sent
    faults,         \* watches that ended or expired
    gap,            \* history: names deleted before a watch from no version
    dropped,        \* history: names with a change that was not delivered
    interrupted     \* history: a watch ended before its initial events

serverVars == <<log, compacted>>
vars == <<log, compacted, phase, lastSync, store, initial, cursor, faults,
          gap, dropped, interrupted>>

Name == 1..Names

-----------------------------------------------------------------------------
\* The API server (external)

(* The state of the server after the first i changes: name -> version of    *)
(* the object, 0 if there is none.                                          *)
At(i) ==
    [n \in Name |->
        LET of == {j \in 1..i : log[j].name = n} IN
        IF of = {} THEN 0
        ELSE LET last == CHOOSE j \in of : \A m \in of : m <= j IN
             IF log[last].type = "DELETED" THEN 0 ELSE last]

Now == At(Len(log))
Existing(state) == {n \in Name : state[n] # 0}

Init ==
    /\ log = <<>>
    /\ compacted = 0
    /\ phase = "list"
    /\ lastSync = 0
    /\ store = [n \in Name |-> 0]
    /\ initial = {}
    /\ cursor = 0
    /\ faults = 0
    /\ gap = {}
    /\ dropped = {}
    /\ interrupted = FALSE

reflectorVars == <<phase, lastSync, store, initial, cursor, faults, dropped,
                   interrupted>>

ApiWrite(n, ok) ==
    /\ Len(log) < MaxLog
    /\ log' = Append(log, [type |-> IF Now[n] = 0 THEN "ADDED" ELSE "MODIFIED",
                           name |-> n, converts |-> ok])
    /\ UNCHANGED <<compacted, reflectorVars, gap>>

(* The event carries the object as it was. A watch that starts from no      *)
(* version does not send the deletions before it.                           *)
ApiDelete(n) ==
    /\ Len(log) < MaxLog
    /\ Now[n] # 0
    /\ log' = Append(log, [type |-> "DELETED", name |-> n,
                           converts |-> log[Now[n]].converts])
    /\ gap' = IF phase = "watch" /\ lastSync = 0 THEN gap \cup {n} ELSE gap
    /\ UNCHANGED <<compacted, reflectorVars>>

ApiCompact ==
    /\ compacted < Len(log)
    /\ compacted' = Len(log)
    /\ UNCHANGED <<log, reflectorVars, gap>>

-----------------------------------------------------------------------------
\* TransformedClient

To(i) == log[i].converts

(* The page the replacement client's List returns: everything, or the first *)
(* PageLimit names when the reflector asks for pages.                       *)
Page(state) ==
    IF PageLimit = 0 \/ lastSync # 0 THEN Existing(state)
    ELSE {n \in Existing(state) :
             Cardinality({m \in Existing(state) : m < n}) < PageLimit}

(* List converts every item and fails if one does not convert. *)
ListSucceeds(state) == \A n \in Page(state) : To(state[n])

(* listWithItems makes a list of the items alone: its metadata, so the      *)
(* resource version and the continue token, is that of a new list.          *)
ListResourceVersion == 0
ListContinues == FALSE

-----------------------------------------------------------------------------
\* Reflector

(* list: replace the store and remember the list's resource version.        *)
(* Without a continue token the pager asks for no second page.              *)
ReflectorList ==
    /\ phase = "list"
    /\ ListSucceeds(Now)
    /\ store' = [n \in Name |->
                    IF n \in Page(Now) \/ ListContinues THEN Now[n] ELSE 0]
    /\ lastSync' = ListResourceVersion
    /\ phase' = "watch"
    /\ gap' = {}
    /\ dropped' = {}
    /\ interrupted' = FALSE
    /\ UNCHANGED <<serverVars, initial, cursor, faults>>

(* Defect: the watch resumes one change too late. *)
ReflectorWatchLate ==
    /\ phase = "watch"
    /\ lastSync = 0 \/ lastSync >= compacted
    /\ phase' = "stream"
    /\ IF lastSync = 0
       THEN initial' = Existing(Now) /\ cursor' = Len(log)
       ELSE initial' = {} /\ cursor' = lastSync + 1
    /\ UNCHANGED <<serverVars, lastSync, store, faults, gap, dropped, interrupted>>

(* watch from the last resource version; from none the server first sends   *)
(* the objects it has now.                                                  *)
ReflectorWatch ==
    /\ phase = "watch"
    /\ lastSync = 0 \/ lastSync >= compacted
    /\ phase' = "stream"
    /\ IF lastSync = 0
       THEN initial' = Existing(Now) /\ cursor' = Len(log)
       ELSE initial' = {} /\ cursor' = lastSync
    /\ UNCHANGED <<serverVars, lastSync, store, faults, gap, dropped, interrupted>>

(* Defect: an expired watch is tried again with the same version. *)
ReflectorWatchExpiredRetried ==
    /\ phase = "watch"
    /\ lastSync # 0 /\ lastSync < compacted
    /\ UNCHANGED vars

(* 410 Gone: list again. *)
ReflectorWatchExpired ==
    /\ phase = "watch"
    /\ lastSync # 0 /\ lastSync < compacted
    /\ phase' = "list"
    /\ UNCHANGED <<serverVars, lastSync, store, initial, cursor, faults, gap,
                   dropped, interrupted>>

(* Defect: the Filter keeps an event whose object does not convert. *)
DeliverUnconverted(i) ==
    /\ store' = [store EXCEPT ![log[i].name] =
                    IF log[i].type = "DELETED" THEN 0 ELSE i]
    /\ lastSync' = i
    /\ UNCHANGED dropped

(* Change i reaches the Filter of TransformedClient.Watch, which drops it   *)
(* when it does not convert, and then watchHandler.                         *)
Deliver(i) ==
    IF To(i)
    THEN /\ store' = [store EXCEPT ![log[i].name] =
                        IF log[i].type = "DELETED" THEN 0 ELSE i]
         /\ lastSync' = i
         /\ UNCHANGED dropped
    ELSE /\ dropped' = dropped \cup {log[i].name}
         /\ UNCHANGED <<store, lastSync>>

StreamInitial(n) ==
    /\ phase = "stream"
    /\ n \in initial
    /\ initial' = initial \ {n}
    /\ Deliver(At(cursor)[n])
    /\ UNCHANGED <<serverVars, phase, cursor, faults, gap, interrupted>>

StreamChange ==
    /\ phase = "stream"
    /\ initial = {}
    /\ cursor < Len(log)
    /\ cursor' = cursor + 1
    /\ Deliver(cursor + 1)
    /\ UNCHANGED <<serverVars, phase, initial, faults, gap, interrupted>>

(* A bookmark carries an object with a version only, which converts. *)
StreamBookmark ==
    /\ phase = "stream"
    /\ initial = {}
    /\ lastSync # cursor
    /\ lastSync' = cursor
    /\ UNCHANGED <<serverVars, phase, store, initial, cursor, faults, gap,
                   dropped, interrupted>>

(* The watch ends: watch again from the last version seen, or list again if *)
(* it ended with an error.                                                  *)
StreamEnd(next) ==
    /\ phase = "stream"
    /\ faults < MaxFaults
    /\ faults' = faults + 1
    /\ phase' = next
    /\ initial' = {}
    /\ interrupted' = (interrupted \/ initial # {})
    /\ UNCHANGED <<serverVars, lastSync, store, cursor, gap, dropped>>

-----------------------------------------------------------------------------

Server ==
    \/ \E n \in Name, ok \in Convertible : ApiWrite(n, ok)
    \/ \E n \in Name : ApiDelete(n)
    \/ ApiCompact

Reflector ==
    \/ ReflectorList \/ ReflectorWatch \/ ReflectorWatchExpired
    \/ \E n \in Name : StreamInitial(n)
    \/ StreamChange

Next ==
    \/ Server
    \/ Reflector
    \/ StreamBookmark
    \/ \E next \in {"watch", "list"} : StreamEnd(next)

Spec == Init /\ [][Next]_vars

(* The reflector keeps running and the server keeps answering it; nothing   *)
(* is assumed of bookmarks, faults or changes.                              *)
FairSpec == Spec /\ WF_vars(Reflector)

-----------------------------------------------------------------------------
\* Properties

(* Every variable has its type, and an entry of the store is a write of the *)
(* object with that name which converted: neither a deletion, nor a list    *)
(* or an event with an object that To refused, ever gets into it.           *)
TypeOK ==
    /\ log \in Seq([type : {"ADDED", "MODIFIED", "DELETED"}, name : Name,
                    converts : BOOLEAN])
    /\ compacted \in Nat
    /\ phase \in {"list", "watch", "stream"}
    /\ lastSync \in Nat
    /\ store \in [Name -> 0..Len(log)]
    /\ \A n \in Name : store[n] # 0 =>
          log[store[n]].name = n /\ log[store[n]].type # "DELETED" /\ To(store[n])
    /\ initial \subseteq Name
    /\ cursor \in Nat
    /\ faults \in Nat
    /\ gap \subseteq Name
    /\ dropped \subseteq Name
    /\ interrupted \in BOOLEAN

(* The reflector has taken in all there is. *)
CaughtUp == phase = "stream" /\ initial = {} /\ cursor = Len(log)

(* A caught-up store is the server's state, whatever the interleaving of    *)
(* changes, lists, watches, bookmarks and failures, but for three cases:    *)
(* names deleted between a list, or a watch that had sent nothing, and the  *)
(* next watch, which then starts from no version; names with a change that  *)
(* did not convert; and a watch that ended within its initial events.       *)
MirrorsOutsideGaps ==
    (CaughtUp /\ ~interrupted) =>
        \A n \in Name \ (gap \cup dropped) : store[n] = Now[n]

(* "ListAndWatch first lists all items and get the resource version at the  *)
(* moment of call, and then use the resource version to watch": a caught-up *)
(* store is the server's state.                                             *)
MirrorsServer == CaughtUp => \A n \in Name : store[n] = Now[n]

(* No change of the server makes the reflector stall: it catches up again   *)
(* unless an object that does not convert makes every list fail.            *)
CatchesUp ==
    []<>(CaughtUp \/ \E n \in Name : Now[n] # 0 /\ ~To(Now[n]))
=============================================================================
