---------------------------- MODULE PolicyAccess ----------------------------
(***************************************************************************)
(* One policy, or one binding, in the API server, and the three kinds of   *)
(* client this repository gives to it:                                     *)
(*   Lister   reads the cache of the generated informer through the        *)
(*            generated lister, deep copies, and writes with the generated *)
(*            typed client (pkg/generated);                                *)
(*   Wrapped  uses the native client that NewWrappedClient returns, which  *)
(*            converts each object (transformed_client.go and              *)
(*            injected_client.go) around the typed client;                 *)
(*   Proxied  uses the native group through the interceptor.               *)
(*                                                                         *)
(* The content of an object is the value behind each of its references     *)
(* (see PolicyTypes).  An edit marks every reference of the spec or of the *)
(* status with the client's name.  The server is external: the history of  *)
(* the object, whose resource version is a position in the history.  A     *)
(* call changes the server at one point, so a call is one step; its answer *)
(* may be lost (a network error, or a To or ModifyResponse that fails).    *)
(***************************************************************************)
EXTENDS PolicyTypes, Interceptor, SequencesExt

CONSTANTS
    Lister, Wrapped, Proxied,   \* clients of each kind
    MaxWrites                   \* bound: changes of the object

Client == Lister \cup Wrapped \cup Proxied

ASSUME AccessAssumption ==
    /\ Lister \cap Wrapped = {} /\ Lister \cap Proxied = {}
    /\ Wrapped \cap Proxied = {}
    /\ MaxWrites \in Nat

VARIABLES
    kind,           \* which of the two resources
    history,        \* every state of the object: [op, base, live, content, long]
    cache,          \* the informer's object, rv 0 if it has none
    held,           \* the object each client has in its hands, rv 0 if new
    sharing,        \* clients whose object came from the cache by DeepCopy
    result          \* [status, op, object]: a client's last write, if it has
                    \* done nothing with its object since

vars == <<kind, history, cache, held, sharing, result>>

-----------------------------------------------------------------------------
\* Objects

Path(k) == IF k = "policy" THEN ValidatingAdmissionPolicy
                           ELSE ValidatingAdmissionPolicyBinding

(* What DeepCopy leaves shared between the object and its copy. *)
Shared(k) == Path(k) \ (IF k = "policy" THEN CopyPolicy ELSE CopyBinding)

(* The binding client has no UpdateStatus. *)
HasStatus(k) == k = "policy"

Below(p, q) == Len(p) < Len(q) /\ SubSeq(q, 1, Len(p)) = p

(* Contents a client may create: every reference set, with a parameter of   *)
(* the CRD group and other texts that mention the native one; all slices    *)
(* empty and all pointers nil but what is required; and all of them so.     *)
Full(k) == [p \in Path(k) |-> "set"]
Unset(k, paths) ==
    [p \in Path(k) |->
        IF \E q \in paths : Below(q, p) THEN "nil"
        ELSE IF p \notin paths THEN "set"
        ELSE IF Last(p) \in Slice THEN "empty" ELSE "nil"]
Mentioning(k) ==
    [p \in Path(k) |-> IF Last(p) = "ParamKind" THEN Custom
                       ELSE IF Last(p) \in Text THEN Native ELSE "set"]
Content(k) == {Mentioning(k), Unset(k, Path(k) \ Required), Unset(k, Path(k))}

(* encoding/json: "omitempty" leaves an empty slice out, and a pointer that *)
(* is written null is nil when it is read.                                  *)
Json(content) ==
    [p \in DOMAIN content |-> IF content[p] = "empty" THEN "nil" ELSE content[p]]

(* A JSON copy; an apiVersion is replaced, and an empty one stays empty. *)
Converted(object, group) ==
    [object EXCEPT !.content = Json(@), !.group = IF @ = "" THEN "" ELSE group]

(* Defect: the copy takes the version that is stored now. *)
NativeToCRDPolicyLatest(object) ==
    [Converted(object, Custom) EXCEPT !.rv = Len(history)]

NativeToCRDPolicy(object) == Converted(object, Custom)
NativeToCRDPolicyBinding(object) == Converted(object, Custom)

(* Defect: the target type has another name for the match conditions. *)
CRDToNativePolicyLossy(object) ==
    [object EXCEPT !.content =
        [p \in DOMAIN @ |-> IF Last(p) = "MatchConditions" THEN "nil" ELSE Json(@)[p]]]

(* The group is that of another API. *)
CRDToNativePolicy(object) == Converted(object, "apiregistration.k8s.io")
CRDToNativePolicyBinding(object) == Converted(object, "apiregistration.k8s.io")

(* How replacedClient sets TransformedClient up. *)
From(object) ==
    IF kind = "policy" THEN NativeToCRDPolicy(object) ELSE NativeToCRDPolicyBinding(object)
To(object) ==
    IF kind = "policy" THEN CRDToNativePolicy(object) ELSE CRDToNativePolicyBinding(object)

-----------------------------------------------------------------------------
\* Requests: the generated typed client, which encodes an object under the
\* group of its type, and a native client behind the proxy

TypedRequest(method, sub, object) ==
    [method |-> method, sub |-> sub, path |-> Custom, decodes |-> TRUE,
     object |-> [object EXCEPT !.content = Json(@), !.group = Custom]]

Create(object) == TypedRequest("POST", "", object)
Update(object) == TypedRequest("PUT", "", object)

(* Defect: the status is written to the object itself. *)
UpdateStatusPlain(object) == TypedRequest("PUT", "", object)

UpdateStatus(object) == TypedRequest("PUT", "status", object)

(* TransformedClient *)
TransformedCreate(object) == Create(From(object))
TransformedUpdate(object) == Update(From(object))
TransformedUpdateStatus(object) == UpdateStatus(From(object))
TransformedResult(object) == To(object)

NativeRequest(method, sub, object) ==
    Rewrite([method |-> method, sub |-> sub, path |-> Native, decodes |-> TRUE,
             object |-> [object EXCEPT !.content = Json(@), !.group = Native]])

(* The request in which client c asks for op with its object. *)
Request(c, op) ==
    LET object == held[c] IN
    CASE c \in Lister ->
           [create |-> Create(object), update |-> Update(object),
            status |-> UpdateStatus(object)][op]
      [] c \in Wrapped ->
           [create |-> TransformedCreate(object), update |-> TransformedUpdate(object),
            status |-> TransformedUpdateStatus(object)][op]
      [] c \in Proxied ->
           NativeRequest(IF op = "create" THEN "POST" ELSE "PUT",
                         IF op = "status" THEN "status" ELSE "", object)

(* How the server's object reaches c: a typed client clears the group. *)
Receive(c, object) ==
    CASE c \in Lister  -> [object EXCEPT !.group = ""]
      [] c \in Wrapped -> TransformedResult([object EXCEPT !.group = ""])
      [] c \in Proxied -> ModifyResponse(Custom, object)

-----------------------------------------------------------------------------
\* The API server (external)

Live == history # <<>> /\ Last(history).live

(* The object as the server sends it. *)
Stored ==
    [rv |-> Len(history), group |-> Custom, content |-> Last(history).content,
     long |-> Last(history).long]

Part(part) == {p \in Path(kind) : Head(p) = part}

(* The defaults and the required fields of the CRD. *)
Default(content) ==
    [p \in Path(kind) |->
        IF /\ Last(p) \in Defaulted
           /\ content[p] = "nil"
           /\ \A q \in Path(kind) : Below(q, p) => content[q] # "nil"
        THEN "default" ELSE content[p]]

Complete(content) == \A p \in Required \cap Path(kind) : content[p] \notin {"nil", "empty"}

WellFormed(req) ==
    /\ req.decodes
    /\ req.path = Custom
    /\ req.object.group = Custom
    /\ Complete(req.object.content)
    /\ (req.method = "POST") <=> (req.object.rv = 0)

(* What a write stores: a POST drops the status, a PUT keeps the stored     *)
(* one, and a PUT of the status keeps everything else.                      *)
Merged(req) ==
    LET new == Default(req.object.content)
        old == IF req.method = "POST" THEN [p \in Path(kind) |-> "nil"]
                                      ELSE Last(history).content
        kept == IF req.sub = "status" THEN Path(kind) \ Part("Status")
                                      ELSE Part("Status")
    IN  [p \in Path(kind) |-> IF p \in kept THEN old[p] ELSE new[p]]

Verdict(req) ==
    IF ~WellFormed(req) THEN "refused"
    ELSE IF req.method = "POST" THEN (IF Live THEN "conflict" ELSE "ok")
    ELSE IF Live /\ req.object.rv = Len(history) THEN "ok" ELSE "conflict"

-----------------------------------------------------------------------------

NewObject(content, long) ==
    [rv |-> 0, group |-> "", content |-> content, long |-> long]

NewObjects ==
    {NewObject(content, FALSE) : content \in Content(kind)}
    \cup {NewObject(Full(kind), TRUE)}

NoResult == [status |-> "none"]

Init ==
    /\ kind \in {"policy", "binding"}
    /\ history = <<>>
    /\ cache = NewObject(Full(kind), FALSE)
    /\ \E object \in NewObjects : held = [c \in Client |-> object]
    /\ sharing = {}
    /\ result = [c \in Client |-> NoResult]

(* The generated informer stores the object it was sent. *)
InformerStore ==
    /\ cache.rv # Len(history)
    /\ cache' = IF Live THEN [Stored EXCEPT !.group = ""]
                ELSE [cache EXCEPT !.rv = 0]
    /\ sharing' = {}
    /\ UNCHANGED <<kind, history, held, result>>

(* lister.Get and DeepCopy *)
ListerGet(c) ==
    /\ c \in Lister
    /\ cache.rv # 0
    /\ held' = [held EXCEPT ![c] = cache]
    /\ sharing' = sharing \cup {c}
    /\ result' = [result EXCEPT ![c] = NoResult]
    /\ UNCHANGED <<kind, history, cache>>

(* Get, through the conversion or the proxy. *)
ClientGet(c) ==
    /\ c \notin Lister
    /\ Live
    /\ held[c].rv # Len(history)
    /\ held' = [held EXCEPT ![c] = Receive(c, Stored)]
    /\ sharing' = sharing \ {c}
    /\ result' = [result EXCEPT ![c] = NoResult]
    /\ UNCHANGED <<kind, history, cache>>

Mark(content, paths, c) ==
    [p \in DOMAIN content |->
        IF p \in paths /\ content[p] \notin {"nil", "empty"} THEN c ELSE content[p]]

(* The client writes to its own object: also to whatever the cache and      *)
(* other copies share with it.                                              *)
Edit(c, part) ==
    /\ held[c].rv # 0
    /\ LET reach(d) == IF d = c THEN Part(part)
                       ELSE IF {c, d} \subseteq sharing THEN Part(part) \cap Shared(kind)
                       ELSE {}
       IN  /\ held' = [d \in Client |->
                          [held[d] EXCEPT !.content = Mark(@, reach(d), c)]]
           /\ cache' = IF c \in sharing
                       THEN [cache EXCEPT !.content =
                                Mark(@, Part(part) \cap Shared(kind), c)]
                       ELSE cache
    /\ result' = [result EXCEPT ![c] = NoResult]
    /\ UNCHANGED <<kind, history, sharing>>

(* What a write that the server accepted returns to the client. *)
Answer(c) == Receive(c, Stored)'

(* Create, Update and UpdateStatus. Nothing changes for an object that is   *)
(* stored as it is. The second outcome is an error: the write was refused,  *)
(* came too late, or was done and its answer lost.                          *)
Write(c, op) ==
    /\ op = "create" => held[c].rv = 0
    /\ op = "status" => HasStatus(kind)
    /\ UNCHANGED <<kind, cache>>
    /\ LET req == Request(c, op)
           verdict == Verdict(req)
           changes == ~Live \/ Merged(req) # Last(history).content
       IN  /\ IF verdict = "ok" /\ changes
              THEN /\ Len(history) < MaxWrites
                   /\ history' = Append(history,
                          [op |-> op, base |-> held[c].rv, live |-> TRUE,
                           content |-> Merged(req), long |-> req.object.long])
              ELSE UNCHANGED history
           /\ \/ /\ verdict = "ok"
                 /\ result' = [result EXCEPT ![c] =
                                  [status |-> "ok", op |-> op, object |-> held[c]]]
                 /\ held' = [held EXCEPT ![c] = Answer(c)]
                 /\ sharing' = sharing \ {c}
              \/ /\ result' = [result EXCEPT ![c] =
                        IF verdict = "refused"
                        THEN [status |-> verdict, op |-> op, object |-> held[c]]
                        ELSE NoResult]
                 /\ UNCHANGED <<held, sharing>>

(* Delete and DeleteCollection, which convert nothing. *)
Delete(c) ==
    /\ Live
    /\ Len(history) < MaxWrites
    /\ history' = Append(history, [Last(history) EXCEPT
                              !.op = "delete", !.live = FALSE, !.base = Len(history)])
    /\ UNCHANGED <<kind, cache, held, sharing, result>>

Next ==
    \/ InformerStore
    \/ \E c \in Client :
        \/ ListerGet(c)
        \/ ClientGet(c)
        \/ \E part \in {"Spec", "Status"} : Edit(c, part)
        \/ \E op \in {"create", "update", "status"} : Write(c, op)
        \/ Delete(c)

Spec == Init /\ [][Next]_vars

-----------------------------------------------------------------------------
\* Properties

(* Every variable has its type, no field is lost from an object, and        *)
(* clients of the native group never see the group of the CRDs.             *)
TypeOK ==
    /\ kind \in {"policy", "binding"}
    /\ Len(history) <= MaxWrites
    /\ cache.rv \in 0..MaxWrites
    /\ DOMAIN cache.content = Path(kind)
    /\ \A c \in Client :
          /\ held[c].rv \in 0..MaxWrites
          /\ DOMAIN held[c].content = Path(kind)
          /\ c \in Proxied => held[c].group # Custom
    /\ sharing \subseteq Client
    /\ \A c \in Client : result[c].status \in {"none", "ok", "refused"}

(* The informer's cache holds what the server stored under that resource    *)
(* version, whatever its readers do to their deep copies: DeepCopyInto of   *)
(* every type leaves no reference of types.go shared.                       *)
CacheFaithful ==
    cache.rv # 0 => cache.content = history[cache.rv].content

Written(op) ==
    CASE op = "create" -> Path(kind) \ Part("Status")
      [] op = "update" -> Path(kind) \ Part("Status")
      [] op = "status" -> Part("Status")

(* What becomes of a value on its way between c and the server. *)
Passed(c, value, old, new) ==
    IF c \in Proxied /\ value = old THEN new ELSE value

(* An acknowledged write is stored whole: what the client set is there, and *)
(* what it gets back is what the server has under that version. Through two *)
(* JSON conversions only the difference between nil and an empty slice is   *)
(* lost, and only defaults come in. The proxy, which replaces the group in  *)
(* the whole body, changes values that mention a group and nothing else: a  *)
(* mention of the native group is stored as one of the CRD group, and every *)
(* mention of the CRD group is shown to its client as one of the native.    *)
AckedIsStored ==
    \A c \in Client : result[c].status = "ok" =>
        /\ held[c].rv \in 1..Len(history)
        /\ \A p \in Path(kind) :
              held[c].content[p] =
                  Passed(c, history[held[c].rv].content[p], Custom, Native)
        /\ \A p \in Written(result[c].op) :
              LET was == result[c].object.content[p]
                  stored == history[held[c].rv].content[p]
              IN  \/ stored = Passed(c, was, Native, Custom)
                  \/ was \in {"nil", "empty"} /\ stored \in {"nil", "default"}

(* A client that repeats a write whose answer was lost, or writes back what *)
(* another client has changed meanwhile, never undoes a change it has not   *)
(* seen: conversion and proxy keep the resource version.                    *)
NoLostUpdate ==
    \A i \in 1..Len(history) :
        history[i].op \in {"update", "status"} => history[i].base = i - 1

(* UpdateStatus changes nothing but the status and Update everything but,   *)
(* however old the other part is in the object that is sent.                *)
SpecStatusSeparate ==
    \A i \in 2..Len(history) : history[i].op \in {"update", "status"} =>
        \A p \in Path(kind) \ Written(history[i].op) :
            history[i].content[p] = history[i - 1].content[p]

(* A write is refused for its form only if a required field is missing, if  *)
(* the object was never read, or if the proxy cut a line that is too long   *)
(* for its scanner.                                                         *)
RefusedForCause ==
    \A c \in Client : result[c].status = "refused" =>
        \/ ~Complete(result[c].object.content)
        \/ result[c].op # "create" /\ result[c].object.rv = 0
        \/ c \in Proxied /\ result[c].object.long
=============================================================================
