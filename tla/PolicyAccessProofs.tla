------------------------- MODULE PolicyAccessProofs -------------------------
(***************************************************************************)
(* Proofs about PolicyAccess: that no client of the generated code, of the *)
(* transformed client or of the proxy loses, mixes up or shares what it    *)
(* reads and writes, for any number of clients of each kind and any number *)
(* of writes.                                                              *)
(*                                                                         *)
(* The properties speak of contents, so the invariant says what a content  *)
(* is (Object, Entry), that versions in the hands of clients are versions  *)
(* the server has given out (CacheOK, ClientOK), and that no empty slice   *)
(* is stored (StoredOK): otherwise the JSON copy of TransformedClient's    *)
(* answer would differ from what is stored.  The proxy swaps the group in  *)
(* every value of a content that mentions it (Swapped), which makes no     *)
(* field nil and no nil a field.  That deep copies share nothing is a fact *)
(* about zz_generated.deepcopy.go (DeepCopyIsDeep).                        *)
(***************************************************************************)
EXTENDS PolicyAccess, TLAPS

Op == {"create", "update", "status"}
Value == {"set", "nil", "empty", "default", Native, Custom} \cup Client
Object(k) ==
    [rv : Nat, group : {"", Native, Custom, "apiregistration.k8s.io"},
     content : [Path(k) -> Value], long : BOOLEAN]
Entry(k) ==
    [op : Op \cup {"delete"}, base : Nat, live : BOOLEAN,
     content : [Path(k) -> Value], long : BOOLEAN]
Result(k) ==
    {NoResult} \cup [status : {"ok", "refused"}, op : Op, object : Object(k)]

AccessType ==
    /\ kind \in {"policy", "binding"}
    /\ history \in Seq(Entry(kind))
    /\ Len(history) <= MaxWrites
    /\ cache \in Object(kind)
    /\ held \in [Client -> Object(kind)]
    /\ sharing \subseteq Client
    /\ result \in [Client -> Result(kind)]

StoredOK ==
    \A i \in 1..Len(history) : \A p \in Path(kind) : history[i].content[p] # "empty"

HistoryOK == StoredOK /\ NoLostUpdate /\ SpecStatusSeparate

CacheOK == cache.rv <= Len(history) /\ CacheFaithful

(* What a server may store for a value that client c wrote. *)
Keeps(c, was, stored) ==
    \/ stored = Passed(c, was, Native, Custom)
    \/ was \in {"nil", "empty"} /\ stored \in {"nil", "default"}

(* AckedIsStored and RefusedForCause, for one client. *)
Acked(c) ==
    result[c].status = "ok" =>
        /\ held[c].rv \in 1..Len(history)
        /\ \A p \in Path(kind) :
              held[c].content[p] =
                  Passed(c, history[held[c].rv].content[p], Custom, Native)
        /\ \A p \in Written(result[c].op) :
              Keeps(c, result[c].object.content[p], history[held[c].rv].content[p])

Refused(c) ==
    result[c].status = "refused" =>
        \/ ~Complete(result[c].object.content)
        \/ result[c].op # "create" /\ result[c].object.rv = 0
        \/ c \in Proxied /\ result[c].object.long

ClientOK(c) ==
    /\ held[c].rv <= Len(history)
    /\ c \in Proxied => held[c].group # Custom
    /\ Acked(c)
    /\ Refused(c)

AccessInv == AccessType /\ HistoryOK /\ CacheOK /\ \A c \in Client : ClientOK(c)

-----------------------------------------------------------------------------
\* Deep copies

(* A struct with more references has more of them inside its holder. *)
LEMMA RefMonotone ==
  ASSUME NEW field, NEW A, NEW B, A \subseteq B
  PROVE  Inside(field, A) \subseteq Inside(field, B) /\ Ref(field, A) \subseteq Ref(field, B)
  BY DEF Inside, Ref

(* A reference to something without references is one cell. *)
LEMMA RefToValue == ASSUME NEW field PROVE Ref(field, {}) = New(field)
  BY DEF Ref, New, Inside

(* DeepCopyInto of every struct in types.go gives a cell of its own to      *)
(* every reference that can be reached from the struct, so an object and    *)
(* its deep copy share nothing.                                             *)
LEMMA DeepCopyIsDeep == \A k : Shared(k) = {}
<1>1. TypeChecking \subseteq CopyTypeChecking
  BY RefToValue DEF TypeChecking, CopyTypeChecking, ExpressionWarning
<1>2. ValidatingAdmissionPolicyStatus \subseteq CopyStatus
  BY <1>1, RefMonotone DEF ValidatingAdmissionPolicyStatus, CopyStatus, NewDeep
<1>3. Validation \subseteq CopyValidation
  BY RefToValue DEF Validation, CopyValidation
<1>4. NamedRuleWithOperations \subseteq CopyNamedRuleWithOperations
  BY RefToValue DEF NamedRuleWithOperations, CopyNamedRuleWithOperations
<1>5. MatchResources \subseteq CopyMatchResources
  BY <1>4, RefMonotone, RefToValue DEF MatchResources, CopyMatchResources, NewDeep
<1>6. ValidatingAdmissionPolicySpec \subseteq CopyPolicySpec
  BY <1>3, <1>5, RefMonotone, RefToValue
     DEF ValidatingAdmissionPolicySpec, CopyPolicySpec, NewDeep, ParamKind,
         AuditAnnotation, MatchCondition
<1>7. ValidatingAdmissionPolicyBindingSpec \subseteq CopyBindingSpec
  BY <1>5, RefMonotone, RefToValue
     DEF ValidatingAdmissionPolicyBindingSpec, CopyBindingSpec, NewDeep, ParamRef
<1>8. ValidatingAdmissionPolicy \subseteq CopyPolicy
  BY <1>2, <1>6, RefMonotone DEF ValidatingAdmissionPolicy, CopyPolicy
<1>9. ValidatingAdmissionPolicyBinding \subseteq CopyBinding
  BY <1>7, RefMonotone DEF ValidatingAdmissionPolicyBinding, CopyBinding
<1> QED
  BY <1>8, <1>9 DEF Shared, Path

-----------------------------------------------------------------------------
\* Conversions

(* A JSON copy has the same fields; it turns empty slices into nil and      *)
(* changes nothing else.                                                    *)
LEMMA JsonCopy ==
  ASSUME NEW k, NEW content \in [Path(k) -> Value]
  PROVE  /\ Json(content) \in [Path(k) -> Value]
         /\ Json(Json(content)) = Json(content)
         /\ \A p \in Path(k) : /\ Json(content)[p] # "empty"
                               /\ Json(content)[p] = content[p]
                                  \/ (content[p] = "empty" /\ Json(content)[p] = "nil")
         /\ (\A p \in Path(k) : content[p] # "empty") => Json(content) = content
<1>1. "nil" \in Value /\ "nil" # "empty"
  BY DEF Value
<1>2. Json(content) = [p \in Path(k) |-> IF content[p] = "empty" THEN "nil" ELSE content[p]]
  BY DEF Json
<1>3. Json(content) \in [Path(k) -> Value]
  BY <1>1, <1>2
<1>4. \A p \in Path(k) : /\ Json(content)[p] # "empty"
                         /\ Json(content)[p] = content[p]
                            \/ (content[p] = "empty" /\ Json(content)[p] = "nil")
  BY <1>1, <1>2
<1>5. \A f \in [Path(k) -> Value] :
        (\A p \in Path(k) : f[p] # "empty") => Json(f) = f
  BY DEF Json
<1> QED
  BY <1>3, <1>4, <1>5

(* A content whose mentions of one group are replaced by the other. *)
Swapped(content, old, new) == [p \in DOMAIN content |-> SwapGroup(content[p], old, new)]

(* The replacement keeps the fields, the nil ones and the empty ones. *)
LEMMA SwappedContent ==
  ASSUME NEW k, NEW content \in [Path(k) -> Value],
         NEW old \in {Native, Custom}, NEW new \in {Native, Custom}
  PROVE  /\ Swapped(content, old, new) \in [Path(k) -> Value]
         /\ \A p \in Path(k) :
               /\ Swapped(content, old, new)[p] = SwapGroup(content[p], old, new)
               /\ Swapped(content, old, new)[p] = "empty" <=> content[p] = "empty"
               /\ Swapped(content, old, new)[p] = "nil" <=> content[p] = "nil"
<1>1. /\ old # "empty" /\ old # "nil" /\ new # "empty" /\ new # "nil"
      /\ new \in Value
  BY DEF Native, Custom, Value
<1>2. Swapped(content, old, new) = [p \in Path(k) |-> SwapGroup(content[p], old, new)]
  BY DEF Swapped
<1> QED
  BY <1>1, <1>2 DEF SwapGroup

(* The content that client c puts into a request: a JSON copy, which the    *)
(* proxy rewrites on its way.                                               *)
Sent(c, content) ==
    IF c \in Proxied THEN Swapped(Json(content), Native, Custom) ELSE Json(content)

(* What is sent has the client's fields; nil stands for an empty slice and  *)
(* for nothing else that was set.                                           *)
LEMMA SentContent ==
  ASSUME NEW k, NEW c \in Client, NEW content \in [Path(k) -> Value]
  PROVE  /\ Sent(c, content) \in [Path(k) -> Value]
         /\ \A p \in Path(k) :
               /\ Sent(c, content)[p] # "empty"
               /\ Sent(c, content)[p] = "nil" <=> content[p] \in {"nil", "empty"}
               /\ Sent(c, content)[p] = Passed(c, content[p], Native, Custom)
                  \/ (content[p] = "empty" /\ Sent(c, content)[p] = "nil")
<1> DEFINE json == Json(content)
<1>1. /\ json \in [Path(k) -> Value]
      /\ \A p \in Path(k) : /\ json[p] # "empty"
                            /\ json[p] = content[p]
                               \/ (content[p] = "empty" /\ json[p] = "nil")
  BY JsonCopy
<1> DEFINE sent == Sent(c, content)
<1>2. CASE c \in Proxied
  <2>1. sent = Swapped(json, Native, Custom)
    BY <1>2 DEF Sent
  <2> HIDE DEF json, sent
  <2>2. /\ sent \in [Path(k) -> Value]
        /\ \A p \in Path(k) : /\ sent[p] = SwapGroup(json[p], Native, Custom)
                              /\ sent[p] = "empty" <=> json[p] = "empty"
                              /\ sent[p] = "nil" <=> json[p] = "nil"
    BY <1>1, <2>1, SwappedContent
  <2>3. \A v : SwapGroup(v, Native, Custom) = Passed(c, v, Native, Custom)
    BY <1>2 DEF SwapGroup, Passed
  <2> HIDE DEF sent
  <2>4. "nil" # "empty"
    OBVIOUS
  <2> QED
    BY <1>1, <2>2, <2>3, <2>4 DEF sent
<1>3. CASE c \notin Proxied
  <2>1. sent = json
    BY <1>3 DEF Sent
  <2>2. \A v : Passed(c, v, Native, Custom) = v
    BY <1>3 DEF Passed
  <2> HIDE DEF json, sent
  <2> QED
    BY <1>1, <2>1, <2>2 DEF sent
<1> QED
  BY <1>2, <1>3

(* What is sent misses a required field where the object does. *)
LEMMA SentComplete ==
  ASSUME NEW c \in Client, NEW content \in [Path(kind) -> Value]
  PROVE  Complete(Sent(c, content)) <=> Complete(content)
<1>1. \A p \in Path(kind) :
        Sent(c, content)[p] \in {"nil", "empty"} <=> content[p] \in {"nil", "empty"}
  BY SentContent
<1> QED
  BY <1>1 DEF Complete

(* The body of a request is the client's object under one group. *)
Body(object, group) ==
    [rv |-> object.rv, group |-> group, content |-> Json(object.content),
     long |-> object.long]

(* The body that reaches the server. *)
SentBody(c, object) ==
    [rv |-> object.rv, group |-> Custom, content |-> Sent(c, object.content),
     long |-> object.long]

(* The records that the conversions make of an object. *)
LEMMA ObjectExcept ==
  ASSUME NEW k, NEW object \in Object(k)
  PROVE  \A j, g : [object EXCEPT !.content = j, !.group = g] =
           [rv |-> object.rv, group |-> g, content |-> j, long |-> object.long]
<1> TAKE j, g
<1> DEFINE x == [rv |-> object.rv, group |-> object.group, content |-> j,
                 long |-> object.long]
<1>1. object = [rv |-> object.rv, group |-> object.group, content |-> object.content,
                long |-> object.long]
  BY DEF Object
<1>2. [object EXCEPT !.content = j] = x
  BY <1>1
<1>3. [x EXCEPT !.group = g] =
        [rv |-> object.rv, group |-> g, content |-> j, long |-> object.long]
  OBVIOUS
<1> HIDE DEF x
<1> QED
  BY <1>2, <1>3, Zenon

(* The generated typed client puts its object, as JSON and under the group  *)
(* of the CRDs, into the request; a converted object is sent as the         *)
(* original would be.                                                       *)
LEMMA TypedBody ==
  ASSUME NEW k, NEW object \in Object(k), NEW m, NEW s
  PROVE  /\ TypedRequest(m, s, object) =
              [method |-> m, sub |-> s, path |-> Custom, decodes |-> TRUE,
               object |-> Body(object, Custom)]
         /\ Converted(object, Custom) \in Object(k)
         /\ Body(Converted(object, Custom), Custom) = Body(object, Custom)
<1>1. object.content \in [Path(k) -> Value]
  BY DEF Object
<1>2. Json(object.content) \in [Path(k) -> Value]
      /\ Json(Json(object.content)) = Json(object.content)
  BY <1>1, JsonCopy
<1>3. [object EXCEPT !.content = Json(@), !.group = Custom] = Body(object, Custom)
  BY ObjectExcept DEF Body
<1>4. TypedRequest(m, s, object) =
        [method |-> m, sub |-> s, path |-> Custom, decodes |-> TRUE,
         object |-> Body(object, Custom)]
  BY <1>3, Zenon DEF TypedRequest
<1> DEFINE g == IF object.group = "" THEN "" ELSE Custom
           j == Json(object.content)
           copy == Converted(object, Custom)
<1>5. copy = [rv |-> object.rv, group |-> g, content |-> j, long |-> object.long]
  BY ObjectExcept DEF Converted
<1>6. g \in {"", Native, Custom, "apiregistration.k8s.io"}
  OBVIOUS
<1> HIDE DEF g, j, copy
<1>7. copy \in Object(k)
  <2>1. object.rv \in Nat /\ object.long \in BOOLEAN
    BY DEF Object
  <2> QED
    BY <1>2, <1>5, <1>6, <2>1 DEF Object, j
<1>8. copy.rv = object.rv /\ copy.content = j /\ copy.long = object.long
  BY <1>5
<1>9. Body(copy, Custom) = Body(object, Custom)
  BY <1>2, <1>8, Zenon DEF Body, j
<1> QED
  BY <1>4, <1>7, <1>9 DEF copy

(* The proxy turns the request of a native client into one for the CRDs,    *)
(* with the group replaced in the whole body, which can be decoded if no    *)
(* line was too long.                                                       *)
LEMMA NativeBody ==
  ASSUME NEW k, NEW object \in Object(k), NEW c \in Proxied, NEW m, NEW s
  PROVE  NativeRequest(m, s, object) =
           [method |-> m, sub |-> s, path |-> Custom, decodes |-> ~object.long,
            object |-> SentBody(c, object)]
<1>1. [object EXCEPT !.content = Json(@), !.group = Native] = Body(object, Native)
  BY ObjectExcept DEF Body
<1> DEFINE body == Body(object, Native)
           sent == [method |-> m, sub |-> s, path |-> Native, decodes |-> TRUE,
                    object |-> body]
<1>2. NativeRequest(m, s, object) = Rewrite(sent)
  BY <1>1, Zenon DEF NativeRequest
<1>3. sent.path = Native /\ sent.decodes = TRUE /\ sent.object = body
  BY Zenon
<1>4. body.long = object.long /\ body.group = Native /\ body.rv = object.rv
      /\ body.content = Json(object.content)
  BY DEF Body
<1> DEFINE to == ReplaceInBody(body, Native, Custom)
           d == sent.decodes /\ ~sent.object.long
           s1 == [method |-> m, sub |-> s, path |-> Custom, decodes |-> TRUE,
                  object |-> body]
           s2 == [method |-> m, sub |-> s, path |-> Custom, decodes |-> d,
                  object |-> body]
           s3 == [method |-> m, sub |-> s, path |-> Custom, decodes |-> d,
                  object |-> to]
<1>5. [sent EXCEPT !.path = Custom,
                   !.decodes = @ /\ ~sent.object.long,
                   !.object = ReplaceInBody(@, Native, Custom)] = s3
  <2> HIDE DEF d, body, to
  <2>1. [sent EXCEPT !.path = Custom] = s1
    <3>1. \A t : [[method |-> m, sub |-> s, path |-> Native, decodes |-> t, object |-> body]
                      EXCEPT !.path = Custom] =
                 [method |-> m, sub |-> s, path |-> Custom, decodes |-> t, object |-> body]
      OBVIOUS
    <3> QED
      BY <3>1, Zenon
  <2>2. [s1 EXCEPT !.decodes = d] = s2
    OBVIOUS
  <2>3. [s2 EXCEPT !.object = to] = s3
    OBVIOUS
  <2>4. [s2 EXCEPT !.object = ReplaceInBody(sent.object, Native, Custom)] = s3
    <3>1. sent.object = body
      BY Zenon
    <3> QED
      BY <2>3, <3>1, Zenon DEF to
  <2> HIDE DEF s1, s2, s3
  <2> QED
    BY <2>1, <2>2, <2>4, Zenon DEF d
<1>6. to = SentBody(c, object)
  <2> DEFINE j == Json(object.content)
             w == Swapped(j, Native, Custom)
             b == [rv |-> object.rv, group |-> Native, content |-> j, long |-> object.long]
             b1 == [rv |-> object.rv, group |-> Custom, content |-> j, long |-> object.long]
             b2 == [rv |-> object.rv, group |-> Custom, content |-> w, long |-> object.long]
  <2>1. body = b /\ SwapGroup(body.group, Native, Custom) = Custom /\ body.content = j
    BY <1>4, Zenon DEF Body, SwapGroup
  <2>2. [p \in DOMAIN body.content |-> SwapGroup(body.content[p], Native, Custom)] = w
    BY <2>1, Zenon DEF Swapped
  <2>3. to = [body EXCEPT !.group = SwapGroup(body.group, Native, Custom),
                          !.content = [p \in DOMAIN body.content |->
                                          SwapGroup(body.content[p], Native, Custom)]]
    BY Zenon DEF ReplaceInBody
  <2> HIDE DEF j, w, to
  <2>4. [b EXCEPT !.group = Custom] = b1
    OBVIOUS
  <2>5. [b1 EXCEPT !.content = w] = b2
    OBVIOUS
  <2>6. to = b2
    <3> HIDE DEF b, b1, b2, body
    <3> QED
      BY <2>1, <2>2, <2>3, <2>4, <2>5, Zenon
  <2>7. SentBody(c, object) = b2
    BY Zenon DEF SentBody, Sent, w, j
  <2> QED
    BY <2>6, <2>7
<1>7. d = ~object.long
  BY <1>3, <1>4
<1>8. Rewrite(sent) =
        [sent EXCEPT !.path = Custom,
                     !.decodes = @ /\ ~sent.object.long,
                     !.object = ReplaceInBody(@, Native, Custom)]
  BY <1>3, Zenon DEF Rewrite
<1> HIDE DEF sent, body, to, d
<1> QED
  BY <1>2, <1>5, <1>6, <1>7, <1>8, Zenon

(* The request of a client of any kind, in one form. *)
LEMMA RequestIs ==
  ASSUME AccessType, NEW c \in Client, NEW op \in Op
  PROVE  Request(c, op) =
           [method |-> IF op = "create" THEN "POST" ELSE "PUT",
            sub |-> IF op = "status" THEN "status" ELSE "",
            path |-> Custom,
            decodes |-> IF c \in Proxied THEN ~held[c].long ELSE TRUE,
            object |-> SentBody(c, held[c])]
<1> DEFINE object == held[c]
           req == Request(c, op)
           m == IF op = "create" THEN "POST" ELSE "PUT"
           sub == IF op = "status" THEN "status" ELSE ""
<1>1. object \in Object(kind)
  BY DEF AccessType
<1>2. /\ (c \in Lister => c \notin Wrapped /\ c \notin Proxied)
      /\ (c \in Wrapped => c \notin Proxied)
  BY AccessAssumption
<1>0. c \notin Proxied => SentBody(c, object) = Body(object, Custom)
  BY Zenon DEF SentBody, Sent, Body
<1> HIDE DEF object, m, sub
<1>3. CASE c \in Lister
  <2>1. req = [create |-> Create(object), update |-> Update(object),
               status |-> UpdateStatus(object)][op]
    BY <1>2, <1>3 DEF Request, object
  <2>2. req = TypedRequest(m, sub, object)
    <3>1. CASE op = "create"
      BY <2>1, <3>1 DEF Create, m, sub
    <3>2. CASE op = "update"
      BY <2>1, <3>2 DEF Update, m, sub
    <3>3. CASE op = "status"
      BY <2>1, <3>3 DEF UpdateStatus, m, sub
    <3> QED
      BY <3>1, <3>2, <3>3 DEF Op
  <2>3. TypedRequest(m, sub, object) =
          [method |-> m, sub |-> sub, path |-> Custom, decodes |-> TRUE,
           object |-> Body(object, Custom)]
    BY <1>1, TypedBody
  <2> QED
    BY <1>0, <1>2, <1>3, <2>2, <2>3 DEF object, m, sub
<1>4. CASE c \in Wrapped
  <2>1. req = [create |-> TransformedCreate(object), update |-> TransformedUpdate(object),
               status |-> TransformedUpdateStatus(object)][op]
    BY <1>2, <1>4 DEF Request, object
  <2>2. req = TypedRequest(m, sub, From(object))
    <3>1. CASE op = "create"
      BY <2>1, <3>1 DEF Create, TransformedCreate, m, sub
    <3>2. CASE op = "update"
      BY <2>1, <3>2 DEF Update, TransformedUpdate, m, sub
    <3>3. CASE op = "status"
      BY <2>1, <3>3 DEF UpdateStatus, TransformedUpdateStatus, m, sub
    <3> QED
      BY <3>1, <3>2, <3>3 DEF Op
  <2>3. From(object) = Converted(object, Custom)
    BY DEF From, NativeToCRDPolicy, NativeToCRDPolicyBinding
  <2>4. /\ TypedRequest(m, sub, From(object)) =
             [method |-> m, sub |-> sub, path |-> Custom, decodes |-> TRUE,
              object |-> Body(From(object), Custom)]
        /\ Body(From(object), Custom) = Body(object, Custom)
    <3>1. From(object) \in Object(kind) /\ Body(From(object), Custom) = Body(object, Custom)
      BY <1>1, <2>3, TypedBody
    <3> QED
      BY <3>1, TypedBody
  <2> QED
    BY <1>0, <1>2, <1>4, <2>2, <2>4 DEF object, m, sub
<1>5. CASE c \in Proxied
  <2> DEFINE a == [create |-> Create(object), update |-> Update(object),
                   status |-> UpdateStatus(object)][op]
             b == [create |-> TransformedCreate(object), update |-> TransformedUpdate(object),
                   status |-> TransformedUpdateStatus(object)][op]
             n == NativeRequest(m, sub, object)
  <2>1. req = n
    <3>1. req = CASE c \in Lister -> a [] c \in Wrapped -> b [] c \in Proxied -> n
      BY Zenon DEF Request, object, m, sub
    <3> HIDE DEF a, b, n, req
    <3> QED
      BY <1>2, <1>5, <3>1
  <2> QED
    BY <1>1, <1>5, <2>1, NativeBody DEF object, m, sub
<1> QED
  BY <1>3, <1>4, <1>5 DEF Client

(* What a client of any kind sends: the verb and the subresource of the     *)
(* operation, the path and the group of the CRDs, and its own object, with  *)
(* the version it was read at and the content that the proxy leaves of it;  *)
(* only a line too long for the proxy makes it undecodable.                 *)
LEMMA RequestSent ==
  ASSUME AccessType, NEW c \in Client, NEW op \in Op
  PROVE  LET req == Request(c, op) IN
         /\ req.method = (IF op = "create" THEN "POST" ELSE "PUT")
         /\ req.sub = (IF op = "status" THEN "status" ELSE "")
         /\ req.path = Custom
         /\ req.decodes = (IF c \in Proxied THEN ~held[c].long ELSE TRUE)
         /\ req.object.rv = held[c].rv
         /\ req.object.group = Custom
         /\ req.object.content = Sent(c, held[c].content)
         /\ req.object.long = held[c].long
<1> DEFINE req == Request(c, op)
           d == IF c \in Proxied THEN ~held[c].long ELSE TRUE
           body == SentBody(c, held[c])
<1>1. req = [method |-> IF op = "create" THEN "POST" ELSE "PUT",
             sub |-> IF op = "status" THEN "status" ELSE "",
             path |-> Custom, decodes |-> d, object |-> body]
  BY RequestIs
<1>2. body.rv = held[c].rv /\ body.group = Custom
      /\ body.content = Sent(c, held[c].content) /\ body.long = held[c].long
  BY DEF SentBody
<1> HIDE DEF d, body, req
<1>3. req.method = (IF op = "create" THEN "POST" ELSE "PUT")
      /\ req.sub = (IF op = "status" THEN "status" ELSE "")
      /\ req.path = Custom /\ req.decodes = d /\ req.object = body
  BY <1>1
<1> QED
  BY <1>2, <1>3 DEF d, req

(* Receive, with the one conversion there is for both kinds. *)
Got(c, object) ==
    CASE c \in Lister  -> [object EXCEPT !.group = ""]
      [] c \in Wrapped -> Converted([object EXCEPT !.group = ""], "apiregistration.k8s.io")
      [] c \in Proxied -> ModifyResponse(Custom, object)

(* A client receives the same whichever the kind of the object. *)
LEMMA ReceiveIsGot ==
  ASSUME NEW c \in Client
  PROVE  /\ Receive(c, Stored) = Got(c, Stored)
         /\ Answer(c) = Got(c, Stored')
  BY Zenon DEF Answer, Receive, Got, TransformedResult, To, CRDToNativePolicy,
               CRDToNativePolicyBinding

(* What a client of any kind receives of an object that the server sends:   *)
(* the same version and content, if no empty slice is in it, but for the    *)
(* mentions of a group that the proxy replaces, and never the group of the  *)
(* CRDs behind the proxy.                                                   *)
LEMMA ReceivedIsSent ==
  ASSUME NEW k, NEW c \in Client, NEW object \in Object(k), object.group = Custom,
         \A p \in Path(k) : object.content[p] # "empty"
  PROVE  LET got == Got(c, object) IN
         /\ got \in Object(k)
         /\ got.rv = object.rv
         /\ \A p \in Path(k) :
               got.content[p] = Passed(c, object.content[p], Custom, Native)
         /\ c \in Proxied => got.group # Custom
<1> DEFINE got == Got(c, object)
<1>1. object.content \in [Path(k) -> Value]
  BY DEF Object
<1>2. Json(object.content) = object.content
  BY <1>1, JsonCopy
<1>3. /\ (c \in Lister => c \notin Wrapped /\ c \notin Proxied)
      /\ (c \in Wrapped => c \notin Proxied)
  BY AccessAssumption
<1>4. Native # Custom /\ "" # Custom
  BY DEF Native, Custom
<1>5. c \notin Proxied => \A v : Passed(c, v, Custom, Native) = v
  BY DEF Passed
<1>6. CASE c \in Lister
  <2>1. got = [object EXCEPT !.group = ""]
    BY <1>3, <1>6 DEF Got
  <2>2. got \in Object(k) /\ got.rv = object.rv /\ got.content = object.content
    BY <2>1 DEF Object
  <2> QED
    BY <1>3, <1>5, <1>6, <2>2
<1>7. CASE c \in Wrapped
  <2>1. got = Converted([object EXCEPT !.group = ""], "apiregistration.k8s.io")
    BY <1>3, <1>7 DEF Got
  <2>2. got \in Object(k) /\ got.rv = object.rv /\ got.content = object.content
    BY <1>2, <2>1 DEF Object, Converted
  <2> QED
    BY <1>3, <1>5, <1>7, <2>2
<1>8. CASE c \in Proxied
  <2> DEFINE w == Swapped(object.content, Custom, Native)
             x == [rv |-> object.rv, group |-> Native, content |-> w, long |-> object.long]
  <2>1. got = ReplaceInBody(object, Custom, Native)
    <3> DEFINE t == ReplaceInBody(object, Custom, Native)
    <3>1. got = ModifyResponse(Custom, object)
      BY <1>3, <1>8 DEF Got
    <3>2. ModifyResponse(Custom, object) = t
      BY Zenon DEF ModifyResponse
    <3> QED
      BY <3>1, <3>2
  <2>2. ReplaceInBody(object, Custom, Native) = [object EXCEPT !.group = Native, !.content = w]
    BY Zenon DEF ReplaceInBody, SwapGroup, Swapped
  <2>3. w \in [Path(k) -> Value]
        /\ \A p \in Path(k) : w[p] = SwapGroup(object.content[p], Custom, Native)
    BY <1>1, SwappedContent
  <2> HIDE DEF w, got
  <2>4. got \in Object(k) /\ got.rv = object.rv /\ got.content = w /\ got.group = Native
    BY <2>1, <2>2, <2>3 DEF Object
  <2>5. \A v : SwapGroup(v, Custom, Native) = Passed(c, v, Custom, Native)
    BY <1>8 DEF SwapGroup, Passed
  <2> QED
    BY <1>4, <2>3, <2>4, <2>5 DEF got
<1> QED
  BY <1>6, <1>7, <1>8 DEF Client
-----------------------------------------------------------------------------
\* The server

StoredIn(h) ==
    [rv |-> Len(h), group |-> Custom, content |-> Last(h).content, long |-> Last(h).long]

(* The object that a server with history h sends is the last one of it. *)
LEMMA LastStored ==
  ASSUME NEW k, NEW h \in Seq(Entry(k)), h # <<>>,
         \A p \in Path(k) : h[Len(h)].content[p] # "empty"
  PROVE  /\ Len(h) \in 1..Len(h)
         /\ Last(h) = h[Len(h)] /\ Last(h) \in Entry(k)
         /\ StoredIn(h) \in Object(k)
         /\ StoredIn(h).rv = Len(h)
         /\ StoredIn(h).group = Custom
         /\ StoredIn(h).content = Last(h).content
         /\ \A p \in Path(k) : StoredIn(h).content[p] # "empty"
<1>1. Len(h) \in Nat /\ Len(h) \in 1..Len(h)
  OBVIOUS
<1>2. Last(h) = h[Len(h)]
  BY DEF Last
<1>3. Last(h) \in Entry(k)
  BY <1>1, <1>2
<1>4. Last(h).content \in [Path(k) -> Value] /\ Last(h).long \in BOOLEAN
  BY <1>3 DEF Entry
<1> DEFINE content == Last(h).content
           long == Last(h).long
<1>5. StoredIn(h) = [rv |-> Len(h), group |-> Custom, content |-> content, long |-> long]
  BY Zenon DEF StoredIn
<1>6. \A p \in Path(k) : content[p] # "empty"
  BY <1>1, <1>2
<1> HIDE DEF content, long
<1>7. StoredIn(h) \in Object(k)
  BY <1>1, <1>4, <1>5 DEF Object, content, long
<1>8. StoredIn(h).rv = Len(h) /\ StoredIn(h).group = Custom /\ StoredIn(h).content = content
  BY <1>5
<1> QED
  BY <1>1, <1>2, <1>3, <1>6, <1>7, <1>8 DEF content

(* The same for the server's own history. *)
LEMMA StoredIsLast ==
  ASSUME AccessType, StoredOK, history # <<>>
  PROVE  /\ Len(history) \in 1..Len(history)
         /\ Last(history) = history[Len(history)] /\ Last(history) \in Entry(kind)
         /\ Stored \in Object(kind)
         /\ Stored.rv = Len(history)
         /\ Stored.group = Custom
         /\ Stored.content = Last(history).content
         /\ \A p \in Path(kind) : Stored.content[p] # "empty"
<1>1. Stored = StoredIn(history)
  BY Zenon DEF Stored, StoredIn
<1>2. history \in Seq(Entry(kind)) /\ Len(history) \in 1..Len(history)
  BY DEF AccessType
<1>3. \A p \in Path(kind) : history[Len(history)].content[p] # "empty"
  BY <1>2 DEF StoredOK
<1> QED
  BY <1>1, <1>2, <1>3, LastStored

(* What the server makes of a write: the part that the operation is for     *)
(* comes from the client, with nil for an empty slice, a default for nil    *)
(* and what the proxy replaced, and the rest is kept.                       *)
LEMMA MergedWrite ==
  ASSUME AccessType, StoredOK, NEW c \in Client, NEW op \in Op,
         op # "create" => history # <<>>
  PROVE  LET new == Merged(Request(c, op)) IN
         /\ new \in [Path(kind) -> Value]
         /\ \A p \in Path(kind) : new[p] # "empty"
         /\ op # "create" => \A p \in Path(kind) \ Written(op) :
                                new[p] = Last(history).content[p]
         /\ \A p \in Written(op) : Keeps(c, held[c].content[p], new[p])
<1> DEFINE req == Request(c, op)
           sent == Sent(c, held[c].content)
           dflt == Default(sent)
           old == IF req.method = "POST" THEN [p \in Path(kind) |-> "nil"]
                                         ELSE Last(history).content
           kept == IF req.sub = "status" THEN Path(kind) \ Part("Status") ELSE Part("Status")
           new == Merged(req)
<1>1. held[c].content \in [Path(kind) -> Value]
  BY DEF AccessType, Object
<1>2. /\ sent \in [Path(kind) -> Value]
      /\ \A p \in Path(kind) : /\ sent[p] # "empty"
                               /\ sent[p] = "nil" <=> held[c].content[p] \in {"nil", "empty"}
                               /\ sent[p] = Passed(c, held[c].content[p], Native, Custom)
                                  \/ (held[c].content[p] = "empty" /\ sent[p] = "nil")
  BY <1>1, SentContent
<1>3. /\ req.method = (IF op = "create" THEN "POST" ELSE "PUT")
      /\ req.sub = (IF op = "status" THEN "status" ELSE "")
      /\ req.object.content = sent
  BY RequestSent
<1>4. new = [p \in Path(kind) |-> IF p \in kept THEN old[p] ELSE dflt[p]]
  BY <1>3, Zenon DEF Merged
<1>5. Written(op) \subseteq Path(kind) /\ kept = Path(kind) \ Written(op)
  <2>1. CASE op = "status"
    BY <1>3, <2>1 DEF Written, Part
  <2>2. CASE op = "create"
    BY <1>3, <2>2 DEF Written, Part
  <2>3. CASE op = "update"
    BY <1>3, <2>3 DEF Written, Part
  <2> QED
    BY <2>1, <2>2, <2>3 DEF Op
<1>6. "default" \in Value /\ "nil" \in Value /\ "default" # "empty" /\ "nil" # "empty"
  BY DEF Value
<1> HIDE DEF sent
<1>7. /\ dflt \in [Path(kind) -> Value]
      /\ \A p \in Path(kind) : /\ dflt[p] # "empty"
                               /\ dflt[p] = sent[p]
                                  \/ (sent[p] = "nil" /\ dflt[p] = "default")
  BY <1>2, <1>6 DEF Default
<1>8. /\ old \in [Path(kind) -> Value]
      /\ \A p \in Path(kind) : old[p] # "empty"
      /\ op # "create" => old = Last(history).content
  <2>1. CASE op = "create"
    BY <1>3, <1>6, <2>1
  <2>2. CASE op # "create"
    <3>1. old = Last(history).content
      BY <1>3, <2>2
    <3>2. Stored.content = Last(history).content /\ Stored \in Object(kind)
          /\ \A p \in Path(kind) : Stored.content[p] # "empty"
      BY <2>2, StoredIsLast
    <3> QED
      BY <3>1, <3>2 DEF Object
  <2> QED
    BY <2>1, <2>2
<1> HIDE DEF dflt, old, kept, new, req
<1>9. new \in [Path(kind) -> Value] /\ \A p \in Path(kind) : new[p] # "empty"
  BY <1>4, <1>7, <1>8
<1>10. op # "create" => \A p \in Path(kind) \ Written(op) : new[p] = Last(history).content[p]
  BY <1>4, <1>5, <1>8
<1>11. \A p \in Written(op) : Keeps(c, held[c].content[p], new[p])
  BY <1>2, <1>4, <1>5, <1>7 DEF Keeps
<1> QED
  BY <1>9, <1>10, <1>11 DEF new, req

(* The server takes a create of what does not exist, and an update only of  *)
(* the version that it has.                                                 *)
LEMMA VerdictOk ==
  ASSUME AccessType, NEW c \in Client, NEW op \in Op, Verdict(Request(c, op)) = "ok"
  PROVE  /\ op = "create" => held[c].rv = 0
         /\ op # "create" => Live /\ held[c].rv = Len(history)
<1> DEFINE req == Request(c, op)
<1>1. req.method = (IF op = "create" THEN "POST" ELSE "PUT") /\ req.object.rv = held[c].rv
  BY RequestSent
<1>2. WellFormed(req)
  BY DEF Verdict
<1>3. (req.method = "POST") <=> (req.object.rv = 0)
  BY <1>2 DEF WellFormed
<1> HIDE DEF req
<1>4. req.method # "POST" => Live /\ req.object.rv = Len(history)
  BY <1>2 DEF Verdict, req
<1> QED
  BY <1>1, <1>3, <1>4

(* The server refuses a write for its form only if the object is not        *)
(* complete, was never read, or came through the proxy with a long line.    *)
LEMMA VerdictRefused ==
  ASSUME AccessType, NEW c \in Client, NEW op \in Op,
         op = "create" => held[c].rv = 0, Verdict(Request(c, op)) = "refused"
  PROVE  \/ ~Complete(held[c].content)
         \/ op # "create" /\ held[c].rv = 0
         \/ c \in Proxied /\ held[c].long
<1> DEFINE req == Request(c, op)
<1>1. /\ req.method = (IF op = "create" THEN "POST" ELSE "PUT")
      /\ req.path = Custom
      /\ req.decodes = (IF c \in Proxied THEN ~held[c].long ELSE TRUE)
      /\ req.object.rv = held[c].rv /\ req.object.group = Custom
      /\ req.object.content = Sent(c, held[c].content)
  BY RequestSent
<1>2. ~WellFormed(req)
  BY DEF Verdict
<1>3. Complete(Sent(c, held[c].content)) <=> Complete(held[c].content)
  BY SentComplete DEF AccessType, Object
<1> HIDE DEF req
<1>4. CASE ~req.decodes
  BY <1>1, <1>4
<1>5. CASE ~((req.method = "POST") <=> (req.object.rv = 0))
  BY <1>1, <1>5
<1>6. CASE ~Complete(req.object.content)
  BY <1>1, <1>3, <1>6
<1> QED
  BY <1>1, <1>2, <1>4, <1>5, <1>6 DEF WellFormed
-----------------------------------------------------------------------------
\* What a step leaves alone

(* The history goes on and nothing in it is rewritten. *)
Extends ==
    /\ kind' = kind
    /\ Len(history') \in Nat /\ Len(history) \in Nat /\ Len(history) <= Len(history')
    /\ \A i \in 1..Len(history) : history'[i] = history[i]

(* A client that the step is not about keeps what it has been promised. *)
LEMMA OtherClient ==
  ASSUME AccessInv, Extends, NEW d \in Client, held'[d] = held[d], result'[d] = result[d]
  PROVE  ClientOK(d)'
<1>1. ClientOK(d)
  BY DEF AccessInv
<1>2. held[d].rv \in Nat
  BY DEF AccessInv, AccessType, Object
<1>3. held'[d].rv <= Len(history')
  BY <1>1, <1>2 DEF ClientOK, Extends
<1>4. Acked(d)'
  <2> SUFFICES ASSUME result[d].status = "ok"
               PROVE  /\ held[d].rv \in 1..Len(history')
                      /\ \A p \in Path(kind) :
                            held[d].content[p] =
                                Passed(d, history'[held[d].rv].content[p], Custom, Native)
                      /\ \A p \in Written(result[d].op) :
                            Keeps(d, result[d].object.content[p],
                                  history'[held[d].rv].content[p])
    BY DEF Acked, Extends, Written, Part, Path, Keeps, Passed
  <2>1. held[d].rv \in 1..Len(history)
    BY <1>1 DEF ClientOK, Acked
  <2>2. held[d].rv \in 1..Len(history') /\ history'[held[d].rv] = history[held[d].rv]
    BY <2>1 DEF Extends
  <2> QED
    BY <1>1, <2>1, <2>2 DEF ClientOK, Acked
<1>5. Refused(d)'
  BY <1>1 DEF ClientOK, Refused, Extends, Complete
<1> QED
  BY <1>1, <1>3, <1>4, <1>5 DEF ClientOK

(* A client that has just got an object has been promised nothing yet. *)
LEMMA FreshClient ==
  ASSUME NEW d \in Client, result'[d] = NoResult, held'[d].rv <= Len(history'),
         d \in Proxied => held'[d].group # Custom
  PROVE  ClientOK(d)'
<1>1. result'[d].status = "none"
  BY DEF NoResult
<1> QED
  BY <1>1 DEF ClientOK, Acked, Refused

(* The cache stays faithful when the history goes on. *)
LEMMA SameCache ==
  ASSUME AccessInv, Extends, cache' = cache
  PROVE  CacheOK'
<1>1. cache.rv \in Nat /\ cache.rv <= Len(history)
  BY DEF AccessInv, AccessType, Object, CacheOK
<1>2. cache.rv <= Len(history')
  BY <1>1 DEF Extends
<1>3. cache.rv # 0 => history'[cache.rv] = history[cache.rv]
  BY <1>1 DEF Extends
<1> QED
  BY <1>2, <1>3 DEF AccessInv, CacheOK, CacheFaithful

(* The history keeps its promises when nothing is written. *)
LEMMA SameHistory ==
  ASSUME AccessInv, UNCHANGED <<kind, history>>
  PROVE  HistoryOK' /\ Extends
<1>1. Len(history) \in Nat
  BY DEF AccessInv, AccessType
<1>2. Extends
  BY <1>1 DEF Extends
<1>3. HistoryOK'
  BY DEF AccessInv, HistoryOK, StoredOK, NoLostUpdate, SpecStatusSeparate, Written, Part
<1> QED
  BY <1>2, <1>3

(* A write appends an entry; the promises hold if they hold of it. *)
LEMMA LongerHistory ==
  ASSUME AccessInv, NEW e \in Entry(kind), history' = Append(history, e), kind' = kind,
         Len(history) < MaxWrites,
         \A p \in Path(kind) : e.content[p] # "empty",
         e.op \in {"update", "status"} =>
            /\ e.base = Len(history)
            /\ Len(history) # 0 => \A p \in Path(kind) \ Written(e.op) :
                                      e.content[p] = history[Len(history)].content[p]
  PROVE  /\ HistoryOK' /\ Extends
         /\ history' \in Seq(Entry(kind)) /\ Len(history') <= MaxWrites
<1>1. history \in Seq(Entry(kind)) /\ Len(history) \in Nat
  BY DEF AccessInv, AccessType
<1>2. /\ history' \in Seq(Entry(kind)) /\ Len(history') = Len(history) + 1
      /\ \A i \in 1..Len(history) : history'[i] = history[i]
      /\ history'[Len(history) + 1] = e
  BY <1>1
<1>3. Extends
  BY <1>1, <1>2 DEF Extends
<1>4. Len(history') <= MaxWrites
  BY <1>1, <1>2, AccessAssumption
<1>5. StoredOK'
  <2> SUFFICES ASSUME NEW i \in 1..Len(history'), NEW p \in Path(kind)
               PROVE  history'[i].content[p] # "empty"
    BY DEF StoredOK
  <2>1. CASE i = Len(history) + 1
    BY <1>2, <2>1
  <2>2. CASE i # Len(history) + 1
    <3>1. i \in 1..Len(history)
      BY <1>1, <1>2, <2>2
    <3> QED
      BY <1>2, <3>1 DEF AccessInv, HistoryOK, StoredOK
  <2> QED
    BY <2>1, <2>2
<1>6. NoLostUpdate'
  <2> SUFFICES ASSUME NEW i \in 1..Len(history'), history'[i].op \in {"update", "status"}
               PROVE  history'[i].base = i - 1
    BY DEF NoLostUpdate
  <2>1. CASE i = Len(history) + 1
    <3>1. e.base = Len(history)
      BY <1>2, <2>1
    <3> QED
      BY <1>1, <1>2, <2>1, <3>1
  <2>2. CASE i # Len(history) + 1
    <3>1. i \in 1..Len(history)
      BY <1>1, <1>2, <2>2
    <3> QED
      BY <1>2, <3>1 DEF AccessInv, HistoryOK, NoLostUpdate
  <2> QED
    BY <2>1, <2>2
<1>7. SpecStatusSeparate'
  <2> SUFFICES ASSUME NEW i \in 2..Len(history'), history'[i].op \in {"update", "status"},
                      NEW p \in Path(kind) \ Written(history'[i].op)
               PROVE  history'[i].content[p] = history'[i - 1].content[p]
    BY DEF SpecStatusSeparate, Written, Part
  <2>1. CASE i = Len(history) + 1
    <3>1. i - 1 = Len(history) /\ Len(history) # 0 /\ i - 1 \in 1..Len(history)
      BY <1>1, <2>1
    <3>2. history'[i] = e /\ history'[i - 1] = history[Len(history)]
      BY <1>2, <2>1, <3>1
    <3> QED
      BY <3>1, <3>2
  <2>2. CASE i # Len(history) + 1
    <3>1. i \in 2..Len(history) /\ i \in 1..Len(history) /\ i - 1 \in 1..Len(history)
      BY <1>1, <1>2, <2>2
    <3>2. history'[i] = history[i] /\ history'[i - 1] = history[i - 1]
      BY <1>2, <3>1
    <3> QED
      BY <3>1, <3>2 DEF AccessInv, HistoryOK, SpecStatusSeparate
  <2> QED
    BY <2>1, <2>2
<1> QED
  BY <1>2, <1>3, <1>4, <1>5, <1>6, <1>7 DEF HistoryOK

-----------------------------------------------------------------------------
\* Reading

(* The informer stores what it is sent. *)
LEMMA InformerStoreStep ==
  ASSUME AccessInv, InformerStore
  PROVE  AccessInv'
<1>1. UNCHANGED <<kind, history, held, result>> /\ sharing' = {}
  BY DEF InformerStore
<1>2. HistoryOK' /\ Extends
  BY <1>1, SameHistory
<1>3. \A c \in Client : ClientOK(c)'
  BY <1>1, <1>2, OtherClient
<1>4. cache' \in Object(kind) /\ CacheOK'
  <2>1. CASE Live
    <3>1. history # <<>>
      BY <2>1 DEF Live
    <3>2. /\ Len(history) \in 1..Len(history) /\ Last(history) = history[Len(history)]
          /\ Stored \in Object(kind) /\ Stored.rv = Len(history)
          /\ Stored.content = Last(history).content
      BY <3>1, StoredIsLast DEF AccessInv, HistoryOK
    <3>3. cache' = [Stored EXCEPT !.group = ""]
      BY <2>1 DEF InformerStore
    <3>4. cache' \in Object(kind) /\ cache'.rv = Stored.rv /\ cache'.content = Stored.content
      BY <3>2, <3>3 DEF Object
    <3> QED
      BY <1>1, <3>2, <3>4 DEF CacheOK, CacheFaithful
  <2>2. CASE ~Live
    <3>1. cache' = [cache EXCEPT !.rv = 0]
      BY <2>2 DEF InformerStore
    <3>2. cache' \in Object(kind) /\ cache'.rv = 0
      BY <3>1 DEF AccessInv, AccessType, Object
    <3>3. 0 <= Len(history)
      BY DEF AccessInv, AccessType
    <3> QED
      BY <1>1, <3>2, <3>3 DEF CacheOK, CacheFaithful
  <2> QED
    BY <2>1, <2>2
<1>5. AccessType'
  BY <1>1, <1>4 DEF AccessInv, AccessType
<1> QED
  BY <1>2, <1>3, <1>4, <1>5 DEF AccessInv

(* A client that reads, by the lister or with Get, has an object of some    *)
(* version, and no promise yet.                                             *)
LEMMA GetStep ==
  ASSUME AccessInv, NEW c \in Client, ListerGet(c) \/ ClientGet(c)
  PROVE  AccessInv'
<1>1. UNCHANGED <<kind, history, cache>> /\ result' = [result EXCEPT ![c] = NoResult]
      /\ sharing' \subseteq Client
  BY DEF ListerGet, ClientGet, AccessInv, AccessType
<1>2. HistoryOK' /\ Extends
  BY <1>1, SameHistory
<1>3. PICK object : /\ held' = [held EXCEPT ![c] = object]
                    /\ object \in Object(kind)
                    /\ object.rv <= Len(history)
                    /\ c \in Proxied => object.group # Custom
  <2>1. CASE ListerGet(c)
    <3>1. c \in Lister /\ held' = [held EXCEPT ![c] = cache]
      BY <2>1 DEF ListerGet
    <3>2. cache \in Object(kind) /\ cache.rv <= Len(history)
      BY DEF AccessInv, AccessType, CacheOK
    <3>3. c \notin Proxied
      BY <3>1, AccessAssumption
    <3> QED
      BY <3>1, <3>2, <3>3
  <2>2. CASE ClientGet(c)
    <3>1. history # <<>> /\ held' = [held EXCEPT ![c] = Receive(c, Stored)]
      BY <2>2 DEF ClientGet, Live
    <3>2. /\ Stored \in Object(kind) /\ Stored.rv = Len(history) /\ Stored.group = Custom
          /\ \A p \in Path(kind) : Stored.content[p] # "empty"
      BY <3>1, StoredIsLast DEF AccessInv, HistoryOK
    <3>3. /\ Receive(c, Stored) \in Object(kind) /\ Receive(c, Stored).rv = Stored.rv
          /\ c \in Proxied => Receive(c, Stored).group # Custom
      BY <3>2, ReceivedIsSent, ReceiveIsGot
    <3>4. Len(history) <= Len(history)
      BY DEF AccessInv, AccessType
    <3> QED
      BY <3>1, <3>2, <3>3, <3>4
  <2> QED
    BY <2>1, <2>2
<1>4. DOMAIN held = Client /\ DOMAIN result = Client
  BY DEF AccessInv, AccessType
<1>5. \A d \in Client : ClientOK(d)'
  <2> SUFFICES ASSUME NEW d \in Client PROVE ClientOK(d)'
    OBVIOUS
  <2>1. CASE d = c
    <3>1. result'[d] = NoResult /\ held'[d] = object /\ history' = history
      BY <1>1, <1>3, <1>4, <2>1
    <3> QED
      BY <1>3, <2>1, <3>1, FreshClient
  <2>2. CASE d # c
    <3>1. held'[d] = held[d] /\ result'[d] = result[d]
      BY <1>1, <1>3, <1>4, <2>2
    <3> QED
      BY <1>2, <3>1, OtherClient
  <2> QED
    BY <2>1, <2>2
<1>6. CacheOK'
  BY <1>1, <1>2, SameCache
<1>7. AccessType'
  BY <1>1, <1>3 DEF AccessInv, AccessType, Result
<1> QED
  BY <1>2, <1>5, <1>6, <1>7 DEF AccessInv
-----------------------------------------------------------------------------
\* Editing

(* An edit marks references and adds or removes none; an edit that reaches  *)
(* nothing changes nothing.                                                 *)
LEMMA MarkContent ==
  ASSUME NEW k, NEW content \in [Path(k) -> Value], NEW c \in Client, NEW paths
  PROVE  /\ Mark(content, paths, c) \in [Path(k) -> Value]
         /\ Mark(content, {}, c) = content
<1>1. c \in Value
  BY DEF Value
<1> QED
  BY <1>1 DEF Mark

Marked(object, paths, c) == [object EXCEPT !.content = Mark(@, paths, c)]

(* The same for an object. *)
LEMMA MarkObject ==
  ASSUME NEW k, NEW object \in Object(k), NEW c \in Client, NEW paths
  PROVE  /\ Marked(object, paths, c) \in Object(k)
         /\ Marked(object, paths, c).rv = object.rv
         /\ Marked(object, paths, c).group = object.group
         /\ paths = {} => Marked(object, paths, c) = object
<1> DEFINE content == Mark(object.content, paths, c)
<1>1. object.content \in [Path(k) -> Value]
  BY DEF Object
<1>2. content \in [Path(k) -> Value] /\ (paths = {} => content = object.content)
  BY <1>1, MarkContent
<1> HIDE DEF content
<1>3. [object EXCEPT !.content = content] \in Object(k)
      /\ [object EXCEPT !.content = content].rv = object.rv
      /\ [object EXCEPT !.content = content].group = object.group
  BY <1>2 DEF Object
<1>4. paths = {} => [object EXCEPT !.content = content] = object
  BY <1>2 DEF Object
<1> QED
  BY <1>3, <1>4 DEF content, Marked

(* What a client does to its own object reaches neither the cache nor the   *)
(* object of another client, because deep copies share nothing.             *)
LEMMA EditStep ==
  ASSUME AccessInv, NEW c \in Client, NEW part \in {"Spec", "Status"}, Edit(c, part)
  PROVE  AccessInv'
<1> DEFINE reach(d) == IF d = c THEN Part(part)
                       ELSE IF {c, d} \subseteq sharing THEN Part(part) \cap Shared(kind)
                       ELSE {}
<1>1. UNCHANGED <<kind, history, sharing>> /\ result' = [result EXCEPT ![c] = NoResult]
  BY DEF Edit
<1>2. held' = [d \in Client |-> [held[d] EXCEPT !.content = Mark(@, reach(d), c)]]
  BY DEF Edit
<1>3. \A d \in Client : d # c => reach(d) = {}
  BY DeepCopyIsDeep
<1>4. \A d \in Client : held[d] \in Object(kind)
  BY DEF AccessInv, AccessType
<1> HIDE DEF reach
<1>5. \A d \in Client : /\ held'[d] \in Object(kind)
                        /\ held'[d].rv = held[d].rv /\ held'[d].group = held[d].group
                        /\ d # c => held'[d] = held[d]
  <2> TAKE d \in Client
  <2>1. held'[d] = Marked(held[d], reach(d), c)
    BY <1>2, Zenon DEF Marked
  <2> QED
    BY <1>3, <1>4, <2>1, MarkObject
<1>6. cache' = cache
  <2>1. cache \in Object(kind)
    BY DEF AccessInv, AccessType
  <2>2. Part(part) \cap Shared(kind) = {}
    BY DeepCopyIsDeep
  <2>3. Marked(cache, Part(part) \cap Shared(kind), c) = cache
    BY <2>1, <2>2, MarkObject
  <2> QED
    BY <2>3, Zenon DEF Edit, Marked
<1>7. HistoryOK' /\ Extends
  BY <1>1, SameHistory
<1>8. \A d \in Client : ClientOK(d)'
  <2> SUFFICES ASSUME NEW d \in Client PROVE ClientOK(d)'
    OBVIOUS
  <2>1. DOMAIN result = Client
    BY DEF AccessInv, AccessType
  <2>2. CASE d = c
    <3>1. result'[d] = NoResult /\ held'[d].rv <= Len(history')
          /\ (d \in Proxied => held'[d].group # Custom)
      BY <1>1, <1>5, <2>1, <2>2 DEF AccessInv, ClientOK
    <3> QED
      BY <3>1, FreshClient
  <2>3. CASE d # c
    BY <1>1, <1>5, <1>7, <2>1, <2>3, OtherClient
  <2> QED
    BY <2>2, <2>3
<1>9. AccessType'
  <2>1. held' \in [Client -> Object(kind)]
    BY <1>2, <1>5
  <2> QED
    BY <1>1, <1>6, <2>1 DEF AccessInv, AccessType, Result
<1> QED
  BY <1>1, <1>6, <1>7, <1>8, <1>9, SameCache DEF AccessInv

-----------------------------------------------------------------------------
\* Writing

(* The entry of a deletion keeps the content. *)
LEMMA DeleteEntry ==
  ASSUME NEW k, NEW e \in Entry(k), NEW n \in Nat
  PROVE  LET gone == [e EXCEPT !.op = "delete", !.live = FALSE, !.base = n] IN
         gone \in Entry(k) /\ gone.op = "delete" /\ gone.content = e.content
<1> DEFINE f == FALSE
<1> HIDE DEF f
<1> DEFINE e1 == [op |-> "delete", base |-> e.base, live |-> e.live, content |-> e.content,
                  long |-> e.long]
           e2 == [op |-> "delete", base |-> e.base, live |-> f, content |-> e.content,
                  long |-> e.long]
           e3 == [op |-> "delete", base |-> n, live |-> f, content |-> e.content,
                  long |-> e.long]
<1>1. e = [op |-> e.op, base |-> e.base, live |-> e.live, content |-> e.content,
           long |-> e.long]
  BY DEF Entry
<1>2. [e EXCEPT !.op = "delete"] = e1
  BY <1>1
<1>3. [e1 EXCEPT !.live = f] = e2
  OBVIOUS
<1>4. [e2 EXCEPT !.base = n] = e3
  OBVIOUS
<1>5. f \in BOOLEAN
  BY Zenon DEF f
<1>6. e.content \in [Path(k) -> Value] /\ e.long \in BOOLEAN
  BY DEF Entry
<1>7. e3 \in Entry(k)
  <2>1. "delete" \in Op \cup {"delete"}
    OBVIOUS
  <2> QED
    BY <1>5, <1>6, <2>1 DEF Entry
<1>8. e3.op = "delete" /\ e3.content = e.content
  OBVIOUS
<1> HIDE DEF e1, e2, e3
<1>9. [e EXCEPT !.op = "delete", !.live = FALSE, !.base = n] = e3
  BY <1>2, <1>3, <1>4, Zenon DEF f
<1> QED
  BY <1>7, <1>8, <1>9

(* A deletion adds an entry to the history and promises nothing. *)
LEMMA DeleteStep ==
  ASSUME AccessInv, NEW c \in Client, Delete(c)
  PROVE  AccessInv'
<1> DEFINE e == [Last(history) EXCEPT !.op = "delete", !.live = FALSE, !.base = Len(history)]
<1>1. UNCHANGED <<kind, cache, held, sharing, result>> /\ history' = Append(history, e)
      /\ Len(history) < MaxWrites /\ history # <<>>
  BY DEF Delete, Live
<1>2. /\ Last(history) \in Entry(kind) /\ Stored.content = Last(history).content
      /\ \A p \in Path(kind) : Stored.content[p] # "empty"
  BY <1>1, StoredIsLast DEF AccessInv, HistoryOK
<1>3. Len(history) \in Nat
  BY DEF AccessInv, AccessType
<1>4. e \in Entry(kind) /\ e.op = "delete" /\ e.content = Last(history).content
  BY <1>2, <1>3, DeleteEntry
<1> HIDE DEF e
<1>5. \A p \in Path(kind) : e.content[p] # "empty"
  BY <1>2, <1>4
<1>6. HistoryOK' /\ Extends /\ history' \in Seq(Entry(kind)) /\ Len(history') <= MaxWrites
  BY <1>1, <1>4, <1>5, LongerHistory
<1>7. \A d \in Client : ClientOK(d)'
  BY <1>1, <1>6, OtherClient
<1>8. AccessType'
  BY <1>1, <1>6 DEF AccessInv, AccessType
<1> QED
  BY <1>1, <1>6, <1>7, <1>8, SameCache DEF AccessInv
(* What a write does to the history: nothing, or one entry made from the    *)
(* client's object. If the server accepts the write, the last entry has     *)
(* what the write asked for.                                                *)
LEMMA WriteHistory ==
  ASSUME AccessInv, NEW c \in Client, NEW op \in Op, Write(c, op)
  PROVE  /\ HistoryOK' /\ Extends
         /\ history' \in Seq(Entry(kind)) /\ Len(history') <= MaxWrites
         /\ Verdict(Request(c, op)) = "ok" =>
              /\ history' # <<>>
              /\ Last(history').content = Merged(Request(c, op))
<1> DEFINE req == Request(c, op)
           ok == Verdict(req) = "ok"
           changes == ~Live \/ Merged(req) # Last(history).content
           new == Merged(req)
           e == [op |-> op, base |-> held[c].rv, live |-> TRUE,
                 content |-> Merged(req), long |-> req.object.long]
<1>0. AccessType /\ StoredOK /\ kind' = kind
  BY DEF AccessInv, HistoryOK, Write
<1>1. history \in Seq(Entry(kind)) /\ Len(history) \in Nat
  BY <1>0 DEF AccessType
<1>2. CASE ok /\ changes
  <2>1. Len(history) < MaxWrites /\ history' = Append(history, e)
    BY <1>2, Zenon DEF Write
  <2>2. op # "create" => history # <<>> /\ held[c].rv = Len(history)
    BY <1>0, <1>2, VerdictOk DEF Live
  <2>3. /\ new \in [Path(kind) -> Value]
        /\ \A p \in Path(kind) : new[p] # "empty"
        /\ op # "create" => \A p \in Path(kind) \ Written(op) :
                               new[p] = Last(history).content[p]
    BY <1>0, <2>2, MergedWrite
  <2>4. req.object.long \in BOOLEAN /\ held[c].rv \in Nat
    <3>1. req.object.long = held[c].long /\ held[c] \in Object(kind)
      BY <1>0, RequestSent DEF AccessType
    <3> QED
      BY <3>1 DEF Object
  <2>5. e \in Entry(kind) /\ e.op = op /\ e.base = held[c].rv /\ e.content = new
    <3> DEFINE t == TRUE
               l == req.object.long
               b == held[c].rv
               f == [op |-> op, base |-> b, live |-> t, content |-> new, long |-> l]
    <3>1. t \in BOOLEAN /\ l \in BOOLEAN /\ b \in Nat /\ op \in Op \cup {"delete"}
      BY <2>4
    <3> HIDE DEF t, l, b, new
    <3>2. f \in Entry(kind) /\ f.op = op /\ f.base = b /\ f.content = new
      BY <2>3, <3>1 DEF Entry
    <3>3. f = e
      BY Zenon DEF t, l, b, new
    <3> HIDE DEF e, f
    <3> QED
      BY <3>2, <3>3 DEF b
  <2> HIDE DEF e, new
  <2>6. Last(history) = history[Len(history)]
    BY DEF Last
  <2>7. e.op \in {"update", "status"} =>
          /\ e.base = Len(history)
          /\ Len(history) # 0 => \A p \in Path(kind) \ Written(e.op) :
                                    e.content[p] = history[Len(history)].content[p]
    BY <2>2, <2>3, <2>5, <2>6
  <2>8. HistoryOK' /\ Extends /\ history' \in Seq(Entry(kind)) /\ Len(history') <= MaxWrites
    BY <1>0, <2>1, <2>3, <2>5, <2>7, LongerHistory
  <2>9. history' # <<>> /\ Last(history') = e
    BY <1>1, <2>1, <2>5 DEF Last
  <2> QED
    BY <2>5, <2>8, <2>9 DEF new
<1>3. CASE ~(ok /\ changes)
  <2>1. history' = history
    BY <1>3, Zenon DEF Write
  <2>2. HistoryOK' /\ Extends
    BY <1>0, <2>1, SameHistory
  <2>3. ok => history # <<>> /\ Last(history).content = new
    BY <1>3, Zenon DEF Live
  <2> QED
    BY <1>0, <2>1, <2>2, <2>3 DEF AccessType
<1> QED
  BY <1>2, <1>3

(* A write that was acknowledged gives the client what the server stored;   *)
(* one that was refused leaves it its object; every other client keeps what *)
(* it has.                                                                  *)
LEMMA WriteStep ==
  ASSUME AccessInv, NEW c \in Client, NEW op \in Op, Write(c, op)
  PROVE  AccessInv'
<1> DEFINE req == Request(c, op)
           verdict == Verdict(req)
           new == Merged(req)
<1>0. AccessType /\ StoredOK /\ UNCHANGED <<kind, cache>> /\ (op = "create" => held[c].rv = 0)
  BY DEF AccessInv, HistoryOK, Write
<1>1. /\ HistoryOK' /\ Extends
      /\ history' \in Seq(Entry(kind)) /\ Len(history') <= MaxWrites
      /\ verdict = "ok" => history' # <<>> /\ Last(history').content = new
  BY WriteHistory
<1>2. CacheOK'
  BY <1>0, <1>1, SameCache
<1>3. DOMAIN held = Client /\ DOMAIN result = Client /\ held[c] \in Object(kind)
      /\ sharing \subseteq Client
  BY <1>0 DEF AccessType
<1>4. CASE /\ verdict = "ok"
           /\ result' = [result EXCEPT ![c] = [status |-> "ok", op |-> op, object |-> held[c]]]
           /\ held' = [held EXCEPT ![c] = Answer(c)]
           /\ sharing' = sharing \ {c}
  <2> DEFINE got == Got(c, StoredIn(history'))
  <2>1. Answer(c) = got
    <3>1. Stored' = StoredIn(history')
      BY Zenon DEF Stored, StoredIn
    <3> QED
      BY <3>1, ReceiveIsGot
  <2>2. Len(history') \in 1..Len(history')
    BY <1>1, <1>4
  <2>3. \A p \in Path(kind) : history'[Len(history')].content[p] # "empty"
    BY <1>0, <1>1, <2>2 DEF HistoryOK, StoredOK
  <2>4. /\ Last(history') = history'[Len(history')]
        /\ StoredIn(history') \in Object(kind) /\ StoredIn(history').rv = Len(history')
        /\ StoredIn(history').group = Custom
        /\ StoredIn(history').content = Last(history').content
        /\ \A p \in Path(kind) : StoredIn(history').content[p] # "empty"
    BY <1>1, <1>4, <2>3, LastStored
  <2>5. /\ got \in Object(kind) /\ got.rv = Len(history')
        /\ \A p \in Path(kind) :
              got.content[p] = Passed(c, Last(history').content[p], Custom, Native)
        /\ c \in Proxied => got.group # Custom
    BY <2>4, ReceivedIsSent
  <2> HIDE DEF got
  <2>6. held' = [held EXCEPT ![c] = got]
    BY <1>4, <2>1
  <2>7. op # "create" => history # <<>>
    BY <1>0, <1>4, VerdictOk DEF Live
  <2>8. \A p \in Written(op) : Keeps(c, held[c].content[p], new[p])
    BY <1>0, <2>7, MergedWrite
  <2> DEFINE res == [status |-> "ok", op |-> op, object |-> held[c]]
  <2>9. res \in Result(kind) /\ res.status = "ok" /\ res.op = op /\ res.object = held[c]
    BY <1>3 DEF Result
  <2> HIDE DEF res, new, req, verdict
  <2>10. held'[c] = got /\ result'[c] = res
    BY <1>3, <1>4, <2>6 DEF res
  <2>11. ClientOK(c)'
    <3>1. new = Last(history').content /\ new = history'[got.rv].content
      BY <1>1, <1>4, <2>4, <2>5
    <3>2. Acked(c)'
      <4> SUFFICES /\ held'[c].rv \in 1..Len(history')
                   /\ \A p \in Path(kind) :
                        held'[c].content[p] =
                            Passed(c, history'[held'[c].rv].content[p], Custom, Native)
                   /\ \A p \in Written(result'[c].op) :
                        Keeps(c, result'[c].object.content[p],
                              history'[held'[c].rv].content[p])
        BY <1>0 DEF Acked, Written, Part, Path, Keeps, Passed
      <4> QED
        BY <2>2, <2>5, <2>8, <2>9, <2>10, <3>1
    <3>3. Refused(c)'
      BY <2>9, <2>10 DEF Refused
    <3>4. held'[c].rv <= Len(history')
      BY <2>2, <2>5, <2>10
    <3> QED
      BY <2>5, <2>10, <3>2, <3>3, <3>4 DEF ClientOK
  <2>12. \A d \in Client : ClientOK(d)'
    <3> SUFFICES ASSUME NEW d \in Client, d # c PROVE ClientOK(d)'
      BY <2>11
    <3>1. held'[d] = held[d] /\ result'[d] = result[d]
      BY <1>3, <1>4, <2>6
    <3> QED
      BY <1>1, <3>1, OtherClient
  <2>13. AccessType'
    <3>1. held' \in [Client -> Object(kind)] /\ result' \in [Client -> Result(kind)]
      BY <1>0, <1>4, <2>5, <2>6, <2>9 DEF AccessType, res
    <3> QED
      BY <1>0, <1>1, <1>3, <1>4, <3>1 DEF AccessType
  <2> QED
    BY <1>1, <1>2, <2>12, <2>13 DEF AccessInv
<1>5. CASE /\ result' = [result EXCEPT ![c] =
                  IF verdict = "refused"
                  THEN [status |-> verdict, op |-> op, object |-> held[c]]
                  ELSE NoResult]
           /\ UNCHANGED <<held, sharing>>
  <2> DEFINE res == [status |-> "refused", op |-> op, object |-> held[c]]
  <2>1. res \in Result(kind) /\ res.status = "refused" /\ res.op = op /\ res.object = held[c]
    BY <1>3 DEF Result
  <2> HIDE DEF res
  <2>2. \/ verdict = "refused" /\ result' = [result EXCEPT ![c] = res]
        \/ result' = [result EXCEPT ![c] = NoResult]
    BY <1>5, Zenon DEF res
  <2>3. ClientOK(c)
    BY DEF AccessInv
  <2>4. held'[c].rv <= Len(history') /\ (c \in Proxied => held'[c].group # Custom)
    <3>1. held[c].rv \in Nat /\ held[c].rv <= Len(history)
      BY <1>3, <2>3 DEF Object, ClientOK
    <3>2. held[c].rv <= Len(history')
      BY <1>1, <3>1 DEF Extends
    <3> QED
      BY <1>5, <2>3, <3>2 DEF ClientOK
  <2>5. ClientOK(c)'
    <3>1. CASE verdict = "refused" /\ result' = [result EXCEPT ![c] = res]
      <4>1. result'[c] = res
        BY <1>3, <3>1
      <4>2. \/ ~Complete(held[c].content)
            \/ op # "create" /\ held[c].rv = 0
            \/ c \in Proxied /\ held[c].long
        BY <1>0, <3>1, VerdictRefused
      <4>3. Refused(c)'
        BY <1>0, <2>1, <4>1, <4>2 DEF Refused, Complete
      <4>4. Acked(c)'
        BY <2>1, <4>1 DEF Acked
      <4> QED
        BY <2>4, <4>3, <4>4 DEF ClientOK
    <3>2. CASE result' = [result EXCEPT ![c] = NoResult]
      <4>1. result'[c] = NoResult
        BY <1>3, <3>2
      <4> QED
        BY <2>4, <4>1, FreshClient
    <3> QED
      BY <2>2, <3>1, <3>2
  <2>6. \A d \in Client : ClientOK(d)'
    <3> SUFFICES ASSUME NEW d \in Client, d # c PROVE ClientOK(d)'
      BY <2>5
    <3>1. held'[d] = held[d] /\ result'[d] = result[d]
      BY <1>3, <1>5, <2>2
    <3> QED
      BY <1>1, <3>1, OtherClient
  <2>7. AccessType'
    <3>1. result' \in [Client -> Result(kind)]
      <4>1. NoResult \in Result(kind)
        BY DEF Result
      <4> QED
        BY <1>0, <2>1, <2>2, <4>1 DEF AccessType
    <3> QED
      BY <1>0, <1>1, <1>5, <3>1 DEF AccessType
  <2> QED
    BY <1>1, <1>2, <2>6, <2>7 DEF AccessInv
<1> QED
  BY <1>4, <1>5, Zenon DEF Write
-----------------------------------------------------------------------------
\* The theorems

(* What clients start with are objects that nobody has stored yet. *)
LEMMA AccessInit == Init => AccessInv
<1> SUFFICES ASSUME Init PROVE AccessInv
  OBVIOUS
<1>1. {"set", "nil", "empty", "default", Native, Custom} \subseteq Value
  BY DEF Value
<1>2. Full(kind) \in [Path(kind) -> Value]
  BY <1>1 DEF Full
<1>3. \A paths : Unset(kind, paths) \in [Path(kind) -> Value]
  BY <1>1 DEF Unset
<1>4. \A content \in [Path(kind) -> Value], long \in BOOLEAN :
        /\ NewObject(content, long) \in Object(kind)
        /\ NewObject(content, long).rv = 0
        /\ NewObject(content, long).group = ""
  BY DEF NewObject, Object
<1>5. TRUE \in BOOLEAN /\ FALSE \in BOOLEAN
  OBVIOUS
<1>6. cache \in Object(kind) /\ cache.rv = 0
  BY <1>2, <1>4, <1>5, Zenon DEF Init
<1>7. \A object \in NewObjects : object \in Object(kind) /\ object.rv = 0 /\ object.group = ""
  <2>1. \A content \in Content(kind) : content \in [Path(kind) -> Value]
    <3>1. Mentioning(kind) \in [Path(kind) -> Value]
      BY <1>1 DEF Mentioning
    <3> QED
      BY <1>3, <3>1 DEF Content
  <2> QED
    BY <1>2, <1>4, <1>5, <2>1, Zenon DEF NewObjects
<1>8. PICK object \in NewObjects : held = [c \in Client |-> object]
  BY DEF Init
<1>9. \A c \in Client : held[c] \in Object(kind) /\ held[c].rv = 0 /\ held[c].group = ""
  BY <1>7, <1>8
<1>10. history = <<>> /\ Len(history) = 0 /\ sharing = {}
       /\ result = [c \in Client |-> NoResult] /\ kind \in {"policy", "binding"}
  BY DEF Init
<1>11. AccessType
  <2>1. held \in [Client -> Object(kind)]
    BY <1>8, <1>9
  <2>2. result \in [Client -> Result(kind)]
    BY <1>10 DEF Result
  <2>3. history \in Seq(Entry(kind)) /\ Len(history) <= MaxWrites
    BY <1>10, AccessAssumption
  <2> QED
    BY <1>6, <1>10, <2>1, <2>2, <2>3 DEF AccessType
<1>12. HistoryOK
  BY <1>10 DEF HistoryOK, StoredOK, NoLostUpdate, SpecStatusSeparate
<1>13. CacheOK
  BY <1>6, <1>10 DEF CacheOK, CacheFaithful
<1>14. \A c \in Client : ClientOK(c)
  <2> TAKE c \in Client
  <2>1. result[c] = NoResult
    BY <1>10
  <2>2. result[c].status = "none"
    BY <2>1 DEF NoResult
  <2>3. held[c].rv <= Len(history)
    <3>1. held[c].rv = 0
      BY <1>9, Zenon
    <3>2. 0 <= 0
      OBVIOUS
    <3> QED
      BY <1>10, <3>1, <3>2, Zenon
  <2>4. "" # Custom
    BY DEF Custom
  <2> QED
    BY <1>9, <2>2, <2>3, <2>4 DEF ClientOK, Acked, Refused
<1> QED
  BY <1>11, <1>12, <1>13, <1>14 DEF AccessInv

(* The invariant holds in every reachable state. *)
THEOREM AccessInvariance == Spec => []AccessInv
<1>1. AccessInv /\ [Next]_vars => AccessInv'
  <2> SUFFICES ASSUME AccessInv, [Next]_vars PROVE AccessInv'
    OBVIOUS
  <2>1. CASE Next
    BY <2>1, InformerStoreStep, GetStep, EditStep, WriteStep, DeleteStep DEF Next, Op
  <2>2. CASE UNCHANGED vars
    <3>1. UNCHANGED <<kind, history, cache, held, sharing, result>>
      BY <2>2 DEF vars
    <3>2. HistoryOK' /\ Extends
      BY <3>1, SameHistory
    <3>3. CacheOK' /\ \A c \in Client : ClientOK(c)'
      BY <3>1, <3>2, SameCache, OtherClient
    <3>4. AccessType'
      BY <3>1 DEF AccessInv, AccessType
    <3> QED
      BY <3>2, <3>3, <3>4 DEF AccessInv
  <2> QED
    BY <2>1, <2>2
<1> QED
  BY <1>1, AccessInit, PTL DEF Spec

(* For any number of clients and writes: every variable has its type, no    *)
(* conversion loses a field of an object, and clients behind the proxy see  *)
(* no object under the group of the CRDs.                                   *)
THEOREM AccessTypeCorrect == Spec => []TypeOK
<1>1. AccessInv => TypeOK
  <2> SUFFICES ASSUME AccessInv PROVE TypeOK
    OBVIOUS
  <2>1. AccessType
    BY DEF AccessInv
  <2>2. Len(history) \in Nat /\ Len(history) <= MaxWrites /\ MaxWrites \in Nat
    BY <2>1, AccessAssumption DEF AccessType
  <2>3. cache.rv \in Nat /\ cache.rv <= Len(history) /\ DOMAIN cache.content = Path(kind)
    BY DEF AccessInv, AccessType, CacheOK, Object
  <2>4. \A c \in Client : /\ held[c].rv \in Nat /\ held[c].rv <= Len(history)
                          /\ DOMAIN held[c].content = Path(kind)
                          /\ c \in Proxied => held[c].group # Custom
    <3> TAKE c \in Client
    <3>1. held[c] \in Object(kind) /\ ClientOK(c)
      BY DEF AccessInv, AccessType
    <3> QED
      BY <3>1 DEF ClientOK, Object
  <2>5. \A c \in Client : result[c].status \in {"none", "ok", "refused"}
    <3> TAKE c \in Client
    <3>1. result[c] \in Result(kind)
      BY <2>1 DEF AccessType
    <3> QED
      BY <3>1 DEF Result, NoResult
  <2>6. cache.rv \in 0..MaxWrites /\ \A c \in Client : held[c].rv \in 0..MaxWrites
    BY <2>2, <2>3, <2>4
  <2> QED
    BY <2>1, <2>2, <2>3, <2>4, <2>5, <2>6 DEF TypeOK, AccessType
<1> QED
  BY <1>1, AccessInvariance, PTL

(* For any number of clients and writes: the informer's cache holds what    *)
(* the server stored under that version. No reader of the generated lister  *)
(* that edits its deep copy can change the cache or another reader's copy,  *)
(* since zz_generated.deepcopy.go leaves no reference shared.               *)
THEOREM CacheIsFaithful == Spec => []CacheFaithful
<1>1. AccessInv => CacheFaithful
  BY DEF AccessInv, CacheOK
<1> QED
  BY <1>1, AccessInvariance, PTL

(* For any number of clients and writes: what a client is told was stored   *)
(* is what the server has under the version it is given, and what the       *)
(* client set is in it, up to nil for an empty slice and defaults; through  *)
(* TransformedClient as through the typed client. Through the proxy, which  *)
(* replaces the group in the whole body, this is so up to the values that   *)
(* mention a group, which are swapped both ways.                            *)
THEOREM AcksAreTrue == Spec => []AckedIsStored
<1>1. AccessInv => AckedIsStored
  BY DEF AccessInv, ClientOK, Acked, AckedIsStored, Keeps
<1> QED
  BY <1>1, AccessInvariance, PTL

(* For any number of clients and writes: an accepted update was made from   *)
(* the version just before it, so that neither a retry after a lost answer  *)
(* nor a stale object ever undoes a change its writer has not seen.         *)
THEOREM NothingIsLost == Spec => []NoLostUpdate
<1>1. AccessInv => NoLostUpdate
  BY DEF AccessInv, HistoryOK
<1> QED
  BY <1>1, AccessInvariance, PTL

(* For any number of clients and writes: UpdateStatus changes the status    *)
(* only, and Update never does.                                             *)
THEOREM StatusIsSeparate == Spec => []SpecStatusSeparate
<1>1. AccessInv => SpecStatusSeparate
  BY DEF AccessInv, HistoryOK
<1> QED
  BY <1>1, AccessInvariance, PTL

(* For any number of clients and writes: a write is refused for its form    *)
(* only if a required field is missing, if the object was never read, or if *)
(* the proxy cut its body.                                                  *)
THEOREM RefusalsHaveCause == Spec => []RefusedForCause
<1>1. AccessInv => RefusedForCause
  BY DEF AccessInv, ClientOK, Refused, RefusedForCause
<1> QED
  BY <1>1, AccessInvariance, PTL

=============================================================================
