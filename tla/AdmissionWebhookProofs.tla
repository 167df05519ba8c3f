----------------------- MODULE AdmissionWebhookProofs -----------------------
(***************************************************************************)
(* Theorems about AdmissionWebhook, for any number of requests and         *)
(* validators, any classes of objects and any sets of policies.            *)
(***************************************************************************)
EXTENDS AdmissionWebhook, TLAPS

-----------------------------------------------------------------------------
\* The inductive invariant

(* Every validator that multi.Validate has come past, for an object that    *)
(* policies may judge, has had a snapshot without objection since the       *)
(* request arrived.                                                         *)
PassedAccepted(r) ==
    input[r].class \notin PolicyClass
    => \A v \in Validator : v < index[r] => v \in accepted[r]

(* An error ends the loop, is never about a policy resource, and, if it is  *)
(* a denial, has a snapshot that objected behind it.                        *)
ErrorJustified(r) ==
    /\ pc[r] \in {"idle", "validate", "evaluate"} => err[r] = "nil"
    /\ err[r] # "nil" => input[r].class \notin PolicyClass
    /\ err[r] = "denied" => refused[r] # {}

(* How far a request has come: the evaluator is asked about an index within *)
(* range and never about a policy resource; without an error the loop ends  *)
(* after the last validator; the response follows the error.                *)
ProgressOK(r) ==
    /\ pc[r] = "idle" => index[r] = 1
    /\ pc[r] = "evaluate" => index[r] \in Validator /\ input[r].class \notin PolicyClass
    /\ pc[r] = "respond" /\ err[r] = "nil" => index[r] = NumValidators + 1
    /\ response[r] = "allowed" => /\ pc[r] = "done"
                                  /\ index[r] = NumValidators + 1
    /\ pc[r] = "done" /\ InputStatus(input[r]) = "ok"
       => response[r] = "allowed" \/ err[r] # "nil"

RequestOK(r) == PassedAccepted(r) /\ ErrorJustified(r) /\ ProgressOK(r)

(* The inductive invariant. *)
RInv == TypeOK /\ \A r \in Request : RequestOK(r)

(* No request has arrived and no validator has synced. *)
LEMMA InitReview == Init => RInv
<1> SUFFICES ASSUME Init PROVE RInv
  OBVIOUS
<1>1. NoInput \in Input
  BY WebhookAssumption DEF NoInput, Input, Raw
<1>2. 1 \in 1..(NumValidators + 1)
  BY WebhookAssumption
<1>3. TypeOK
  BY <1>1, <1>2 DEF Init, TypeOK
<1>4. ASSUME NEW r \in Request PROVE RequestOK(r)
  BY <1>4 DEF Init, RequestOK, PassedAccepted, ErrorJustified, ProgressOK, Validator
<1> QED
  BY <1>3, <1>4 DEF RInv

-----------------------------------------------------------------------------
\* What every step has in common

(* The histories only grow, by what the snapshots of the next state say. *)
LEMMA WitnessGrows ==
    ASSUME TypeOK, Witness
    PROVE  /\ accepted' \in [Request -> SUBSET Validator]
           /\ refused' \in [Request -> SUBSET Validator]
           /\ \A r \in Request : /\ accepted[r] \subseteq accepted'[r]
                                 /\ refused[r] \subseteq refused'[r]
BY DEF TypeOK, Witness

(* A request that a step does not touch. *)
LEMMA RequestUntouched ==
    ASSUME NEW r \in Request, RequestOK(r),
           pc'[r] = pc[r], input'[r] = input[r], index'[r] = index[r], err'[r] = err[r],
           response'[r] = response[r],
           accepted[r] \subseteq accepted'[r], refused[r] \subseteq refused'[r]
    PROVE  RequestOK(r)'
BY DEF RequestOK, PassedAccepted, ErrorJustified, ProgressOK, InputStatus, DecodeStatus,
       Handles

(* The evaluator's own steps, and none at all. *)
LEMMA PolicyStep ==
    ASSUME RInv,
           \/ \E v \in Validator, denied \in SUBSET Class : PolicyChange(v, denied)
           \/ \E v \in Validator : PoliciesReconciled(v) \/ RefreshPolicies(v)
           \/ UNCHANGED vars
    PROVE  RInv'
<1>1. UNCHANGED requestVars
  BY Zenon DEF PolicyChange, PoliciesReconciled, RefreshPolicies, vars, requestVars
<1>2. Witness \/ UNCHANGED <<accepted, refused>>
  BY Zenon DEF PolicyChange, PoliciesReconciled, RefreshPolicies, vars
<1>3. /\ accepted' \in [Request -> SUBSET Validator]
      /\ refused' \in [Request -> SUBSET Validator]
      /\ \A r \in Request : accepted[r] \subseteq accepted'[r] /\ refused[r] \subseteq refused'[r]
  <2>1. CASE Witness
    BY <2>1, WitnessGrows DEF RInv
  <2>2. CASE UNCHANGED <<accepted, refused>>
    BY <2>2 DEF RInv, TypeOK
  <2> QED
    BY <1>2, <2>1, <2>2
<1>4. /\ reconciled' \in [Validator -> BOOLEAN]
      /\ policies' \in [Validator -> SUBSET Class]
      /\ definitions' \in [Validator -> SUBSET Class]
      /\ refreshed' \in [Validator -> BOOLEAN]
      /\ changes' \in Nat
  <2>1. ASSUME NEW v \in Validator, NEW denied \in SUBSET Class, PolicyChange(v, denied)
        PROVE  /\ policies' \in [Validator -> SUBSET Class] /\ changes' \in Nat
               /\ UNCHANGED <<reconciled, definitions, refreshed>>
    <3>1. changes \in Nat /\ policies \in [Validator -> SUBSET Class]
      BY DEF RInv, TypeOK
    <3>2. /\ changes' = changes + 1 /\ policies' = [policies EXCEPT ![v] = denied]
          /\ UNCHANGED <<reconciled, definitions, refreshed>>
      BY <2>1 DEF PolicyChange
    <3> QED
      BY <3>1, <3>2
  <2>2. ASSUME NEW v \in Validator, PoliciesReconciled(v)
        PROVE  /\ reconciled' \in [Validator -> BOOLEAN]
               /\ UNCHANGED <<policies, definitions, refreshed, changes>>
    BY <2>2 DEF RInv, TypeOK, PoliciesReconciled
  <2>3. ASSUME NEW v \in Validator, RefreshPolicies(v)
        PROVE  /\ refreshed' \in [Validator -> BOOLEAN]
               /\ definitions' \in [Validator -> SUBSET Class]
               /\ UNCHANGED <<reconciled, policies, changes>>
    BY <2>3 DEF RInv, TypeOK, RefreshPolicies
  <2>4. CASE UNCHANGED vars
    BY <2>4 DEF RInv, TypeOK, vars
  <2> QED
    BY <2>1, <2>2, <2>3, <2>4 DEF RInv, TypeOK
<1>5. TypeOK'
  BY <1>1, <1>3, <1>4 DEF RInv, TypeOK, requestVars
<1>6. ASSUME NEW r \in Request PROVE RequestOK(r)'
  BY <1>1, <1>3, RequestUntouched DEF RInv, requestVars
<1> QED
  BY <1>5, <1>6 DEF RInv

-----------------------------------------------------------------------------
\* The steps of a request

(* What a step of r that touches no other request looks like. *)
OnlyRequest(r) ==
    /\ pc' \in [Request -> {"idle", "validate", "evaluate", "respond", "done"}]
    /\ input' \in [Request -> Input]
    /\ index' \in [Request -> 1..(NumValidators + 1)]
    /\ err' \in [Request -> {"nil", "not ready", "denied"}]
    /\ response' \in [Request -> {"none", "allowed", "denied", "400", "500"}]
    /\ \A q \in Request \ {r} :
          /\ pc'[q] = pc[q] /\ input'[q] = input[q] /\ index'[q] = index[q]
          /\ err'[q] = err[q] /\ response'[q] = response[q]

(* If it leaves the policies alone, only r has to be looked at. *)
LEMMA RequestStep ==
    ASSUME RInv, NEW r \in Request, Witness, UNCHANGED policyVars,
           OnlyRequest(r), RequestOK(r)'
    PROVE  RInv'
<1>1. TypeOK'
  BY WitnessGrows DEF RInv, TypeOK, policyVars, OnlyRequest
<1>2. ASSUME NEW q \in Request, q # r PROVE RequestOK(q)'
  BY <1>2, WitnessGrows, RequestUntouched DEF RInv, OnlyRequest
<1> QED
  BY <1>1, <1>2 DEF RInv

(* A request is received, decoded, and answered if it does not decode. *)
LEMMA ReceiveStep ==
    ASSUME RInv, NEW r \in Request, NEW in \in Input, Receive(r, in)
    PROVE  RInv'
<1>1. InputStatus(in) \in {"ok", "400", "500"}
  BY DEF InputStatus, DecodeStatus
<1>2. /\ pc[r] = "idle" /\ index[r] = 1 /\ err[r] = "nil" /\ response[r] # "allowed"
      /\ UNCHANGED <<policyVars, index, err>> /\ Witness
      /\ input' = [input EXCEPT ![r] = in]
  BY DEF Receive, RInv, RequestOK, ProgressOK, ErrorJustified
<1> DEFINE p == IF InputStatus(in) = "ok" THEN "validate" ELSE "done"
           a == IF InputStatus(in) = "ok" THEN response[r] ELSE InputStatus(in)
<1>3. pc' = [pc EXCEPT ![r] = p] /\ response' = [response EXCEPT ![r] = a]
  BY DEF Receive, RInv, TypeOK
<1>4. OnlyRequest(r)
  BY <1>1, <1>2, <1>3 DEF RInv, TypeOK, OnlyRequest
<1>6. RequestOK(r)'
  <2>1. /\ input'[r] = in /\ index'[r] = 1 /\ err'[r] = "nil"
        /\ pc'[r] = p /\ response'[r] = a
    BY <1>2, <1>3 DEF RInv, TypeOK
  <2>2. a # "allowed" /\ (p = "done" => InputStatus(in) # "ok")
        /\ p \in {"validate", "done"}
    BY <1>1, <1>2
  <2>3. InputStatus(input[r])' = InputStatus(in)
    BY <2>1 DEF InputStatus, DecodeStatus, Handles
  <2> HIDE DEF p, a
  <2>4. PassedAccepted(r)' /\ ErrorJustified(r)'
    BY <2>1 DEF PassedAccepted, ErrorJustified, Validator
  <2>5. ProgressOK(r)'
    BY <2>1, <2>2, <2>3 DEF ProgressOK
  <2> QED
    BY <2>4, <2>5 DEF RequestOK
<1> QED
  BY <1>2, <1>4, <1>6, RequestStep

(* The validator that is content is one that is past. *)
LEMMA PassStep ==
    ASSUME RInv, NEW r \in Request, index[r] \in Validator,
           pc[r] \in {"validate", "evaluate"}, Pass(r),
           UNCHANGED <<policyVars, input, response>>, Witness,
           input[r].class \in PolicyClass \/ index[r] \in accepted'[r]
    PROVE  RInv'
<1>1. index[r] \in Nat /\ index[r] + 1 \in 1..(NumValidators + 1)
  <2>1. \A i \in Validator : i \in Nat /\ i + 1 \in 1..(NumValidators + 1)
    BY WebhookAssumption DEF Validator
  <2> QED
    BY <2>1
<1>2. OnlyRequest(r)
  BY <1>1 DEF RInv, TypeOK, Pass, OnlyRequest
<1>3. /\ pc'[r] = "validate" /\ index'[r] = index[r] + 1
      /\ input'[r] = input[r] /\ err'[r] = err[r] /\ response'[r] = response[r]
  BY DEF RInv, TypeOK, Pass
<1>4. RequestOK(r) /\ accepted[r] \subseteq accepted'[r] /\ refused[r] \subseteq refused'[r]
  BY WitnessGrows DEF RInv
<1>5. PassedAccepted(r)'
  <2> SUFFICES ASSUME input[r].class \notin PolicyClass, NEW v \in Validator, v < index[r] + 1
               PROVE  v \in accepted'[r]
    BY <1>3 DEF PassedAccepted
  <2>1. CASE v < index[r]
    BY <1>4, <2>1 DEF RequestOK, PassedAccepted
  <2>2. CASE v = index[r]
    BY <2>2
  <2>3. v \in Nat
    BY WebhookAssumption DEF Validator
  <2>4. index[r] \in Nat /\ v < index[r] + 1
    BY <1>1
  <2>5. v < index[r] \/ v = index[r]
    BY <2>3, <2>4
  <2> QED
    BY <2>1, <2>2, <2>5
<1>6. ErrorJustified(r)' /\ ProgressOK(r)'
  BY <1>3, <1>4 DEF RequestOK, ErrorJustified, ProgressOK
<1> QED
  BY <1>2, <1>5, <1>6, RequestStep DEF RequestOK

(* A step that ends the loop. *)
LEMMA LoopEnds ==
    ASSUME RInv, NEW r \in Request, pc[r] \in {"validate", "evaluate"},
           NEW e \in {"nil", "not ready", "denied"},
           pc' = [pc EXCEPT ![r] = "respond"],
           err' = [err EXCEPT ![r] = e],
           UNCHANGED <<policyVars, input, index, response>>, Witness,
           e = "nil" => index[r] = NumValidators + 1,
           e # "nil" => input[r].class \notin PolicyClass,
           e = "denied" => refused'[r] # {}
    PROVE  RInv'
<1>1. OnlyRequest(r) /\ pc'[r] = "respond" /\ err'[r] = e
  BY DEF RInv, TypeOK, OnlyRequest
<1>2. RequestOK(r) /\ accepted[r] \subseteq accepted'[r]
  BY WitnessGrows DEF RInv
<1>3. RequestOK(r)'
  BY <1>1, <1>2 DEF RequestOK, PassedAccepted, ErrorJustified, ProgressOK
<1> QED
  BY <1>1, <1>3, RequestStep

(* Every step of a request after it was received. *)
LEMMA HandleStep ==
    ASSUME RInv, NEW r \in Request, Handle(r)
    PROVE  RInv'
<1>0. /\ RequestOK(r) /\ NumValidators \in Nat /\ index[r] \in 1..(NumValidators + 1)
      /\ index[r] <= NumValidators => index[r] \in Validator
  <2>1. RequestOK(r) /\ NumValidators \in Nat /\ index[r] \in 1..(NumValidators + 1)
    BY WebhookAssumption DEF RInv, TypeOK
  <2> QED
    BY <2>1 DEF Validator
<1>1. CASE ValidateEnd(r)
  <2>1. err[r] = "nil" /\ index[r] = NumValidators + 1
    BY <1>0, <1>1 DEF ValidateEnd, RequestOK, ErrorJustified
  <2>2. err' = [err EXCEPT ![r] = "nil"]
    BY <1>1, <2>1 DEF ValidateEnd, RInv, TypeOK
  <2> QED
    BY <1>1, <2>1, <2>2, LoopEnds DEF ValidateEnd
<1>2. CASE ValidatePolicyResource(r)
  BY <1>0, <1>2, PassStep DEF ValidatePolicyResource, IsPolicyResource
<1>3. CASE PollSynced(r)
  <2>1. /\ pc' = [pc EXCEPT ![r] = "evaluate"]
        /\ UNCHANGED <<policyVars, input, index, err, response>> /\ Witness
        /\ pc[r] = "validate" /\ index[r] \in Validator /\ input[r].class \notin PolicyClass
    BY <1>0, <1>3 DEF PollSynced, IsPolicyResource
  <2>2. OnlyRequest(r) /\ pc'[r] = "evaluate"
    BY <2>1 DEF RInv, TypeOK, OnlyRequest
  <2>3. accepted[r] \subseteq accepted'[r] /\ refused[r] \subseteq refused'[r]
    BY <2>1, WitnessGrows DEF RInv
  <2>4. RequestOK(r)'
    BY <1>0, <2>1, <2>2, <2>3 DEF RequestOK, PassedAccepted, ErrorJustified, ProgressOK
  <2> QED
    BY <2>1, <2>2, <2>4, RequestStep
<1>4. CASE PollTimeout(r)
  BY <1>4, LoopEnds DEF PollTimeout, Fail, IsPolicyResource
<1>5. CASE EvaluatorValidate(r)
  <2>1. /\ pc[r] = "evaluate" /\ index[r] \in Validator /\ input[r].class \notin PolicyClass
        /\ UNCHANGED <<policyVars, input, response>> /\ Witness
    BY <1>0, <1>5 DEF EvaluatorValidate, RequestOK, ProgressOK
  <2>2. /\ HasSynced(index[r])' = HasSynced(index'[r])
        /\ \A v \in Validator : HasSynced(v)' <=> HasSynced(v)
        /\ \A v \in Validator : Denies(v, input[r].class)' <=> Denies(v, input[r].class)
    BY <2>1 DEF HasSynced, Denies, policyVars
  <2>3. CASE ~HasSynced(index[r])
    BY <1>5, <2>1, <2>3, LoopEnds DEF EvaluatorValidate, Fail
  <2>4. CASE HasSynced(index[r]) /\ Denies(index[r], input[r].class)
    <3>1. Fail(r, "denied")
      BY <1>5, <2>4 DEF EvaluatorValidate
    <3>2. pc'[r] = "respond"
      BY <3>1 DEF Fail, RInv, TypeOK
    <3>3. index[r] \in refused'[r]
      BY <2>1, <2>2, <2>4, <3>2 DEF Witness
    <3> QED
      BY <2>1, <3>1, <3>3, LoopEnds DEF Fail
  <2>5. CASE HasSynced(index[r]) /\ ~Denies(index[r], input[r].class)
    <3>1. Pass(r)
      BY <1>5, <2>5 DEF EvaluatorValidate
    <3>2. pc'[r] = "validate"
      BY <3>1 DEF Pass, RInv, TypeOK
    <3>3. index[r] \in accepted'[r]
      BY <2>1, <2>2, <2>5, <3>2 DEF Witness
    <3> QED
      BY <2>1, <3>1, <3>3, PassStep
  <2> QED
    BY <2>3, <2>4, <2>5
<1>6. CASE Respond(r)
  <2> DEFINE a == IF err[r] = "nil" THEN "allowed" ELSE "denied"
  <2>1. /\ pc' = [pc EXCEPT ![r] = "done"] /\ response' = [response EXCEPT ![r] = a]
        /\ UNCHANGED <<policyVars, input, index, err>> /\ Witness
        /\ pc[r] = "respond"
    BY <1>6 DEF Respond
  <2>2. OnlyRequest(r) /\ pc'[r] = "done" /\ response'[r] = a
    BY <2>1 DEF RInv, TypeOK, OnlyRequest
  <2>3. accepted[r] \subseteq accepted'[r] /\ refused[r] \subseteq refused'[r]
    BY <2>1, WitnessGrows DEF RInv
  <2>4. PassedAccepted(r)' /\ ErrorJustified(r)'
    BY <1>0, <2>1, <2>2, <2>3 DEF RequestOK, PassedAccepted, ErrorJustified
  <2>5. ProgressOK(r)'
    BY <1>0, <2>1, <2>2 DEF RequestOK, ProgressOK
  <2> QED
    BY <2>1, <2>2, <2>4, <2>5, RequestStep DEF RequestOK
<1> QED
  BY <1>1, <1>2, <1>3, <1>4, <1>5, <1>6 DEF Handle

(* RInv is kept by every step. *)
LEMMA NextReview == RInv /\ [Next]_vars => RInv'
BY PolicyStep, ReceiveStep, HandleStep DEF Next

-----------------------------------------------------------------------------
\* Theorems

(* RInv holds in every reachable state. *)
THEOREM ReviewInvariance == Spec => []RInv
BY InitReview, NextReview, PTL DEF Spec

(* Type correctness of the review handler, the validators and the           *)
(* evaluators' snapshots.                                                   *)
THEOREM ReviewTypeCorrect == Spec => []TypeOK
<1>1. RInv => TypeOK
  BY DEF RInv
<1> QED
  BY <1>1, ReviewInvariance, PTL

(* No request slips through: however start-up, policy changes, refreshes    *)
(* and any number of requests interleave, handleWebhookValidate allows only *)
(* what every validator of multi.Validate has accepted while the request    *)
(* was open.                                                                *)
THEOREM NothingSlipsThrough == Spec => []AllowedMeansAccepted
<1>1. RInv => AllowedMeansAccepted
  <2> SUFFICES ASSUME RInv, NEW r \in Request, response[r] = "allowed",
                      input[r].class \notin PolicyClass
               PROVE  accepted[r] = Validator
    BY DEF AllowedMeansAccepted
  <2>1. index[r] = NumValidators + 1 /\ accepted[r] \subseteq Validator
    BY DEF RInv, TypeOK, RequestOK, ProgressOK
  <2>2. \A v \in Validator : v < index[r]
    BY <2>1, WebhookAssumption DEF Validator
  <2> QED
    BY <2>1, <2>2 DEF RInv, RequestOK, PassedAccepted
<1> QED
  BY <1>1, ReviewInvariance, PTL

(* A denial has a policy behind it that was in force while the request was  *)
(* open, and nobody is locked out of changing the policies themselves.      *)
THEOREM DenialsAreJustified == Spec => []DeniedMeansRefused
<1>1. RInv => DeniedMeansRefused
  BY DEF RInv, RequestOK, ErrorJustified, ProgressOK, DeniedMeansRefused
<1> QED
  BY <1>1, ReviewInvariance, PTL
=============================================================================
