-------------------------- MODULE AdmissionWebhook --------------------------
(***************************************************************************)
(* One admission review through the process: handleWebhookValidate         *)
(* (pkg/webhook/server.go), the multi validator (pkg/validator/multi.go),  *)
(* the CEL plugin (pkg/controller/admissionregistration.x-k8s.io/v1alpha1/ *)
(* plugin.go) and the policy evaluator behind it (vendored                 *)
(* validatingadmissionpolicy/controller.go), while policies are being      *)
(* synced and change.                                                      *)
(*                                                                         *)
(* A request is abstracted to how its parts decode and to the class of the *)
(* object it is about; a set of policies is abstracted to the classes it   *)
(* denies.                                                                 *)
(***************************************************************************)
EXTENDS Naturals

CONSTANTS
    Request,        \* HTTP requests, each served by a goroutine of its own
    NumValidators,  \* length of multi.validators
    Class,          \* classes of object that policies can tell apart
    PolicyClass,    \* the policy resources themselves: policies and bindings
    MaxChanges      \* bound: changes of the policies

ASSUME WebhookAssumption ==
    /\ NumValidators \in Nat
    /\ Class # {}
    /\ PolicyClass \subseteq Class
    /\ MaxChanges \in Nat

VARIABLES
    reconciled,     \* policyController.HasSynced(), per validator
    policies,       \* policyController: the classes its policies deny
    definitions,    \* evaluator.definitions: the snapshot requests read
    refreshed,      \* definitions.Load() is not nil
    changes,        \* changes of the policies so far
    pc,             \* where each request is
    input,          \* what each request contains
    index,          \* the validator multi.Validate has come to
    err,            \* the error of the validator, "nil" if none
    response,       \* what the handler wrote
    accepted,       \* history: validators that had a snapshot without
                    \*   objection to the request since it arrived
    refused         \* history: validators that had one with an objection

policyVars == <<reconciled, policies, definitions, refreshed, changes>>
requestVars == <<pc, input, index, err, response>>
vars == <<reconciled, policies, definitions, refreshed, changes, pc, input,
          index, err, response, accepted, refused>>

Validator == 1..NumValidators

(* How a raw object decodes: it is absent; it decodes; it has another GVK   *)
(* than the request; its type is unknown and it is read as unstructured, or *)
(* cannot be; or it does not decode.                                        *)
Raw == {"empty", "typed", "otherGVK", "unstructured", "notUnstructured", "bad"}

Input == [review : BOOLEAN, old : Raw, object : Raw, class : Class]

NoInput == [review |-> FALSE, old |-> "empty", object |-> "empty",
            class |-> CHOOSE c \in Class : TRUE]

Init ==
    /\ reconciled = [v \in Validator |-> FALSE]
    /\ policies = [v \in Validator |-> {}]
    /\ definitions = [v \in Validator |-> {}]
    /\ refreshed = [v \in Validator |-> FALSE]
    /\ changes = 0
    /\ pc = [r \in Request |-> "idle"]
    /\ input = [r \in Request |-> NoInput]
    /\ index = [r \in Request |-> 1]
    /\ err = [r \in Request |-> "nil"]
    /\ response = [r \in Request |-> "none"]
    /\ accepted = [r \in Request |-> {}]
    /\ refused = [r \in Request |-> {}]

-----------------------------------------------------------------------------
\* The evaluator

HasSynced(v) == reconciled[v] /\ refreshed[v]

Denies(v, c) == c \in definitions[v]

(* History: what the snapshots of the next state say of the open requests.  *)
Witness ==
    /\ accepted' = [r \in Request |-> accepted[r] \cup
          {v \in Validator : pc'[r] \notin {"idle", "done"} /\ HasSynced(v)'
                             /\ ~Denies(v, input[r].class)'}]
    /\ refused' = [r \in Request |-> refused[r] \cup
          {v \in Validator : pc'[r] \notin {"idle", "done"} /\ HasSynced(v)'
                             /\ Denies(v, input[r].class)'}]

(* A policy or binding was added, changed or removed and reconciled. *)
PolicyChange(v, denied) ==
    /\ changes < MaxChanges
    /\ denied # policies[v]
    /\ changes' = changes + 1
    /\ policies' = [policies EXCEPT ![v] = denied]
    /\ UNCHANGED <<reconciled, definitions, refreshed, requestVars>>
    /\ Witness

(* Everything the informers listed at first has been reconciled. *)
PoliciesReconciled(v) ==
    /\ ~reconciled[v]
    /\ reconciled' = [reconciled EXCEPT ![v] = TRUE]
    /\ UNCHANGED <<policies, definitions, refreshed, changes, requestVars>>
    /\ Witness

(* Defect: the policies are read once, at start-up. *)
RefreshPoliciesOnce(v) ==
    /\ reconciled[v]
    /\ ~refreshed[v]
    /\ refreshed' = [refreshed EXCEPT ![v] = TRUE]
    /\ definitions' = [definitions EXCEPT ![v] = policies[v]]
    /\ UNCHANGED <<reconciled, policies, changes, requestVars>>
    /\ Witness

(* refreshPolicies, every second once the policies are reconciled. *)
RefreshPolicies(v) ==
    /\ reconciled[v]
    /\ ~refreshed[v] \/ definitions[v] # policies[v]
    /\ refreshed' = [refreshed EXCEPT ![v] = TRUE]
    /\ definitions' = [definitions EXCEPT ![v] = policies[v]]
    /\ UNCHANGED <<reconciled, policies, changes, requestVars>>
    /\ Witness

-----------------------------------------------------------------------------
\* handleWebhookValidate

(* The status with which the handler gives up on a raw object. *)
DecodeStatus(raw) ==
    CASE raw \in {"otherGVK", "bad"} -> "400"
      [] raw = "notUnstructured"     -> "500"
      [] OTHER                       -> "ok"

(* multi.Handles: the plugin handles every operation, so only a webhook     *)
(* without validators handles none.                                         *)
Handles == NumValidators > 0

(* parseRequest, then, if anybody handles the request, the old object and   *)
(* the object.                                                              *)
InputStatus(in) ==
    IF ~in.review THEN "400"
    ELSE IF ~Handles THEN "ok"
    ELSE IF DecodeStatus(in.old) # "ok" THEN DecodeStatus(in.old)
    ELSE DecodeStatus(in.object)

Receive(r, in) ==
    /\ pc[r] = "idle"
    /\ input' = [input EXCEPT ![r] = in]
    /\ IF InputStatus(in) = "ok"
       THEN /\ pc' = [pc EXCEPT ![r] = "validate"]
            /\ UNCHANGED response
       ELSE /\ pc' = [pc EXCEPT ![r] = "done"]
            /\ response' = [response EXCEPT ![r] = InputStatus(in)]
    /\ UNCHANGED <<policyVars, index, err>>
    /\ Witness

(* reviewResponse: allowed means that there was no error. *)
Respond(r) ==
    /\ pc[r] = "respond"
    /\ response' = [response EXCEPT ![r] =
                       IF err[r] = "nil" THEN "allowed" ELSE "denied"]
    /\ pc' = [pc EXCEPT ![r] = "done"]
    /\ UNCHANGED <<policyVars, input, index, err>>
    /\ Witness

-----------------------------------------------------------------------------
\* multi.Validate and celAdmissionPlugin.Validate

(* The current validator is content: go on with the next one. *)
Pass(r) ==
    /\ index' = [index EXCEPT ![r] = @ + 1]
    /\ pc' = [pc EXCEPT ![r] = "validate"]
    /\ UNCHANGED err

(* The first error ends the loop. *)
Fail(r, reason) ==
    /\ err' = [err EXCEPT ![r] = reason]
    /\ pc' = [pc EXCEPT ![r] = "respond"]
    /\ UNCHANGED index

(* The loop is over: no validator objected. *)
ValidateEnd(r) ==
    /\ pc[r] = "validate"
    /\ index[r] > NumValidators
    /\ pc' = [pc EXCEPT ![r] = "respond"]
    /\ UNCHANGED <<policyVars, input, index, err, response>>
    /\ Witness

IsPolicyResource(in) == in.class \in PolicyClass

(* Defect: the loop over the validators goes one too far. *)
ValidatePolicyResourceTwice(r) ==
    /\ pc[r] = "validate"
    /\ index[r] <= NumValidators + 1
    /\ IsPolicyResource(input[r])
    /\ Pass(r)
    /\ UNCHANGED <<policyVars, input, response>>
    /\ Witness

ValidatePolicyResource(r) ==
    /\ pc[r] = "validate"
    /\ index[r] <= NumValidators
    /\ IsPolicyResource(input[r])
    /\ Pass(r)
    /\ UNCHANGED <<policyVars, input, response>>
    /\ Witness

(* PollImmediateWithContext sees HasSynced, ... *)
PollSynced(r) ==
    /\ pc[r] = "validate"
    /\ index[r] <= NumValidators
    /\ ~IsPolicyResource(input[r])
    /\ HasSynced(index[r])
    /\ pc' = [pc EXCEPT ![r] = "evaluate"]
    /\ UNCHANGED <<policyVars, input, index, err, response>>
    /\ Witness

(* Defect: a request that cannot wait any longer is let through. *)
PollTimeoutPasses(r) ==
    /\ pc[r] = "validate"
    /\ index[r] <= NumValidators
    /\ ~IsPolicyResource(input[r])
    /\ ~HasSynced(index[r])
    /\ Pass(r)
    /\ UNCHANGED <<policyVars, input, response>>
    /\ Witness

(* Defect: the poll has no deadline. *)
PollTimeoutNever(r) ==
    /\ pc[r] = "poll"
    /\ UNCHANGED vars

(* ... or gives up after a second in which it did not. *)
PollTimeout(r) ==
    /\ pc[r] = "validate"
    /\ index[r] <= NumValidators
    /\ ~IsPolicyResource(input[r])
    /\ ~HasSynced(index[r])
    /\ Fail(r, "not ready")
    /\ UNCHANGED <<policyVars, input, response>>
    /\ Witness

(* Defect: the verdict uses policies that are still being reconciled. *)
EvaluatorValidateUnrefreshed(r) ==
    /\ pc[r] = "evaluate"
    /\ IF input[r].class \in policies[index[r]]
       THEN Fail(r, "denied")
       ELSE Pass(r)
    /\ UNCHANGED <<policyVars, input, response>>
    /\ Witness

(* evaluator.Validate: one load of the snapshot, and its verdict. *)
EvaluatorValidate(r) ==
    /\ pc[r] = "evaluate"
    /\ IF ~HasSynced(index[r])
       THEN Fail(r, "not ready")
       ELSE IF Denies(index[r], input[r].class)
            THEN Fail(r, "denied")
            ELSE Pass(r)
    /\ UNCHANGED <<policyVars, input, response>>
    /\ Witness

-----------------------------------------------------------------------------

Handle(r) ==
    \/ ValidateEnd(r) \/ ValidatePolicyResource(r) \/ PollSynced(r)
    \/ PollTimeout(r) \/ EvaluatorValidate(r) \/ Respond(r)

Next ==
    \/ \E v \in Validator, denied \in SUBSET Class : PolicyChange(v, denied)
    \/ \E v \in Validator : PoliciesReconciled(v)
    \/ \E v \in Validator : RefreshPolicies(v)
    \/ \E r \in Request, in \in Input : Receive(r, in)
    \/ \E r \in Request : Handle(r)

Spec == Init /\ [][Next]_vars

(* Handlers run, polls end after a second, and refreshPolicies is called    *)
(* every second. Nothing is assumed of the informers or of policy changes.  *)
FairSpec ==
    /\ Spec
    /\ \A r \in Request : WF_vars(Handle(r))
    /\ \A v \in Validator : WF_vars(RefreshPolicies(v))

-----------------------------------------------------------------------------
\* Properties

(* Every variable has its type. *)
TypeOK ==
    /\ reconciled \in [Validator -> BOOLEAN]
    /\ policies \in [Validator -> SUBSET Class]
    /\ definitions \in [Validator -> SUBSET Class]
    /\ refreshed \in [Validator -> BOOLEAN]
    /\ changes \in Nat
    /\ pc \in [Request -> {"idle", "validate", "evaluate", "respond", "done"}]
    /\ input \in [Request -> Input]
    /\ index \in [Request -> 1..(NumValidators + 1)]
    /\ err \in [Request -> {"nil", "not ready", "denied"}]
    /\ response \in [Request -> {"none", "allowed", "denied", "400", "500"}]
    /\ accepted \in [Request -> SUBSET Validator]
    /\ refused \in [Request -> SUBSET Validator]

(* A request about anything but a policy resource is allowed only if every  *)
(* validator was synced and had, at some moment while the request was open, *)
(* a snapshot of the policies that did not object. No interleaving of       *)
(* start-up, policy changes and refreshes lets a request slip through.      *)
AllowedMeansAccepted ==
    \A r \in Request :
        (response[r] = "allowed" /\ input[r].class \notin PolicyClass)
        => accepted[r] = Validator

(* A well-formed request is refused by a policy only if some snapshot since *)
(* its arrival objected: a policy removed and refreshed before it arrived   *)
(* never denies. A write of a policy or binding is not refused at all,      *)
(* whatever the policies say and however far the informers have come: the   *)
(* policies cannot lock their own repair out.                               *)
DeniedMeansRefused ==
    \A r \in Request :
        (pc[r] = "done" /\ InputStatus(input[r]) = "ok" /\ response[r] # "allowed")
        => /\ input[r].class \notin PolicyClass
           /\ err[r] = "denied" => refused[r] # {}

(* Every request is answered, synced or not. *)
EveryRequestAnswered ==
    \A r \in Request : pc[r] = "validate" ~> pc[r] = "done"

(* A change of the policies that lasts is enforced. *)
PoliciesEnforced ==
    \A v \in Validator : \A denied \in SUBSET Class :
        (reconciled[v] /\ policies[v] = denied)
        ~> (refreshed[v] /\ definitions[v] = denied) \/ policies[v] # denied
=============================================================================
