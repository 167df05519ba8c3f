---------------------------- MODULE PolicyTypes ----------------------------
(***************************************************************************)
(* The API types of pkg/apis/admissionregistration.x-k8s.io/v1alpha1, as   *)
(* far as one object can share memory with another: a struct is the set of *)
(* paths, from it, to the pointers and slices inside it.  Value fields are *)
(* copied with the struct that holds them and are left out; one element    *)
(* stands for all elements of a slice.                                     *)
(*                                                                         *)
(* For each struct of types.go there is what zz_generated.deepcopy.go says *)
(* of it: the paths to which its DeepCopyInto gives a cell of their own,   *)
(* after "*out = *in" has made both objects share everything.              *)
(***************************************************************************)
EXTENDS Naturals, Sequences

Inside(field, refs) == {<<field>> \o p : p \in refs}

(* A pointer or slice called field to structs with the references refs. *)
Ref(field, refs) == {<<field>>} \cup Inside(field, refs)

(* In the copiers: a new cell, filled by an assignment or by copy() ... *)
New(field) == {<<field>>}

(* ... or by the DeepCopyInto of what it holds. *)
NewDeep(field, refs) == Ref(field, refs)

-----------------------------------------------------------------------------
\* k8s.io/apimachinery and k8s.io/api (external): one reference stands for all

LabelSelector == Ref("MatchLabels", {})
ObjectMeta == Ref("Labels", {})
RuleWithOperations == Ref("Operations", {})

-----------------------------------------------------------------------------
\* types.go

ParamKind == {}
ParamRef == {}
AuditAnnotation == {}
MatchCondition == {}
ExpressionWarning == {}

TypeChecking == Ref("ExpressionWarnings", ExpressionWarning)

ValidatingAdmissionPolicyStatus ==
    Ref("TypeChecking", TypeChecking) \cup Ref("Conditions", {})

Validation == Ref("Reason", {})

NamedRuleWithOperations ==
    Ref("ResourceNames", {}) \cup Inside("RuleWithOperations", RuleWithOperations)

MatchResources ==
    Ref("NamespaceSelector", LabelSelector) \cup Ref("ObjectSelector", LabelSelector)
    \cup Ref("ResourceRules", NamedRuleWithOperations)
    \cup Ref("ExcludeResourceRules", NamedRuleWithOperations)
    \cup Ref("MatchPolicy", {})

ValidatingAdmissionPolicySpec ==
    Ref("ParamKind", ParamKind) \cup Ref("MatchConstraints", MatchResources)
    \cup Ref("Validations", Validation) \cup Ref("FailurePolicy", {})
    \cup Ref("AuditAnnotations", AuditAnnotation)
    \cup Ref("MatchConditions", MatchCondition)

ValidatingAdmissionPolicy ==
    Inside("ObjectMeta", ObjectMeta) \cup Inside("Spec", ValidatingAdmissionPolicySpec)
    \cup Inside("Status", ValidatingAdmissionPolicyStatus)

ValidatingAdmissionPolicyBindingSpec ==
    Ref("ParamRef", ParamRef) \cup Ref("MatchResources", MatchResources)
    \cup Ref("ValidationActions", {})

ValidatingAdmissionPolicyBinding ==
    Inside("ObjectMeta", ObjectMeta)
    \cup Inside("Spec", ValidatingAdmissionPolicyBindingSpec)

(* What the CRDs in artifacts/crds default and require. ValidationActions   *)
(* is marked as required in types.go, but not in the CRD.                   *)
Defaulted == {"FailurePolicy", "NamespaceSelector", "ObjectSelector", "MatchPolicy"}
Required == {<<"Spec", "MatchConstraints">>}

(* References behind which there is text that may mention an API group and  *)
(* its version: the metadata's annotations (with the labels in ObjectMeta), *)
(* paramKind.apiVersion, CEL expressions.                                   *)
Text == {"Labels", "ParamKind", "Validations", "AuditAnnotations", "MatchConditions"}

Slice ==
    {"ExpressionWarnings", "Conditions", "ResourceNames", "Operations",
     "ResourceRules", "ExcludeResourceRules", "Validations", "AuditAnnotations",
     "MatchConditions", "ValidationActions"}

-----------------------------------------------------------------------------
\* zz_generated.deepcopy.go

CopyTypeChecking == New("ExpressionWarnings")

CopyStatus ==
    NewDeep("TypeChecking", CopyTypeChecking) \cup NewDeep("Conditions", {})

CopyValidation == New("Reason")

CopyNamedRuleWithOperations ==
    New("ResourceNames") \cup Inside("RuleWithOperations", RuleWithOperations)

(* Defect: the exclude rules are copied element by element with copy(). *)
CopyMatchResourcesShallow ==
    NewDeep("NamespaceSelector", LabelSelector)
    \cup NewDeep("ObjectSelector", LabelSelector)
    \cup NewDeep("ResourceRules", CopyNamedRuleWithOperations)
    \cup New("ExcludeResourceRules")
    \cup New("MatchPolicy")

CopyMatchResources ==
    NewDeep("NamespaceSelector", LabelSelector)
    \cup NewDeep("ObjectSelector", LabelSelector)
    \cup NewDeep("ResourceRules", CopyNamedRuleWithOperations)
    \cup NewDeep("ExcludeResourceRules", CopyNamedRuleWithOperations)
    \cup New("MatchPolicy")

CopyPolicySpec ==
    New("ParamKind") \cup NewDeep("MatchConstraints", CopyMatchResources)
    \cup NewDeep("Validations", CopyValidation) \cup New("FailurePolicy")
    \cup New("AuditAnnotations") \cup New("MatchConditions")

CopyPolicy ==
    Inside("ObjectMeta", ObjectMeta) \cup Inside("Spec", CopyPolicySpec)
    \cup Inside("Status", CopyStatus)

CopyBindingSpec ==
    New("ParamRef") \cup NewDeep("MatchResources", CopyMatchResources)
    \cup New("ValidationActions")

CopyBinding ==
    Inside("ObjectMeta", ObjectMeta) \cup Inside("Spec", CopyBindingSpec)
=============================================================================
