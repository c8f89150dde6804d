----------------------------- MODULE MCValidator -----------------------------
(***************************************************************************)
(* Instances of Validator for TLC.  The published documents are a cut-down *)
(* cluster: api/v1 with a namespaced kind, a cluster-scoped kind and the   *)
(* DeleteOptions definition that claims kinds of other group-versions too; *)
(* a group-version whose schemas come from a local CRD, with stated scope, *)
(* and which has its own DeleteOptions claimant; apis/apps/v1 with a       *)
(* reference to nothing; and the group-version of CustomResourceDefinition,*)
(* whose definition is cyclic.                                             *)
(***************************************************************************)
EXTENDS Validator, FiniteSets

CONSTANTS
  core, apps, crds, apiextensions,
  Pod, Node, Options, CrdOptions, Unknown, Widget, CRD, Deployment,
  podDef, nodeDef, optionsDef, crdOptionsDef, widgetDef, crdDef,
  deploymentDef

MCGroupVersion == {core, apps, crds, apiextensions}

MCGVK == {Pod, Node, Options, CrdOptions, Unknown, Widget, CRD, Deployment}

MCGVOf ==
  [k \in MCGVK |-> CASE k \in {Pod, Node, Options, Unknown} -> core
                     [] k = Deployment -> apps
                     [] k \in {CrdOptions, Widget} -> crds
                     [] k = CRD -> apiextensions]

MCDef ==
  {podDef, nodeDef, optionsDef, crdOptionsDef, widgetDef, crdDef, deploymentDef}

MCHome ==
  [d \in MCDef |-> CASE d \in {podDef, nodeDef, optionsDef} -> core
                     [] d = deploymentDef -> apps
                     [] d \in {crdOptionsDef, widgetDef} -> crds
                     [] d = crdDef -> apiextensions]

MCClaims ==
  [d \in MCDef |-> CASE d = podDef -> {Pod}
                     [] d = nodeDef -> {Node}
                     [] d = optionsDef -> {Options, CrdOptions}
                     [] d = crdOptionsDef -> {CrdOptions}
                     [] d = widgetDef -> {Widget}
                     [] d = crdDef -> {CRD}
                     [] d = deploymentDef -> {Deployment}]

MCScopeExtension ==
  [d \in MCDef |-> IF d = widgetDef THEN "Namespaced" ELSE "absent"]

MCNamespacedPaths == [gv \in MCGroupVersion |-> IF gv = core THEN {Pod} ELSE {}]

Object(k, namespace, decodes, conforms, native) ==
  [gvk |-> k, namespace |-> namespace, decodes |-> decodes,
   conforms |-> conforms, native |-> native]

badNsPod == Object(Pod, "malformed", {podDef}, {podDef}, FALSE)
badNode  == Object(Node, "wellFormed", {}, {}, FALSE)
options  == Object(CrdOptions, "none", {optionsDef, crdOptionsDef}, {optionsDef}, FALSE)
unknown  == Object(Unknown, "none", {}, {}, FALSE)
badNsWidget == Object(Widget, "malformed", {widgetDef}, {widgetDef}, FALSE)
goodCRD  == Object(CRD, "none", {crdDef}, {}, TRUE)
deployment == Object(Deployment, "none", {deploymentDef}, {deploymentDef}, FALSE)
untyped  == Object(NoGVK, "none", {}, {}, FALSE)

MCDoc == {badNsPod, badNode, options, unknown, badNsWidget,
          goodCRD, deployment, untyped}

MCCrdGVK == {CRD}
=============================================================================
