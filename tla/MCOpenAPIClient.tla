--------------------------- MODULE MCOpenAPIClient ---------------------------
(***************************************************************************)
(* Three group-versions: two built-in ones, of which --local-schemas also  *)
(* has a file for one, and one of a CRD, that --local-crds and the cluster *)
(* offer, the local CRD under the name "group/version.Kind" and the        *)
(* cluster under its reversed domain name.                                 *)
(***************************************************************************)
EXTENDS OpenAPIClient

CONSTANTS builtin, batch, crd

MCGroupVersion == {builtin, batch, crd}

MCOffers ==
  [s \in Source |-> CASE s = "localCRDs" -> {crd}
                      [] s = "localSchemas" -> {builtin}
                      [] s = "cluster" -> {builtin, batch, crd}
                      [] OTHER -> {builtin, batch}]

Named(name, gvk) == [name |-> name, gvk |-> gvk]

MCDefs ==
  [s \in Source |->
    [gv \in MCGroupVersion |->
      CASE gv = builtin /\ s = "localSchemas" -> {Named("api.Pod", "Pod")}
        [] gv = builtin /\ s \in {"cluster", "hardcoded", "github"} ->
             {Named("api.Pod", "Pod"), Named("api.Node", "Node")}
        [] gv = crd /\ s = "localCRDs" ->
             {Named("group/v1.Widget", "Widget"), Named("meta.ObjectMeta", "none")}
        [] gv = crd /\ s = "cluster" ->
             {Named("group.v1.Widget", "Widget"), Named("meta.ObjectMeta", "none"),
              Named("group.v1.Gadget", "Gadget")}
        [] OTHER -> {}]]

\* A plain command line, and those that differ from it in what one case is about.
Plain ==
  [version |-> "embedded", context |-> "current", kubeconfig |-> TRUE, broken |-> {},
   localBody |-> "document", patch |-> [gv \in MCGroupVersion |-> "none"], handPatched |-> {}]

MCFlags ==
  {[Plain EXCEPT !.version = v, !.kubeconfig = k] :
     v \in {"embedded", "upstream", "empty"}, k \in BOOLEAN}
  \cup {[Plain EXCEPT !.handPatched = {builtin}, !.kubeconfig = k] : k \in BOOLEAN}
  \cup {[Plain EXCEPT !.broken = {s}] : s \in Local}
  \cup {[Plain EXCEPT !.localBody = b, !.patch[builtin] = p, !.version = v] :
          b \in Body, p \in Patch, v \in {"embedded", "empty"}}
  \cup {[Plain EXCEPT !.version = "upstream", !.kubeconfig = k, !.patch[batch] = p] :
          k \in BOOLEAN, p \in Patch}

\* The command lines of an offline user, and of one who names a context.
MCContextFlags == {[Plain EXCEPT !.context = c] : c \in {"current", "other"}}
=============================================================================
