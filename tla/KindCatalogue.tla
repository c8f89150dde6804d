---------------------------- MODULE KindCatalogue ----------------------------
(***************************************************************************)
(* What a Validator promises its caller, without fetches, caches or        *)
(* program counters: it keeps a catalogue of known kinds that only grows,  *)
(* and every answer it gives is warranted by the catalogue and by the      *)
(* published definitions.                                                  *)
(***************************************************************************)
EXTENDS Sequences

CONSTANTS GVK, NoGVK, Def, Claims, CrdGVK, Doc

VARIABLES known, answers

catalogue == <<known, answers>>

LookupFailures == {"noSpec", "fetchFailed", "danglingRef", "noKind"}

Judgements == {"ok", "invalid", "undecodable", "noStructural"}

\* A definition the document may be judged by, and satisfies.
Satisfied(function, d) ==
  \E def \in Def :
    /\ d.gvk \in Claims[def]
    /\ def \in d.conforms
    /\ function = "document" => def \in d.decodes

(***************************************************************************)
(* The answers that the catalogue K warrants.  ValidateDocument judges a   *)
(* CustomResourceDefinition by handwritten rules and needs no catalogue.   *)
(***************************************************************************)
Warranted(K, function, d, verdict) ==
  \/ verdict = "unidentified" /\ d.gvk = NoGVK
  \/ /\ d.gvk \in GVK
     /\ function = "document" /\ d.gvk \in CrdGVK
     /\ verdict = IF d.native THEN "ok" ELSE "invalid"
  \/ /\ d.gvk \in GVK \ K
     /\ ~(function = "document" /\ d.gvk \in CrdGVK)
     /\ verdict \in LookupFailures
  \/ /\ d.gvk \in K
     /\ ~(function = "document" /\ d.gvk \in CrdGVK)
     /\ verdict \in Judgements
     /\ verdict = "ok" => Satisfied(function, d)

Init == known = {} /\ answers = <<>>

Grow == known \subseteq known' /\ known' \subseteq GVK

Learn == Grow /\ UNCHANGED answers

Answer(function, d, verdict) ==
  /\ Grow
  /\ Warranted(known', function, d, verdict)
  /\ answers' = Append(answers, [call |-> function, doc |-> d, verdict |-> verdict])

Next ==
  \/ Learn
  \/ \E function \in {"document", "object"}, d \in Doc,
        verdict \in LookupFailures \cup Judgements \cup {"unidentified"} :
       Answer(function, d, verdict)

Spec == Init /\ [][Next]_catalogue
=============================================================================
