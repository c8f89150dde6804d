---------------------------- MODULE MCLocalSources ----------------------------
(***************************************************************************)
(* Two directories of CustomResourceDefinitions of two kinds, one of which *)
(* several documents define, beside what else may be found there; and      *)
(* small trees of schemas.                                                 *)
(***************************************************************************)
EXTENDS LocalSources

CONSTANTS widget, gadget

MCKind == {widget, gadget}

Doc(gvk, err, versions) == [gvk |-> gvk, err |-> err, blank |-> FALSE, versions |-> versions]

Of(kind, schema) == [kind |-> kind, schema |-> schema]

widgets == Doc("crd", "none", <<Of(widget, "structural")>>)
gadgets == Doc("crd", "none", <<Of(gadget, "structural")>>)
both    == Doc("crd", "none", <<Of(widget, "structural"), Of(gadget, "structural")>>)
bare    == Doc("crd", "none", <<Of(gadget, "structural"), Of(widget, "absent")>>)
loose   == Doc("crd", "none", <<Of(widget, "notStructural"), Of(gadget, "absent")>>)
wrong   == Doc("crd", "invalid", <<>>)
garbled == Doc(None, "invalid", <<>>)
pod     == Doc(None, "unregistered", <<>>)
status  == Doc("other", "invalid", <<>>)
empty   == [garbled EXCEPT !.blank = TRUE]

Usable == {widgets, both, pod, status}

AnyDocument == Usable \cup {empty, bare, loose, wrong, garbled}

Manifest(type, docs) ==
  [type |-> type, readable |-> TRUE, docs |-> docs, reached |-> Len(docs)]

\* A malformed separator takes all but the first n documents.
Cut(docs, n) == [Manifest("yaml", docs) EXCEPT !.reached = n]

Dir(content) == [state |-> "present", files |-> content]

NoTree == [root |-> "missing", groups |-> <<>>]

Groups ==
  {[listable |-> TRUE, versions |-> versions] :
     versions \in [1..2 -> {"v1", "v2", None}]}
  \cup {[listable |-> FALSE, versions |-> <<>>]}

MCDisks ==
  {[crds |-> <<Dir(<<Manifest("yaml", <<x, y>>), Manifest("json", <<z>>)>>), second>>,
    schemas |-> NoTree] :
     x \in {widgets, empty, status}, y \in AnyDocument, z \in Usable \cup {garbled},
     second \in {[state |-> "missing", files |-> <<>>],
                 Dir(<<Manifest("yaml", <<widgets>>)>>),
                 Dir(<<Manifest("directory", <<>>), Manifest("yaml", <<garbled>>)>>)}}
  \cup {[crds |-> <<Dir(<<Cut(<<x, y, both>>, n), Manifest("yaml", <<z>>)>>)>>,
         schemas |-> NoTree] :
          x \in {widgets, status}, y \in AnyDocument, z \in {widgets, garbled}, n \in 0..2}
  \cup {[crds |-> <<Dir(<<[Manifest(type, <<widgets>>) EXCEPT !.readable = readable],
                          Manifest("otherwise", <<>>), Manifest("yaml", <<y>>)>>),
                    [state |-> state, files |-> <<>>]>>,
         schemas |-> NoTree] :
          type \in {"json", "yaml"}, readable \in BOOLEAN, y \in {gadgets, garbled},
          state \in {"present", "missing", "unreadable"}}
  \cup {[crds |-> <<Dir(<<Manifest("yaml", <<widgets>>)>>)>>,
         schemas |-> [root |-> root, groups |-> <<g, h>>]] :
          root \in {"present", "unreadable"}, g \in Groups, h \in Groups}
================================================================================
