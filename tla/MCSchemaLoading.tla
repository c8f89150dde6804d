---------------------------- MODULE MCSchemaLoading ----------------------------
(***************************************************************************)
(* Three definitions with at most one reference each, and two with any     *)
(* number of them, among one another and to a name that is missing, all    *)
(* unmarked; and a kind with two references beside marks, to itself, to an *)
(* alias and to a type whose name the patches know.                        *)
(***************************************************************************)
EXTENDS SchemaLoading, FiniteSets

CONSTANTS a, b, c

MCDef == {a, b, c}

References(d) == {f \in DOMAIN d : d[f] # None}

\* A definition as a document may have it.
Definitions == {d \in Published : d.ref \in Def => References(d) = {"ref"}}

Single == {d \in Definitions : Cardinality(References(d)) <= 1}

Several == {d \in Definitions : \A f \in DOMAIN d : d[f] \notin {c, Missing}}

UnmarkedReferences ==
  [Def -> Single] \cup {refs \in [Def -> Several] : References(refs[c]) = {}}

Unmarked(refs) ==
  [refs |-> refs, marks |-> [d \in Def |-> [n \in Node |-> Blank]],
   role |-> [d \in Def |-> "ordinary"], builtIn |-> TRUE]

Refs(ref, properties, items) ==
  [f \in {"ref", "not"} \cup Place |->
     CASE f = "ref" -> ref [] f = "not" -> None
       [] f = "properties" -> properties [] f = "items" -> items]

Marked(nullable, default, format, preserve) ==
  [nullable |-> nullable, default |-> default, format |-> format, preserve |-> preserve]

\* a is a kind, b an ordinary definition or an alias, and c has the role.
MarkedReferences ==
  {[d \in Def |-> CASE d = a -> Refs(None, field, a_items)
                    [] d = b -> Refs(b_ref, None, None)
                    [] d = c -> Refs(None, c_field, None)] :
      field \in {b, c}, a_items \in {None, c}, b_ref \in {None, c}, c_field \in {None, a}}

MarkedDocuments ==
  {[refs |-> refs,
    marks |-> [d \in Def |-> [n \in Node |->
                 CASE d = a /\ n = "properties" -> mark
                   [] d = a /\ n = "ref" -> Marked(FALSE, "none", "any", preserve)
                   [] d = b /\ n = "ref" -> Marked(FALSE, beside, "any", FALSE)
                   [] d = c /\ n = "ref" -> Marked(FALSE, own, "byte", FALSE)
                   [] OTHER -> Blank]],
    role |-> [d \in Def |-> IF d = c THEN role ELSE "ordinary"],
    builtIn |-> ~preserve] :
      refs \in MarkedReferences,
      mark \in {Marked(nullable, default, "any", FALSE) :
                  nullable \in BOOLEAN, default \in {"none", "{}", "other"}},
      preserve \in BOOLEAN, own \in {"none", "{}", "other"}, beside \in {"none", "{}"},
      role \in {"ordinary", "marshaller", "intOrString"}}

MCRawDocuments == {Unmarked(refs) : refs \in UnmarkedReferences} \cup MarkedDocuments

\* Patching a document removes the references of an IntOrString.
MCDocuments == UnmarkedReferences \cup MarkedReferences

Given(given) ==
  [field |-> "properties", given |-> given, twice |-> FALSE, unknown |-> FALSE,
   malformed |-> FALSE]

MCManifests ==
  {Given("absent"), Given("null"),
   [Given("null") EXCEPT !.unknown = TRUE],
   [Given("value") EXCEPT !.twice = TRUE, !.malformed = TRUE]}
================================================================================
