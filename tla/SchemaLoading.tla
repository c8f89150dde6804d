----------------------------- MODULE SchemaLoading -----------------------------
(***************************************************************************)
(* What becomes of a schema between the document that publishes it and the *)
(* manifest decoded under it: infoForGVK patches every definition, then    *)
(* inlines the references (RefResolution, which this module extends by     *)
(* what travels with a struct), and Parse decodes a manifest under the     *)
(* structural schema of the result: unknown fields and duplicates are      *)
(* complained about, nulls pruned, defaults filled in.                     *)
(*                                                                         *)
(* A schema carries marks: is it nullable, its default, its format, does   *)
(* it preserve unknown fields.  The marks of a reference are those beside  *)
(* it; the marks of what a "not" holds are left out.                       *)
(***************************************************************************)
EXTENDS RefResolution

CONSTANTS
  Field,         \* the places that are properties of a definition itself
  RawDocuments,  \* the documents as they are published
  Kinds,         \* the definitions that are the schema of a kind
  Manifests      \* what is decoded

Node == {"ref"} \cup Place

Mark == [nullable : BOOLEAN, default : {"none", "{}", "other"},
         format : {"any", "byte", "byteOrEmpty"}, preserve : BOOLEAN]

Blank == [nullable |-> FALSE, default |-> "none", format |-> "any", preserve |-> FALSE]

(***************************************************************************)
(* A document: its references, the marks of its definitions and of their   *)
(* places, which of its definitions have one of the names the patches know *)
(* ("marshaller": a type with a custom MarshalJSON that handles null), and *)
(* whether its group-version is one of the built-in ones.                  *)
(***************************************************************************)
RawDocument ==
  [refs : [Def -> Published], marks : [Def -> [Node -> Mark]],
   role : [Def -> {"ordinary", "marshaller", "intOrString"}], builtIn : BOOLEAN]

(***************************************************************************)
(* A manifest gives one field of its root nothing, null or a value; a      *)
(* field may be given twice, be unknown, or be in malformed metadata.      *)
(***************************************************************************)
Manifest == [field : Field, given : {"absent", "null", "value"},
             twice : BOOLEAN, unknown : BOOLEAN, malformed : BOOLEAN]

VARIABLES
  raw,    \* the document as it is published
  marks,  \* the marks of the structs ("ref") and of the places of containers
  parsed  \* what Parse made of a manifest

loadVars == <<refVars, raw, marks, parsed>>

-----------------------------------------------------------------------------
(***************************************************************************)
(* ApplySchemaPatches.                                                     *)
(***************************************************************************)
Named(doc, role) == {d \in Def : doc.role[d] = role}

\* IntOrString is replaced by a schema that has nothing but its extension.
PatchedRefs(doc) ==
  [d \in Def |-> IF doc.role[d] = "intOrString" THEN [f \in DOMAIN doc.refs[d] |-> None]
                                                ELSE doc.refs[d]]

\* Mutant: only what defines a type is looked at, not what refers to it.
InvalidOwnDefault(doc, d, n) ==
  doc.marks[d][n].default = "{}" /\ doc.role[d] # "ordinary"

\* {} is published as the default of every reference to a struct.  It is no value
\* of a type with custom marshalling, which is known by the name that is referred
\* to: an alias of such a type has another.
InvalidDefault(doc, d, n) ==
  /\ doc.marks[d][n].default = "{}"
  /\ doc.refs[d][n] \in Named(doc, "marshaller") \cup Named(doc, "intOrString")

PatchedMark(doc, d, n) ==
  [nullable |-> doc.marks[d][n].nullable \/ doc.role[d] = "marshaller",
   default |-> IF InvalidDefault(doc, d, n) THEN "none" ELSE doc.marks[d][n].default,
   format |-> IF doc.builtIn /\ doc.marks[d][n].format = "byte" THEN "byteOrEmpty"
                                                                ELSE doc.marks[d][n].format,
   preserve |-> doc.marks[d][n].preserve]

PatchedMarks(doc) ==
  [d \in Def |-> [n \in Node |-> IF doc.role[d] = "intOrString" THEN Blank
                                                                ELSE PatchedMark(doc, d, n)]]

ASSUME RawAssumption ==
  /\ Field \subseteq Early /\ Kinds \subseteq Def
  /\ Manifests \subseteq Manifest
  /\ \A doc \in RawDocuments : doc \in RawDocument /\ PatchedRefs(doc) \in Documents

LoadInit ==
  /\ raw \in RawDocuments
  /\ published = PatchedRefs(raw)
  /\ Init
  /\ marks = PatchedMarks(raw)
  /\ parsed = None

-----------------------------------------------------------------------------
(***************************************************************************)
(* Inlining, with the marks.                                               *)
(***************************************************************************)
\* The marks of a copy of t that stands where m was: what is beside the reference
\* wins, but nothing there can deny that t is nullable.
Override(m, t) ==
  [nullable |-> m.nullable \/ t.nullable,
   default |-> IF m.default = "none" THEN t.default ELSE m.default,
   format |-> t.format,
   preserve |-> m.preserve \/ t.preserve]

\* Mutant: what is beside the reference is lost.
TargetMark(d, n, s) == IF Resolvable(s) THEN marks[s.ref]["ref"] ELSE marks[d][n]

\* The mark of node n of d, a reference s, once s is resolved.
ResolvedMark(d, n, s) ==
  IF Resolvable(s) THEN Override(marks[d][n], marks[s.ref]["ref"]) ELSE marks[d][n]

FollowMarked(d) ==
  /\ Follow(d)
  /\ marks' = [marks EXCEPT ![d]["ref"] = ResolvedMark(d, "ref", schemas[d])]
  /\ UNCHANGED <<raw, parsed>>

ExploreMarked(d) ==
  /\ Explore(d)
  /\ marks' = [marks EXCEPT ![d] =
                 [n \in Node |-> IF n = "ref" THEN @[n]
                                 ELSE ResolvedMark(d, n, containers[d][n])]]
  /\ UNCHANGED <<raw, parsed>>

-----------------------------------------------------------------------------
(***************************************************************************)
(* StructuralSchema: the schema is written out as JSON, which fails if it  *)
(* contains itself, and read back, which fails on a reference left over.   *)
(***************************************************************************)
\* The definitions that steps lead to from the names, by any number of them.
Closure(names, step) ==
  LET closed == {S \in SUBSET Def : names \subseteq S /\ \A e \in S : step[e] \subseteq S}
  IN  {d \in Def : \A S \in closed : d \in S}

Inside == [d \in Def |-> UNION {containers[d][p].boxes : p \in Place}]

\* The definitions whose containers the schema of d consists of.
Parts(d) == Closure(schemas[d].boxes, Inside)

\* Mutant: only a definition that contains itself at once is found.
SelfContaining(d) == \E e \in Parts(d) : e \in Inside[e]

Recursive(d) == \E e \in Parts(d) : e \in Closure(Inside[e], Inside)

HasReference(d) ==
  \E s \in {schemas[d]} \cup {containers[e][p] : e \in Parts(d), p \in Place} : s.refs # {}

(***************************************************************************)
(* Parse.                                                                  *)
(***************************************************************************)
Complaints(d, m) ==
  {c \in {"twice", "unknown"} :
     \/ c = "twice" /\ m.twice
     \/ c = "unknown" /\ m.unknown /\ ~marks[d]["ref"].preserve}

\* Mutant: a default replaces every null.
NullIsAbsent(m, mark, preserve) ==
  IF m.given = "value" THEN "value"
  ELSE IF mark.default # "none" THEN mark.default
  ELSE IF m.given = "null" /\ (mark.nullable \/ preserve) THEN "null" ELSE "absent"

\* The value that a field still has after nulls that must not be there were pruned.
Pruned(m, mark, preserve) ==
  IF m.given = "null" /\ ~mark.nullable /\ mark.default = "none" /\ ~preserve
  THEN "absent" ELSE m.given

\* And after defaults were filled in, which also replaces the nulls left over.
Decoded(m, mark, preserve) ==
  LET pruned == Pruned(m, mark, preserve)
  IN  IF /\ mark.default # "none"
         /\ pruned = "absent" \/ (pruned = "null" /\ ~mark.nullable)
      THEN mark.default ELSE pruned

Conclude(d, m, outcome, value) ==
  /\ parsed' = [def |-> d, manifest |-> m, outcome |-> outcome, value |-> value]
  /\ UNCHANGED <<refVars, raw, marks>>

\* A kind with schema d is looked up, and the manifest m decoded under it.
Parse(d, m) ==
  /\ parsed = None
  /\ Done
  /\ \/ /\ referenceErrors # {}
        /\ Conclude(d, m, "dangling", None)
     \/ /\ referenceErrors = {} /\ Recursive(d)
        /\ Conclude(d, m, "recursive", None)
     \/ /\ referenceErrors = {} /\ ~Recursive(d) /\ HasReference(d)
        /\ Conclude(d, m, "reference", None)
     \/ /\ referenceErrors = {} /\ ~Recursive(d) /\ ~HasReference(d)
        /\ \/ m.malformed /\ Conclude(d, m, "malformed", None)
           \/ /\ ~m.malformed /\ Complaints(d, m) # {}
              /\ Conclude(d, m, "strict", None)
           \/ /\ ~m.malformed /\ Complaints(d, m) = {}
              /\ Conclude(d, m, "decoded",
                   Decoded(m, marks[schemas[d].box][m.field], marks[d]["ref"].preserve))

LoadNext ==
  \/ \E d \in Def : FollowMarked(d) \/ ExploreMarked(d)
  \/ \E d \in Kinds, m \in Manifests : Parse(d, m)

LoadSpec == LoadInit /\ [][LoadNext]_loadVars

-----------------------------------------------------------------------------
\* For a document of plain definitions the marks do not depend on the order of
\* the map either: they are those of the patched document, overridden once.
MarksOrderIndependent ==
  Plain =>
    LET patched == PatchedMarks(raw)
    IN  \A d \in Def, n \in Node :
          marks[d][n] =
            IF d \in unvisited \/ n = "ref" \/ published[d][n] \notin Def
            THEN patched[d][n]
            ELSE Override(patched[d][n], patched[published[d][n]]["ref"])

PublishedIn == [d \in Def |-> {published[d][f] : f \in DOMAIN published[d]} \cap Def]

\* The schema of d contains itself, or something that does, as it was published.
PublishedRecursive(d) ==
  \E e \in Closure({d}, PublishedIn) : e \in Closure(PublishedIn[e], PublishedIn)

\* A lookup is refused exactly for a dangling reference.  A recursive schema is
\* never decoded under, whatever the order of the map and however the cycle is
\* made, and no other is refused as recursive; a reference is never left over
\* in a document of plain definitions.
RefusedRightly ==
  parsed # None =>
    /\ parsed.outcome = "dangling" <=>
         \E d \in Def : \E f \in DOMAIN published[d] : published[d][f] = Missing
    /\ parsed.outcome = "recursive" => PublishedRecursive(parsed.def)
    /\ PublishedRecursive(parsed.def) =>
         parsed.outcome \in {"dangling", "recursive", "reference"}
    /\ Plain => parsed.outcome # "reference"

\* What the field of the manifest is said to be, if it is a reference, and what
\* that denotes.
FieldName(den) == published[den[parsed.def]][parsed.manifest.field]

\* A null survives decoding where the field is of a type that handles null
\* itself, by that name or by another that refers to it.
NullsSurvive ==
  (parsed # None /\ parsed.outcome = "decoded" /\ parsed.manifest.given = "null") =>
    \A den \in [Def -> Def] :
      (/\ Respects(den)
       /\ FieldName(den) \in Def
       /\ {FieldName(den), den[FieldName(den)]} \cap Named(raw, "marshaller") # {}) =>
         parsed.value = "null"

\* The document itself asks for an object at node n of d: {} is the default there,
\* and not beside a reference that names a type whose values are no objects.
AsksForObject(d, n) ==
  /\ raw.marks[d][n].default = "{}"
  /\ raw.role[d] # "intOrString"
  /\ raw.refs[d][n] \notin Named(raw, "marshaller") \cup Named(raw, "intOrString")

\* What a definition that is itself a reference refers to.
AliasOf == [d \in Def |-> {published[d].ref} \cap Def]

\* A definition that t names, directly or through aliases, asks for an object.
LeadsToObject(t) == \E d \in Closure({t} \cap Def, AliasOf) : AsksForObject(d, "ref")

\* An object is only made up where the document asks for one: at the field, or at
\* a definition that the field refers to, directly or through aliases.  It is no
\* property of the code that no object is made up for a type whose values are no
\* objects: the patch looks at the name beside the default, not through an alias,
\* so that the {} beside an alias of such a type stays.
NoInvalidDefaults ==
  (parsed # None /\ parsed.outcome = "decoded" /\ parsed.value = "{}") =>
    \A den \in [Def -> Def] :
      Respects(den) =>
        \/ AsksForObject(den[parsed.def], parsed.manifest.field)
        \/ LeadsToObject(FieldName(den))
=============================================================================
