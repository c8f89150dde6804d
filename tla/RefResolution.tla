---------------------------- MODULE RefResolution ----------------------------
(***************************************************************************)
(* How infoForGVK inlines the references of an OpenAPI document: a visitor *)
(* goes over every definition once, in the order of a Go map, and replaces *)
(* each schema that is a reference by a shallow copy of the definition it  *)
(* names.  A copy shares the containers of its original (the map of        *)
(* properties, the items, ...), so what is inlined later in the original   *)
(* shows in the copy; the fields of the original itself (its "not", or     *)
(* what it is a reference to) are copied as they are at that moment.       *)
(*                                                                         *)
(* A definition is abstracted to its references: what it is a reference to *)
(* itself, what its "not" is a reference to, and the places in its shared  *)
(* containers that are references, at whatever depth.                      *)
(***************************************************************************)
EXTENDS Naturals

CONSTANTS
  Def,        \* the definitions of the document
  Missing,    \* a name that none of them has
  Early,      \* places the visitor comes to before "not" (properties, allOf, ...)
  Late,       \* places it comes to after "not" (items, additionalProperties)
  Documents,  \* the documents
  None

Name == Def \cup {Missing}

Place == Early \cup Late

Reference == Name \cup {None}

\* What a document says of a definition: where it has references, and to what.
Published == [{"ref", "not"} \cup Place -> Reference]

ASSUME NamesAssumption == Missing \notin Def /\ None \notin Name

ASSUME PlacesAssumption == {"ref", "not"} \cap Place = {} /\ Early \cap Late = {}

\* A definition that is a reference has nothing beside it.
ASSUME DocumentsAssumption ==
  \A doc \in Documents :
    /\ doc \in [Def -> Published]
    /\ \A d \in Def : doc[d].ref \in Def =>
         \A f \in {"not"} \cup Place : doc[d][f] = None

VARIABLES
  published,       \* the document as it was fetched
  schemas,         \* openapiSpec.Components.Schemas: the structs
  containers,      \* the shared containers of each definition
  unvisited,       \* what the loop has still to come to
  referenceErrors  \* the places of dangling references

refVars == <<published, schemas, containers, unvisited, referenceErrors>>

\* A struct: the reference it is, the definition whose containers it points to,
\* and its "not"; and all references in it, and all containers that it and the
\* "not" in it, and the "not" in that, and so on, point to.
Schema(ref, box, not) ==
  [ref |-> ref, box |-> box, not |-> not,
   refs |-> ({ref} \ {None}) \cup IF box = None THEN {} ELSE not.refs,
   boxes |-> IF box = None THEN {} ELSE {box} \cup not.boxes]

\* A schema that is a reference, or has none.
Pointer(name) == Schema(name, None, None)

Init ==
  /\ published \in Documents
  /\ schemas = [d \in Def |->
                  Schema(published[d].ref, d, Pointer(published[d].not))]
  /\ containers = [d \in Def |-> [p \in Place |-> Pointer(published[d][p])]]
  /\ unvisited = Def
  /\ referenceErrors = {}

-----------------------------------------------------------------------------
Resolvable(s) == s.ref \in Def

\* Mutant: the copy points to the containers of the schema it replaces.
ResolveInPlace(s, defs) ==
  IF Resolvable(s) THEN Schema(defs[s.ref].ref, s.box, defs[s.ref].not) ELSE s

\* A reference becomes a copy of what it names; anything else stays.
Resolve(s, defs) == IF Resolvable(s) THEN defs[s.ref] ELSE s

\* The references of a definition that name nothing.
Dangling(d) == {<<d, f>> : f \in {g \in DOMAIN published[d] : published[d][g] = Missing}}

\* Mutant: what replaces the definition has no containers.
FollowBare(d) ==
  /\ d \in unvisited
  /\ Resolvable(schemas[d])
  /\ schemas' = [schemas EXCEPT ![d] = Pointer(schemas[@.ref].ref)]
  /\ unvisited' = unvisited \ {d}
  /\ UNCHANGED <<published, containers, referenceErrors>>

\* A definition that is itself a reference is replaced; its children are not
\* explored.
Follow(d) ==
  /\ d \in unvisited
  /\ Resolvable(schemas[d])
  /\ schemas' = [schemas EXCEPT ![d] = Resolve(@, schemas)]
  /\ unvisited' = unvisited \ {d}
  /\ UNCHANGED <<published, containers, referenceErrors>>

\* The struct of a definition once its "not" has been visited.
NotResolved(d) ==
  [schemas EXCEPT ![d] = Schema(@.ref, @.box, Resolve(@.not, schemas))]

\* Mutant: only what comes before "not" is visited.
ExploreEarly(d) ==
  /\ d \in unvisited
  /\ ~Resolvable(schemas[d])
  /\ schemas' = NotResolved(d)
  /\ containers' = [containers EXCEPT ![d] =
                      [p \in Place |-> IF p \in Early THEN Resolve(@[p], schemas) ELSE @[p]]]
  /\ referenceErrors' = referenceErrors \cup Dangling(d)
  /\ unvisited' = unvisited \ {d}
  /\ UNCHANGED published

\* Any other definition keeps its struct, and its children are visited in the
\* order of visitSchema; a child may be a reference to the definition itself.
Explore(d) ==
  /\ d \in unvisited
  /\ ~Resolvable(schemas[d])
  /\ schemas' = NotResolved(d)
  /\ containers' = [containers EXCEPT ![d] =
                      [p \in Place |->
                         Resolve(@[p], IF p \in Early THEN schemas ELSE NotResolved(d))]]
  /\ referenceErrors' = referenceErrors \cup Dangling(d)
  /\ unvisited' = unvisited \ {d}
  /\ UNCHANGED published

Next == \E d \in Def : Follow(d) \/ Explore(d)

Spec == Init /\ [][Next]_refVars

-----------------------------------------------------------------------------
Done == unvisited = {}

\* A struct as the program may hold it.
IsSchema(s) ==
  /\ s = Schema(s.ref, s.box, s.not)
  /\ s.ref \in Reference /\ s.box \in Def \cup {None}

\* Variables keep their types.  The struct of a definition always points to the
\* containers of some definition.
TypeOK ==
  /\ published \in Documents
  /\ DOMAIN schemas = Def
  /\ \A d \in Def : /\ IsSchema(schemas[d]) /\ schemas[d].box \in Def
                    /\ IsSchema(schemas[d].not)
  /\ DOMAIN containers = Def
  /\ \A d \in Def : DOMAIN containers[d] = Place
  /\ \A d \in Def, p \in Place : IsSchema(containers[d][p])
  /\ unvisited \subseteq Def
  /\ referenceErrors \subseteq Def \X ({"ref", "not"} \cup Place)

\* What each definition denotes once references to references are followed; no
\* function but those with this property will do, and definitions that only
\* refer to one another have any denotation they share.
Respects(den) ==
  \A d \in Def :
    den[d] = IF published[d].ref \in Def THEN den[published[d].ref] ELSE d

\* The schema leads to what the name denotes, as it is or once resolved.
Leads(s, name, den) ==
  IF Resolvable(s) THEN den[s.ref] = den[name] ELSE s.box = den[name]

\* Whatever the order of the map, at no time is a definition, or a place in its
\* containers, bound to a definition other than the one that is named there.
NeverMisled ==
  \A den \in [Def -> Def] : Respects(den) =>
    \A d \in Def :
      /\ Leads(schemas[d], d, den)
      /\ \A p \in Place : published[d][p] \in Def =>
           Leads(containers[d][p], published[d][p], den)

\* No definition is itself a reference, nor is its "not".
Plain == \A d \in Def : published[d].ref = None /\ published[d].not = None

\* For such a document the result does not depend on the order of the map: every
\* place that named a definition is a copy of it that shares its containers.
OrderIndependent ==
  Plain =>
    /\ \A d \in Def : schemas[d] = Schema(None, d, Pointer(None))
    /\ \A d \in Def \ unvisited, p \in Place :
         containers[d][p] = IF published[d][p] \in Def
                            THEN Schema(None, published[d][p], Pointer(None))
                            ELSE Pointer(published[d][p])

\* For every document, a reference can only be left over where a definition that
\* is itself a reference was copied too early, or one whose "not" is.
LeftoversExplained ==
  Done =>
    \A d \in Def, p \in Place :
      LET s == containers[d][p]
      IN  /\ Resolvable(s) => \E e \in Def : published[e].ref = s.ref
          /\ s.box # None /\ Resolvable(s.not) =>
               \E e \in Def : published[e].not \in Def
=============================================================================
