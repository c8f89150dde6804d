-------------------------- MODULE SchemaLoadingProofs --------------------------
(***************************************************************************)
(* Proofs about SchemaLoading: it is reference resolution with more on top *)
(* of it, so that everything proved of RefResolution holds of it; the      *)
(* marks of a plain document come out the same in every order of the map;  *)
(* and what Parse says of a manifest is what the published document        *)
(* deserves: it is refused for a reason that is in the document, keeps its *)
(* nulls where they are admitted, and gains objects only where it asks.     *)
(***************************************************************************)
EXTENDS SchemaLoading, RefProofs

\* Loading begins as resolution does.
LEMMA LoadInitResolves == LoadInit => Init
  BY DEF LoadInit

\* A step of loading resolves, or leaves what is resolved alone.
LEMMA LoadStepResolves == [LoadNext]_loadVars => [Next]_refVars
<1> SUFFICES ASSUME [LoadNext]_loadVars PROVE [Next]_refVars
  OBVIOUS
<1>1. ASSUME NEW d \in Def, FollowMarked(d) \/ ExploreMarked(d) PROVE Next
  BY <1>1 DEF FollowMarked, ExploreMarked, Next
<1>2. ASSUME NEW d \in Kinds, NEW m \in Manifests, Parse(d, m) PROVE UNCHANGED refVars
  BY <1>2 DEF Parse, Conclude
<1>3. CASE UNCHANGED loadVars
  BY <1>3 DEF loadVars
<1> QED
  BY <1>1, <1>2, <1>3 DEF LoadNext

\* The schemas of every document that is loaded, patched and decoded under are
\* resolved as RefResolution says: loading implements resolution.
THEOREM LoadingResolves == LoadSpec => Spec
  BY LoadInitResolves, LoadStepResolves, PTL DEF LoadSpec, Spec

\* Whatever is patched, marked or parsed on the way, no place is ever bound to a
\* definition other than the one the patched document names there.
THEOREM LoadingNeverMisleads == LoadSpec => []NeverMisled
  BY LoadingResolves, ResolutionNeverMisleads, PTL

-----------------------------------------------------------------------------
\* The document that is resolved is the patched one, and every node has marks.
MarksShaped ==
  /\ published = PatchedRefs(raw)
  /\ DOMAIN marks = Def
  /\ \A d \in Def : DOMAIN marks[d] = Node

\* What the proof of the marks rests on.
MInv == RInv /\ OrderIndependent /\ MarksShaped /\ MarksOrderIndependent

\* Initially the marks are those of the patched document.
LEMMA MarksInit == LoadInit => MarksShaped /\ MarksOrderIndependent
<1> SUFFICES ASSUME LoadInit PROVE MarksShaped /\ MarksOrderIndependent
  OBVIOUS
<1>1. published = PatchedRefs(raw) /\ marks = PatchedMarks(raw) /\ unvisited = Def
  BY DEF LoadInit, Init
<1>2. MarksShaped
  BY <1>1 DEF MarksShaped, PatchedMarks
<1>3. MarksOrderIndependent
  BY <1>1 DEF MarksOrderIndependent
<1> QED
  BY <1>2, <1>3

\* In a plain document nothing is followed, and exploring a definition overrides
\* the marks of its places by marks that never change.
LEMMA MarksStep ==
  MInv /\ [LoadNext]_loadVars => MarksShaped' /\ MarksOrderIndependent'
<1> SUFFICES ASSUME MInv, [LoadNext]_loadVars
             PROVE  MarksShaped' /\ MarksOrderIndependent'
  OBVIOUS
<1>1. ASSUME NEW d \in Def, FollowMarked(d)
      PROVE  MarksShaped' /\ MarksOrderIndependent'
  <2>1. /\ Follow(d) /\ raw' = raw /\ published' = published
        /\ marks' = [marks EXCEPT ![d]["ref"] = ResolvedMark(d, "ref", schemas[d])]
    BY <1>1 DEF FollowMarked, Follow
  <2>2. MarksShaped'
    BY <2>1 DEF MInv, MarksShaped
  <2>3. ~Plain
    <3>1. d \in unvisited /\ Resolvable(schemas[d])
      BY <2>1 DEF Follow
    <3>2. schemas[d].ref = published[d].ref
      <4>1. schemas[d] = Schema(published[d].ref, d, Pointer(published[d].not))
        BY <3>1 DEF MInv, RInv, Untouched
      <4> QED
        BY <4>1, Fields
    <3> QED
      BY <3>1, <3>2, NoneIsNoDefinition DEF Plain, Resolvable
  <2> QED
    BY <2>1, <2>2, <2>3 DEF MarksOrderIndependent, Plain
<1>2. ASSUME NEW d \in Def, ExploreMarked(d)
      PROVE  MarksShaped' /\ MarksOrderIndependent'
  <2>1. /\ Explore(d) /\ raw' = raw /\ published' = published
        /\ d \in unvisited /\ unvisited' = unvisited \ {d}
    BY <1>2 DEF ExploreMarked, Explore
  <2>2. DOMAIN marks = Def /\ DOMAIN marks[d] = Node
    BY DEF MInv, MarksShaped
  <2>3. marks' = [marks EXCEPT ![d] =
                    [n \in Node |-> IF n = "ref" THEN marks[d][n]
                                    ELSE ResolvedMark(d, n, containers[d][n])]]
    BY <1>2 DEF ExploreMarked
  <2>4. \A e \in Def \ {d} : marks'[e] = marks[e]
    BY <2>2, <2>3
  <2>5. marks'[d] = [n \in Node |-> IF n = "ref" THEN marks[d][n]
                                    ELSE ResolvedMark(d, n, containers[d][n])]
    BY <2>2, <2>3
  <2>6. MarksShaped'
    BY <2>1, <2>3, <2>4, <2>5 DEF MInv, MarksShaped
  <2> DEFINE patched == PatchedMarks(raw)
  <2> SUFFICES ASSUME Plain, NEW e \in Def, NEW n \in Node
               PROVE  marks'[e][n] =
                        IF e \in unvisited' \/ n = "ref" \/ published[e][n] \notin Def
                        THEN patched[e][n]
                        ELSE Override(patched[e][n], patched[published[e][n]]["ref"])
    BY <2>1, <2>6 DEF MarksOrderIndependent, Plain
  <2>7. \A f \in Def, i \in Node :
          marks[f][i] = IF f \in unvisited \/ i = "ref" \/ published[f][i] \notin Def
                        THEN patched[f][i]
                        ELSE Override(patched[f][i], patched[published[f][i]]["ref"])
    BY DEF MInv, MarksOrderIndependent
  <2> HIDE DEF patched
  <2>8. CASE e # d
    BY <2>1, <2>4, <2>7, <2>8
  <2>9. CASE e = d /\ n = "ref"
    BY <2>5, <2>7, <2>9
  <2>10. CASE e = d /\ n # "ref"
    <3>1. n \in Place
      BY <2>10 DEF Node
    <3>2. containers[d][n] = Pointer(published[d][n])
      BY <2>1, <3>1 DEF MInv, RInv, Untouched
    <3>3. containers[d][n].ref = published[d][n]
      BY <3>2, Fields
    <3>4. marks'[d][n] = ResolvedMark(d, n, containers[d][n])
      BY <2>5, <2>10
    <3>5. marks[d][n] = patched[d][n]
      BY <2>1, <2>7
    <3>6. CASE published[d][n] \in Def
      <4>1. "ref" \in Node
        BY DEF Node
      <4>2. marks[published[d][n]]["ref"] = patched[published[d][n]]["ref"]
        BY <2>7, <3>6, <4>1
      <4>3. ResolvedMark(d, n, containers[d][n]) =
              Override(patched[d][n], patched[published[d][n]]["ref"])
        BY <3>3, <3>5, <3>6, <4>2 DEF ResolvedMark, Resolvable
      <4> QED
        BY <2>1, <2>10, <3>4, <3>6, <4>3
    <3>7. CASE published[d][n] \notin Def
      BY <2>10, <3>3, <3>4, <3>5, <3>7 DEF ResolvedMark, Resolvable
    <3> QED
      BY <3>6, <3>7
  <2> QED
    BY <2>8, <2>9, <2>10
<1>3. CASE UNCHANGED <<refVars, raw, marks>>
  BY <1>3 DEF MInv, MarksShaped, MarksOrderIndependent, Plain, refVars
<1>4. ASSUME NEW d \in Kinds, NEW m \in Manifests, Parse(d, m)
      PROVE  UNCHANGED <<refVars, raw, marks>>
  BY <1>4 DEF Parse, Conclude
<1> QED
  BY <1>1, <1>2, <1>3, <1>4 DEF LoadNext, loadVars

\* If no definition is itself a reference, nor its "not", then what is nullable,
\* what has which default and which format does not depend on the order of the
\* map, for any document, any number of definitions and any names.
THEOREM MarksAlwaysOrderIndependent == LoadSpec => []MarksOrderIndependent
<1>1. LoadInit => MInv
  BY LoadInitResolves, RInit, RPlainInit, MarksInit DEF MInv
<1>2. MInv /\ [LoadNext]_loadVars => MInv'
  BY LoadStepResolves, RStep, RPlainStep, MarksStep DEF MInv
<1>3. MInv => MarksOrderIndependent
  BY DEF MInv
<1> QED
  BY <1>1, <1>2, <1>3, PTL DEF LoadSpec

-----------------------------------------------------------------------------
(***************************************************************************)
(* What Parse refuses, and why: the invariants of the loop.                *)
(***************************************************************************)
\* The loop has reported the dangling references of what it has been to, and no
\* others.
DanglingReported ==
  /\ referenceErrors \subseteq UNION {Dangling(d) : d \in Def}
  /\ \A d \in Def \ unvisited : Dangling(d) \subseteq referenceErrors

\* The containers that a schema consists of were published to be in it.
BoxesPublished ==
  /\ \A d \in Def : schemas[d].boxes \subseteq Closure({d}, PublishedIn)
  /\ \A d \in Def, p \in Place :
       containers[d][p].boxes \subseteq Closure(PublishedIn[d], PublishedIn)

\* The definitions whose structs the struct of a definition is made from.
Needs == [d \in Def |-> {published[d].ref, published[d].not} \cap Def]

\* The struct s, made from the definition x, has no reference left only if all that
\* it needs was there when it was made: it has the containers of everything that
\* is not an alias, nothing needs itself, and the loop is done with what needs
\* others: none of them is among those left.
Complete(x, s, left) ==
  s.refs = {} =>
    \A y \in Closure({x}, Needs) :
      /\ published[y].ref \in Def \/ y \in s.boxes
      /\ y \notin Closure(Needs[y], Needs)
      /\ y \in left => Needs[y] = {}

StructsComplete ==
  /\ \A d \in Def : Complete(d, schemas[d], unvisited)
  /\ \A d \in Def, p \in Place :
       published[d][p] \in Def =>
         Complete(published[d][p], containers[d][p], unvisited)

\* What Parse made of a manifest follows from the schemas, which no longer change.
ParsedRightly ==
  parsed # None =>
    /\ Done
    /\ parsed.def \in Def /\ parsed.manifest \in Manifests
    /\ parsed.outcome = "dangling" <=> referenceErrors # {}
    /\ parsed.outcome = "recursive" <=> referenceErrors = {} /\ Recursive(parsed.def)
    /\ parsed.outcome = "reference" <=>
         referenceErrors = {} /\ ~Recursive(parsed.def) /\ HasReference(parsed.def)
    /\ parsed.outcome = "decoded" =>
         parsed.value = Decoded(parsed.manifest,
                                marks[schemas[parsed.def].box][parsed.manifest.field],
                                marks[parsed.def]["ref"].preserve)

\* The name t is that of a type that handles null itself, or of an alias of one.
HandlesNull(t, den) == {t, den[t]} \cap Named(raw, "marshaller") # {}

\* What handles null itself is nullable as soon as it is resolved, and so is a place
\* of its type.
NullableMarked ==
  \A den \in [Def -> Def] : Respects(den) =>
    \A d \in Def :
      /\ raw.role[d] = "marshaller" => marks[d]["ref"].nullable
      /\ HandlesNull(d, den) /\ ~Resolvable(schemas[d]) => marks[d]["ref"].nullable
      /\ \A p \in Place :
           (/\ published[d][p] \in Def
            /\ HandlesNull(published[d][p], den)
            /\ ~Resolvable(containers[d][p])) => marks[d][p].nullable

\* {} is the default of a definition or of a place only where the document asks
\* for it, there or at a definition that is referred to.
DefaultsMarked ==
  \A d \in Def :
    /\ marks[d]["ref"].default = "{}" => LeadsToObject(d)
    /\ \A p \in Place : marks[d][p].default = "{}" =>
         AsksForObject(d, p) \/ LeadsToObject(published[d][p])

-----------------------------------------------------------------------------
\* A closure has what it starts from and what its elements lead to.
LEMMA ClosureHolds ==
  ASSUME NEW step, \A e \in Def : step[e] \subseteq Def, NEW names \in SUBSET Def
  PROVE  /\ Closure(names, step) \subseteq Def
         /\ names \subseteq Closure(names, step)
         /\ \A e \in Closure(names, step) : step[e] \subseteq Closure(names, step)
  BY DEF Closure

\* It has nothing else.
LEMMA ClosureLeast ==
  ASSUME NEW step, NEW names, NEW S \in SUBSET Def,
         names \subseteq S, \A e \in S : step[e] \subseteq S
  PROVE  Closure(names, step) \subseteq S
  BY DEF Closure

\* What starts inside a closure stays inside it.
LEMMA ClosureInside ==
  ASSUME NEW step, \A e \in Def : step[e] \subseteq Def,
         NEW names \in SUBSET Def, NEW more \in SUBSET Def,
         more \subseteq Closure(names, step)
  PROVE  Closure(more, step) \subseteq Closure(names, step)
  BY ClosureHolds, ClosureLeast

\* What a definition leads to is itself, and what its next steps lead to.
LEMMA ClosureUnfolds ==
  ASSUME NEW step, \A e \in Def : step[e] \subseteq Def, NEW d \in Def
  PROVE  Closure({d}, step) = {d} \cup Closure(step[d], step)
<1>1. step[d] \in SUBSET Def /\ {d} \in SUBSET Def
  OBVIOUS
<1>2. {d} \cup Closure(step[d], step) \subseteq Closure({d}, step)
  BY <1>1, ClosureHolds, ClosureInside
<1>3. Closure({d}, step) \subseteq {d} \cup Closure(step[d], step)
  <2> DEFINE S == {d} \cup Closure(step[d], step)
  <2>1. S \in SUBSET Def /\ {d} \subseteq S
    BY <1>1, ClosureHolds
  <2>2. \A e \in S : step[e] \subseteq S
    BY <1>1, ClosureHolds
  <2> QED
    BY <2>1, <2>2, ClosureLeast
<1> QED
  BY <1>2, <1>3

\* The two graphs of a document.
LEMMA DocumentGraphs ==
  ASSUME TypeOK, NEW d \in Def
  PROVE  /\ Needs[d] = {published[d].ref, published[d].not} \cap Def
         /\ Needs[d] \subseteq Def /\ PublishedIn[d] \subseteq Def
         /\ PublishedIn[d] = Needs[d] \cup ({published[d][p] : p \in Place} \cap Def)
         /\ published[d].ref \in Def =>
              /\ published[d].not = None /\ Needs[d] = {published[d].ref}
              /\ \A p \in Place : published[d][p] = None
<1>1. DOMAIN published[d] = {"ref", "not"} \cup Place /\ published \in Documents
  BY PublishedReference DEF TypeOK
<1>2. Needs[d] = {published[d].ref, published[d].not} \cap Def
  BY DEF Needs
<1>3. PublishedIn[d] = {published[d][f] : f \in {"ref", "not"} \cup Place} \cap Def
  BY <1>1 DEF PublishedIn
<1>4. {published[d][f] : f \in {"ref", "not"} \cup Place} =
        {published[d].ref, published[d].not} \cup {published[d][p] : p \in Place}
  OBVIOUS
<1>5. published[d].ref \in Def =>
        /\ published[d].not = None /\ \A p \in Place : published[d][p] = None
  BY <1>1, DocumentsAssumption
<1> QED
  BY <1>2, <1>3, <1>4, <1>5, NoneIsNoDefinition

\* Both keep to the definitions.
LEMMA GraphsKeepToDefinitions ==
  ASSUME TypeOK
  PROVE  /\ \A e \in Def : Needs[e] \subseteq Def
         /\ \A e \in Def : PublishedIn[e] \subseteq Def
  BY DocumentGraphs

\* The references and the containers of a struct.
LEMMA RefsAndBoxes ==
  ASSUME NEW r, NEW b \in Def, NEW n
  PROVE  /\ Schema(r, b, n).refs = ({r} \ {None}) \cup n.refs
         /\ Schema(r, b, n).boxes = {b} \cup n.boxes
         /\ Pointer(r).refs = {r} \ {None} /\ Pointer(r).boxes = {}
  BY NoneIsNoDefinition DEF Schema, Pointer

\* What the loop has not come to has one struct of its own, and bare places.
LEMMA Unresolved ==
  ASSUME RInv, NEW d \in unvisited
  PROVE  /\ schemas[d].ref = published[d].ref /\ schemas[d].box = d
         /\ schemas[d].not = Pointer(published[d].not)
         /\ schemas[d].refs = {published[d].ref, published[d].not} \ {None}
         /\ schemas[d].boxes = {d}
         /\ \A p \in Place : /\ containers[d][p] = Pointer(published[d][p])
                             /\ containers[d][p].ref = published[d][p]
                             /\ containers[d][p].refs = {published[d][p]} \ {None}
                             /\ containers[d][p].boxes = {}
<1>1. d \in Def
  BY DEF RInv, TypeOK
<1>2. schemas[d] = Schema(published[d].ref, d, Pointer(published[d].not))
  BY DEF RInv, Untouched
<1>3. containers[d] = [p \in Place |-> Pointer(published[d][p])]
  BY DEF RInv, Untouched
<1>4. /\ schemas[d].refs = ({published[d].ref} \ {None}) \cup ({published[d].not} \ {None})
      /\ schemas[d].boxes = {d} \cup {}
  <2>1. /\ schemas[d].refs = ({published[d].ref} \ {None}) \cup Pointer(published[d].not).refs
        /\ schemas[d].boxes = {d} \cup Pointer(published[d].not).boxes
    BY <1>1, <1>2, NoneIsNoDefinition DEF Schema
  <2>2. /\ Pointer(published[d].not).refs = {published[d].not} \ {None}
        /\ Pointer(published[d].not).boxes = {}
    BY <1>1, RefsAndBoxes
  <2> QED
    BY <2>1, <2>2
<1>5. ASSUME NEW p \in Place
      PROVE  /\ containers[d][p] = Pointer(published[d][p])
             /\ containers[d][p].ref = published[d][p]
             /\ containers[d][p].refs = {published[d][p]} \ {None}
             /\ containers[d][p].boxes = {}
  BY <1>1, <1>3, Fields, RefsAndBoxes
<1> QED
  BY <1>2, <1>4, <1>5, Fields

\* A definition that is followed becomes what it was published to refer to.
LEMMA Refers ==
  ASSUME RInv, NEW d \in Def, Follow(d)
  PROVE  /\ published[d].ref \in Def /\ Needs[d] = {published[d].ref}
         /\ PublishedIn[d] = {published[d].ref}
         /\ \A p \in Place : published[d][p] = None
         /\ schemas'[d] = schemas[published[d].ref] /\ containers' = containers
         /\ \A e \in Def \ {d} : schemas'[e] = schemas[e]
<1>1. d \in unvisited /\ TypeOK /\ schemas[d].ref = published[d].ref
  BY Unresolved DEF Follow, RInv
<1>2. /\ schemas[d].ref \in Def /\ schemas'[d] = schemas[schemas[d].ref]
      /\ \A e \in Def \ {d} : schemas'[e] = schemas[e]
  BY <1>1, Followed
<1>3. \A p \in Place : published[d][p] = None
  BY <1>1, <1>2, DocumentGraphs
<1>4. Needs[d] = {published[d].ref}
  BY <1>1, <1>2, DocumentGraphs
<1>5. PublishedIn[d] = Needs[d] \cup ({published[d][p] : p \in Place} \cap Def)
  BY <1>1, DocumentGraphs
<1>6. PublishedIn[d] = {published[d].ref}
  BY <1>3, <1>4, <1>5, NoneIsNoDefinition
<1>7. containers' = containers
  BY DEF Follow
<1> QED
  BY <1>1, <1>2, <1>3, <1>4, <1>6, <1>7

\* The struct of a definition once its "not" has been visited, and what replaces
\* its places.
LEMMA Explodes ==
  ASSUME RInv, NEW d \in Def, Explore(d)
  PROVE  /\ \A e \in Def \ {d} : NotResolved(d)[e] = schemas[e]
         /\ NotResolved(d)[d].ref = schemas[d].ref
         /\ NotResolved(d)[d].refs =
              ({published[d].ref} \ {None})
                \cup (IF published[d].not \in Def THEN schemas[published[d].not].refs
                                                  ELSE {published[d].not} \ {None})
         /\ NotResolved(d)[d].boxes =
              {d} \cup (IF published[d].not \in Def THEN schemas[published[d].not].boxes
                                                    ELSE {})
         /\ \A p \in Place :
              IF published[d][p] \in Def
              THEN \/ containers'[d][p] = schemas[published[d][p]]
                   \/ containers'[d][p] = NotResolved(d)[published[d][p]]
              ELSE containers'[d][p] = containers[d][p]
<1>1. d \in unvisited /\ TypeOK
  BY DEF Explore, RInv
<1>2. /\ schemas[d].ref = published[d].ref /\ schemas[d].box = d
      /\ schemas[d].not = Pointer(published[d].not)
      /\ \A p \in Place : containers[d][p].ref = published[d][p]
  BY <1>1, Unresolved
<1>3. NotResolved(d)[d] = Schema(published[d].ref, d,
                                 Resolve(Pointer(published[d].not), schemas))
  BY <1>1, <1>2 DEF NotResolved, TypeOK
<1>4. \A e \in Def \ {d} : NotResolved(d)[e] = schemas[e]
  BY <1>1 DEF NotResolved, TypeOK
<1>5. Resolve(Pointer(published[d].not), schemas) =
        IF published[d].not \in Def THEN schemas[published[d].not]
                                    ELSE Pointer(published[d].not)
  BY Fields DEF Resolve, Resolvable
<1>6. /\ NotResolved(d)[d].refs = ({published[d].ref} \ {None})
           \cup Resolve(Pointer(published[d].not), schemas).refs
      /\ NotResolved(d)[d].boxes = {d} \cup Resolve(Pointer(published[d].not), schemas).boxes
      /\ NotResolved(d)[d].ref = schemas[d].ref
  BY <1>2, <1>3, RefsAndBoxes, Fields
<1>7. ASSUME NEW p \in Place
      PROVE  IF published[d][p] \in Def
             THEN \/ containers'[d][p] = schemas[published[d][p]]
                  \/ containers'[d][p] = NotResolved(d)[published[d][p]]
             ELSE containers'[d][p] = containers[d][p]
  <2>1. \/ containers'[d][p] = Resolve(containers[d][p], schemas)
        \/ containers'[d][p] = Resolve(containers[d][p], NotResolved(d))
    BY <1>1, Explored
  <2> QED
    BY <1>2, <2>1 DEF Resolve, Resolvable
<1>8. /\ published[d].not \in Def =>
           /\ Resolve(Pointer(published[d].not), schemas).refs
                = schemas[published[d].not].refs
           /\ Resolve(Pointer(published[d].not), schemas).boxes
                = schemas[published[d].not].boxes
      /\ published[d].not \notin Def =>
           /\ Resolve(Pointer(published[d].not), schemas).refs
                = {published[d].not} \ {None}
           /\ Resolve(Pointer(published[d].not), schemas).boxes = {}
  BY <1>1, <1>5, RefsAndBoxes
<1> QED
  BY <1>4, <1>6, <1>7, <1>8

\* A step of the loop leaves the document alone, and is done with one definition.
LEMMA LoopStep ==
  ASSUME NEW d \in Def, Follow(d) \/ Explore(d)
  PROVE  /\ published' = published /\ d \in unvisited /\ unvisited' = unvisited \ {d}
         /\ Needs' = Needs /\ PublishedIn' = PublishedIn
  BY DEF Follow, Explore, Needs, PublishedIn

LEMMA DanglingInit == Init => DanglingReported
  BY DEF Init, DanglingReported

\* Where a reference is followed nothing else can be dangling.
LEMMA DanglingStep ==
  ASSUME RInv, DanglingReported, NEW d \in Def, Follow(d) \/ Explore(d)
  PROVE  DanglingReported'
<1>1. published' = published /\ unvisited' = unvisited \ {d} /\ d \in unvisited
  BY LoopStep
<1>2. \A e \in Def : Dangling(e)' = Dangling(e)
  BY <1>1 DEF Dangling
<1>3. CASE Follow(d)
  <2>1. published[d].ref \in Def /\ referenceErrors' = referenceErrors
    BY <1>1, <1>3, Unresolved DEF Follow, Resolvable
  <2>2. \A f \in DOMAIN published[d] : published[d][f] # Missing
    <3>1. /\ published[d].not = None /\ \A p \in Place : published[d][p] = None
          /\ DOMAIN published[d] = {"ref", "not"} \cup Place
      BY <2>1, DocumentGraphs, PublishedReference DEF RInv, TypeOK
    <3>2. None # Missing /\ Missing \notin Def
      BY NamesAssumption DEF Name
    <3> QED
      BY <2>1, <3>1, <3>2
  <2>3. Dangling(d) = {}
    BY <2>2 DEF Dangling
  <2> QED
    BY <1>1, <1>2, <2>1, <2>3 DEF DanglingReported
<1>4. CASE Explore(d)
  <2>1. referenceErrors' = referenceErrors \cup Dangling(d)
    BY <1>4 DEF Explore
  <2> QED
    BY <1>1, <1>2, <2>1 DEF DanglingReported
<1> QED
  BY <1>3, <1>4

-----------------------------------------------------------------------------
LEMMA BoxesInit == Init => BoxesPublished
<1> SUFFICES ASSUME Init PROVE BoxesPublished
  OBVIOUS
<1>1. RInv /\ unvisited = Def
  BY RInit DEF Init
<1>2. TypeOK /\ \A e \in Def : PublishedIn[e] \subseteq Def
  BY <1>1, GraphsKeepToDefinitions DEF RInv
<1>3. \A d \in Def : d \in Closure({d}, PublishedIn)
  BY <1>2, ClosureHolds
<1> QED
  BY <1>1, <1>3, Unresolved DEF BoxesPublished

\* What is copied was published at the place it is copied to.
LEMMA BoxesStep ==
  ASSUME RInv, BoxesPublished, NEW d \in Def, Follow(d) \/ Explore(d)
  PROVE  BoxesPublished'
<1> DEFINE Of(x) == Closure({x}, PublishedIn)
           In(x) == Closure(PublishedIn[x], PublishedIn)
<1>1. /\ d \in unvisited /\ PublishedIn' = PublishedIn /\ TypeOK
      /\ \A e \in Def : PublishedIn[e] \subseteq Def
  BY LoopStep, GraphsKeepToDefinitions DEF RInv
<1>2. \A x \in Def : /\ Of(x) = {x} \cup In(x)
                     /\ \A y \in PublishedIn[x] : Of(y) \subseteq In(x)
  <2> SUFFICES ASSUME NEW x \in Def
               PROVE  Of(x) = {x} \cup In(x) /\ \A y \in PublishedIn[x] : Of(y) \subseteq In(x)
    OBVIOUS
  <2>1. Of(x) = {x} \cup In(x)
    BY <1>1, ClosureUnfolds
  <2>2. ASSUME NEW y \in PublishedIn[x] PROVE Of(y) \subseteq In(x)
    <3>1. {y} \subseteq In(x) /\ {y} \in SUBSET Def /\ PublishedIn[x] \in SUBSET Def
      BY <1>1, ClosureHolds
    <3> QED
      BY <1>1, <3>1, ClosureInside
  <2> QED
    BY <2>1, <2>2
<1> SUFFICES /\ \A e \in Def : schemas'[e].boxes \subseteq Of(e)
             /\ \A e \in Def, p \in Place : containers'[e][p].boxes \subseteq In(e)
  BY <1>1 DEF BoxesPublished
<1>3. /\ \A e \in Def : schemas[e].boxes \subseteq Of(e)
      /\ \A e \in Def, p \in Place : containers[e][p].boxes \subseteq In(e)
  BY DEF BoxesPublished
<1> HIDE DEF Of, In
<1>4. CASE Follow(d)
  <2>1. /\ published[d].ref \in PublishedIn[d] /\ published[d].ref \in Def
        /\ schemas'[d] = schemas[published[d].ref] /\ containers' = containers
        /\ \A e \in Def \ {d} : schemas'[e] = schemas[e]
    BY <1>4, Refers
  <2>2. schemas'[d].boxes \subseteq Of(d)
    BY <1>2, <1>3, <2>1
  <2> QED
    BY <1>3, <2>1, <2>2
<1>5. CASE Explore(d)
  <2>1. schemas' = NotResolved(d) /\ \A e \in Def \ {d} : containers'[e] = containers[e]
    BY <1>1, <1>5, Explored
  <2>2. NotResolved(d)[d].boxes \subseteq Of(d)
    <3>1. published[d].not \in Def => schemas[published[d].not].boxes \subseteq In(d)
      BY <1>1, <1>2, <1>3, DocumentGraphs
    <3> QED
      BY <1>2, <1>5, <3>1, Explodes
  <2>3. \A e \in Def : NotResolved(d)[e].boxes \subseteq Of(e)
    BY <1>3, <1>5, <2>2, Explodes
  <2>4. ASSUME NEW p \in Place PROVE containers'[d][p].boxes \subseteq In(d)
    <3>1. CASE published[d][p] \in Def
      <4>1. Of(published[d][p]) \subseteq In(d)
        BY <1>1, <1>2, <3>1, DocumentGraphs
      <4>2. \/ containers'[d][p] = schemas[published[d][p]]
            \/ containers'[d][p] = NotResolved(d)[published[d][p]]
        BY <1>5, <3>1, Explodes
      <4> QED
        BY <1>3, <2>3, <3>1, <4>1, <4>2
    <3>2. CASE published[d][p] \notin Def
      BY <1>3, <1>5, <3>2, Explodes
    <3> QED
      BY <3>1, <3>2
  <2> QED
    BY <1>3, <2>1, <2>3, <2>4
<1> QED
  BY <1>4, <1>5

-----------------------------------------------------------------------------
\* Nothing leads nowhere.
LEMMA NeedsOfNothing == Closure({}, Needs) = {}
  BY ClosureLeast

\* The struct of a definition that needs no other is complete.
LEMMA CompleteAlone ==
  ASSUME TypeOK, NEW d \in Def, Needs[d] = {}, NEW s, d \in s.boxes, NEW left
  PROVE  Complete(d, s, left)
<1>1. Closure({d}, Needs) = {d} /\ Closure(Needs[d], Needs) = {}
  BY ClosureUnfolds, NeedsOfNothing, GraphsKeepToDefinitions
<1> QED
  BY <1>1 DEF Complete

\* A struct made from one that is complete is complete: the definition it is made
\* for, which the loop is only now done with, cannot be among what that one needs.
LEMMA CompleteOnTop ==
  ASSUME TypeOK, NEW d \in Def, NEW n \in Def, Needs[d] = {n}, d \in unvisited,
         NEW t, Complete(n, t, unvisited),
         NEW s, s.refs = {} => t.refs = {}, t.boxes \subseteq s.boxes,
         published[d].ref \in Def \/ d \in s.boxes
  PROVE  Complete(d, s, unvisited \ {d})
<1> SUFFICES ASSUME s.refs = {}
             PROVE  \A y \in Closure({d}, Needs) :
                      /\ published[y].ref \in Def \/ y \in s.boxes
                      /\ y \notin Closure(Needs[y], Needs)
                      /\ y \in unvisited \ {d} => Needs[y] = {}
  BY DEF Complete
<1>1. \A y \in Closure({n}, Needs) :
        /\ published[y].ref \in Def \/ y \in s.boxes
        /\ y \notin Closure(Needs[y], Needs)
        /\ y \in unvisited => Needs[y] = {}
  BY DEF Complete
<1>2. Closure({d}, Needs) = {d} \cup Closure(Needs[d], Needs)
  BY ClosureUnfolds, GraphsKeepToDefinitions
<1>3. d \notin Closure(Needs[d], Needs)
  BY <1>1
<1> QED
  BY <1>1, <1>2, <1>3

\* What is left only becomes less.
LEMMA CompleteLess ==
  ASSUME NEW x, NEW s, NEW left, Complete(x, s, left), NEW d
  PROVE  Complete(x, s, left \ {d})
  BY DEF Complete

LEMMA CompleteInit == Init => StructsComplete
<1> SUFFICES ASSUME Init PROVE StructsComplete
  OBVIOUS
<1>1. RInv /\ unvisited = Def /\ TypeOK
  BY RInit DEF Init, RInv
<1>2. ASSUME NEW d \in Def PROVE Complete(d, schemas[d], unvisited)
  <2>1. /\ schemas[d].refs = {published[d].ref, published[d].not} \ {None}
        /\ schemas[d].boxes = {d}
    BY <1>1, Unresolved
  <2>2. CASE schemas[d].refs = {}
    <3>1. Needs[d] = {}
      BY <1>1, <2>1, <2>2, DocumentGraphs, NoneIsNoDefinition
    <3> QED
      BY <1>1, <2>1, <3>1, CompleteAlone
  <2>3. CASE schemas[d].refs # {}
    BY <2>3 DEF Complete
  <2> QED
    BY <2>2, <2>3
<1>3. ASSUME NEW d \in Def, NEW p \in Place, published[d][p] \in Def
      PROVE  Complete(published[d][p], containers[d][p], unvisited)
  <2>1. containers[d][p].refs = {published[d][p]} \ {None}
    BY <1>1, Unresolved
  <2>2. containers[d][p].refs # {}
    BY <1>3, <2>1, NoneIsNoDefinition
  <2> QED
    BY <2>2 DEF Complete
<1> QED
  BY <1>2, <1>3 DEF StructsComplete

\* Whatever is copied when, what comes out without a reference is complete.
LEMMA CompleteStep ==
  ASSUME RInv, StructsComplete, NEW d \in Def, Follow(d) \/ Explore(d)
  PROVE  StructsComplete'
<1> DEFINE left == unvisited \ {d}
<1>1. /\ d \in unvisited /\ published' = published /\ unvisited' = left
      /\ Needs' = Needs /\ TypeOK
  BY LoopStep DEF RInv
<1> SUFFICES /\ \A x \in Def : Complete(x, schemas'[x], left)
             /\ \A x \in Def, p \in Place : published[x][p] \in Def =>
                  Complete(published[x][p], containers'[x][p], left)
  BY <1>1 DEF StructsComplete, Complete
<1>2. /\ \A x \in Def : Complete(x, schemas[x], unvisited)
      /\ \A x \in Def, p \in Place : published[x][p] \in Def =>
           Complete(published[x][p], containers[x][p], unvisited)
  BY DEF StructsComplete
<1>3. /\ \A x \in Def : Complete(x, schemas[x], left)
      /\ \A x \in Def, p \in Place : published[x][p] \in Def =>
           Complete(published[x][p], containers[x][p], left)
  BY <1>2, CompleteLess
<1>4. CASE Follow(d)
  <2>1. /\ published[d].ref \in Def /\ Needs[d] = {published[d].ref}
        /\ schemas'[d] = schemas[published[d].ref] /\ containers' = containers
        /\ \A e \in Def \ {d} : schemas'[e] = schemas[e]
    BY <1>4, Refers
  <2>2. Complete(d, schemas'[d], left)
    BY <1>1, <1>2, <2>1, CompleteOnTop
  <2> QED
    BY <1>3, <2>1, <2>2
<1>5. CASE Explore(d)
  <2>1. schemas' = NotResolved(d) /\ \A e \in Def \ {d} : containers'[e] = containers[e]
    BY <1>1, <1>5, Explored
  <2>2. published[d].ref \notin Def
    BY <1>1, <1>5, Unresolved DEF Explore, Resolvable
  <2>3. Complete(d, NotResolved(d)[d], left)
    <3>1. CASE published[d].not \in Def
      <4>1. Needs[d] = {published[d].not}
        BY <1>1, <2>2, <3>1, DocumentGraphs
      <4>2. /\ NotResolved(d)[d].refs =
                 ({published[d].ref} \ {None}) \cup schemas[published[d].not].refs
            /\ NotResolved(d)[d].boxes = {d} \cup schemas[published[d].not].boxes
        BY <1>5, <3>1, Explodes
      <4>3. /\ NotResolved(d)[d].refs = {} => schemas[published[d].not].refs = {}
            /\ schemas[published[d].not].boxes \subseteq NotResolved(d)[d].boxes
            /\ d \in NotResolved(d)[d].boxes
        BY <4>2
      <4> HIDE DEF left
      <4>4. Complete(d, NotResolved(d)[d], unvisited \ {d})
        BY <1>1, <1>2, <3>1, <4>1, <4>3, CompleteOnTop
      <4> QED
        BY <4>4 DEF left
    <3>2. CASE published[d].not \notin Def
      <4>1. Needs[d] = {}
        BY <1>1, <2>2, <3>2, DocumentGraphs
      <4>2. d \in NotResolved(d)[d].boxes
        BY <1>5, Explodes
      <4> QED
        BY <1>1, <4>1, <4>2, CompleteAlone
    <3> QED
      BY <3>1, <3>2
  <2>4. \A x \in Def : Complete(x, NotResolved(d)[x], left)
    <3>1. \A x \in Def \ {d} : NotResolved(d)[x] = schemas[x]
      BY <1>5, Explodes
    <3> QED
      BY <1>3, <2>3, <3>1
  <2>5. ASSUME NEW p \in Place, published[d][p] \in Def
        PROVE  Complete(published[d][p], containers'[d][p], left)
    <3>1. \/ containers'[d][p] = schemas[published[d][p]]
          \/ containers'[d][p] = NotResolved(d)[published[d][p]]
      BY <1>5, <2>5, Explodes
    <3> QED
      BY <1>3, <2>4, <2>5, <3>1
  <2> QED
    BY <1>3, <2>1, <2>4, <2>5
<1> QED
  BY <1>4, <1>5

-----------------------------------------------------------------------------
\* The containers in a definition, and the parts of a schema, are definitions.
LEMMA PartsAreDefinitions ==
  ASSUME TypeOK, BoxesPublished
  PROVE  /\ \A e \in Def : Inside[e] \subseteq Closure(PublishedIn[e], PublishedIn)
         /\ \A e \in Def : Inside[e] \subseteq Def
         /\ \A d \in Def : /\ schemas[d].boxes \subseteq Parts(d)
                           /\ Parts(d) \subseteq Def
                           /\ \A e \in Parts(d) : Inside[e] \subseteq Parts(d)
<1>1. \A e \in Def : Inside[e] \subseteq Closure(PublishedIn[e], PublishedIn)
  BY DEF Inside, BoxesPublished
<1>2. \A e \in Def : Inside[e] \subseteq Def
  BY <1>1 DEF Closure
<1>3. \A d \in Def : schemas[d].boxes \subseteq Def
  BY DEF BoxesPublished, Closure
<1> QED
  BY <1>1, <1>2, <1>3, ClosureHolds DEF Parts

\* A schema that contains itself was published to.
LEMMA RecursionWasPublished ==
  ASSUME TypeOK, BoxesPublished, NEW d \in Def, Recursive(d)
  PROVE  PublishedRecursive(d)
<1>1. /\ \A e \in Def : PublishedIn[e] \in SUBSET Def
      /\ \A e \in Def : Inside[e] \subseteq Closure(PublishedIn[e], PublishedIn)
  BY GraphsKeepToDefinitions, PartsAreDefinitions
<1>2. ASSUME NEW names \in SUBSET Def, NEW start,
             start \subseteq Closure(names, PublishedIn)
      PROVE  Closure(start, Inside) \subseteq Closure(names, PublishedIn)
  <2>1. /\ Closure(names, PublishedIn) \in SUBSET Def
        /\ \A e \in Closure(names, PublishedIn) :
             PublishedIn[e] \subseteq Closure(names, PublishedIn)
    BY <1>1, ClosureHolds
  <2>2. \A e \in Closure(names, PublishedIn) :
          Closure(PublishedIn[e], PublishedIn) \subseteq Closure(names, PublishedIn)
    BY <1>1, <2>1, ClosureInside
  <2>3. \A e \in Closure(names, PublishedIn) : Inside[e] \subseteq Closure(names, PublishedIn)
    BY <1>1, <2>1, <2>2
  <2> QED
    BY <1>2, <2>1, <2>3, ClosureLeast
<1>3. Parts(d) \subseteq Closure({d}, PublishedIn)
  BY <1>2 DEF Parts, BoxesPublished
<1>4. PICK e \in Parts(d) : e \in Closure(Inside[e], Inside)
  BY DEF Recursive
<1>5. e \in Def /\ e \in Closure({d}, PublishedIn)
  BY <1>3, <1>4, PartsAreDefinitions
<1>6. Closure(Inside[e], Inside) \subseteq Closure(PublishedIn[e], PublishedIn)
  BY <1>1, <1>2, <1>5
<1> QED
  BY <1>4, <1>5, <1>6 DEF PublishedRecursive

\* The definition y is part of Q unless it is an alias, and does not need itself.
Settled(y, Q) ==
  /\ published[y].ref \in Def \/ y \in Q
  /\ y \notin Closure(Needs[y], Needs)

\* If the containers of Q have no references and only one another inside, then
\* whatever is published in what starts in Q is settled there.
LEMMA SettledThroughout ==
  ASSUME TypeOK, StructsComplete, NEW Q \in SUBSET Def,
         \A e \in Q : Inside[e] \subseteq Q,
         \A e \in Q, p \in Place : containers[e][p].refs = {},
         NEW x \in Def, \A y \in Closure({x}, Needs) : Settled(y, Q)
  PROVE  \A z \in Closure({x}, PublishedIn) : Settled(z, Q)
<1> DEFINE S == {z \in Def : \A y \in Closure({z}, Needs) : Settled(y, Q)}
<1>1. \A e \in Def : Needs[e] \in SUBSET Def /\ PublishedIn[e] \in SUBSET Def
  BY GraphsKeepToDefinitions
<1>2. S \in SUBSET Def /\ {x} \subseteq S
  OBVIOUS
<1>3. \A z \in S : Settled(z, Q)
  <2>1. \A z \in S : z \in Closure({z}, Needs)
    BY <1>1, ClosureHolds
  <2> QED
    BY <2>1
<1>4. ASSUME NEW z \in S, NEW w \in PublishedIn[z] PROVE w \in S
  <2>1. w \in Def
    BY <1>1, <1>2, <1>4
  <2>2. CASE w \in Needs[z]
    <3>1. {w} \in SUBSET Def /\ {z} \in SUBSET Def /\ {w} \subseteq Closure({z}, Needs)
      BY <1>1, <2>1, <2>2, ClosureHolds
    <3>2. Closure({w}, Needs) \subseteq Closure({z}, Needs)
      BY <1>1, <3>1, ClosureInside
    <3> QED
      BY <2>1, <3>2
  <2>3. CASE w \notin Needs[z]
    <3>1. PICK p \in Place : w = published[z][p]
      BY <2>3, DocumentGraphs
    <3>2. published[z].ref \notin Def
      BY <2>1, <3>1, NoneIsNoDefinition, DocumentGraphs
    <3>3. z \in Q
      BY <1>3, <3>2 DEF Settled
    <3>4. Complete(w, containers[z][p], unvisited) /\ containers[z][p].refs = {}
      BY <2>1, <3>1, <3>3 DEF StructsComplete
    <3>5. containers[z][p].boxes \subseteq Q
      BY <3>3 DEF Inside
    <3> QED
      BY <2>1, <3>4, <3>5 DEF Complete, Settled
  <2> QED
    BY <2>2, <2>3
<1>5. Closure({x}, PublishedIn) \subseteq S
  BY <1>2, <1>4, ClosureLeast
<1> QED
  BY <1>3, <1>5

\* A schema without references that does not contain itself was published without
\* doing so: a cycle among the definitions would lead through a place, and that
\* shows in the containers, or would be of definitions that need one another, and
\* that leaves a reference.
LEMMA RecursionIsSeen ==
  ASSUME TypeOK, BoxesPublished, StructsComplete, NEW d \in Def,
         ~HasReference(d), ~Recursive(d)
  PROVE  ~PublishedRecursive(d)
<1> DEFINE P == Parts(d)
<1>1. /\ P \in SUBSET Def /\ \A e \in P : Inside[e] \subseteq P
      /\ schemas[d].boxes \subseteq P
      /\ schemas[d].refs = {} /\ \A e \in P, p \in Place : containers[e][p].refs = {}
      /\ \A e \in Def : Inside[e] \in SUBSET Def
  BY PartsAreDefinitions DEF HasReference
<1>2. \A e \in P : e \notin Closure(Inside[e], Inside)
  BY DEF Recursive
<1>3. \A e \in Def : Needs[e] \in SUBSET Def /\ PublishedIn[e] \in SUBSET Def
  BY GraphsKeepToDefinitions
<1> HIDE DEF P
<1>4. \A z \in Closure({d}, PublishedIn) : Settled(z, P)
  <2>1. \A y \in Closure({d}, Needs) : Settled(y, P)
    BY <1>1 DEF StructsComplete, Complete, Settled
  <2> QED
    BY <1>1, <2>1, SettledThroughout
<1>5. ASSUME NEW x \in P, NEW p \in Place, published[x][p] \in Def
      PROVE  x \notin Closure({published[x][p]}, PublishedIn)
  <2> DEFINE T == Closure(Inside[x], Inside)
  <2>1. /\ T \in SUBSET Def /\ Inside[x] \subseteq T
        /\ \A e \in T : Inside[e] \subseteq T
    BY <1>1, ClosureHolds
  <2>2. T \subseteq P
    BY <1>1, ClosureLeast
  <2>3. \A e \in T, q \in Place : containers[e][q].refs = {}
    BY <1>1, <2>2
  <2> HIDE DEF T
  <2>4. Complete(published[x][p], containers[x][p], unvisited)
    BY <1>1, <1>5 DEF StructsComplete
  <2>5. containers[x][p].boxes \subseteq T /\ containers[x][p].refs = {}
    BY <1>1, <2>1 DEF Inside
  <2>6. \A y \in Closure({published[x][p]}, Needs) : Settled(y, T)
    BY <2>4, <2>5 DEF Complete, Settled
  <2>7. \A z \in Closure({published[x][p]}, PublishedIn) : Settled(z, T)
    BY <1>5, <2>1, <2>3, <2>6, SettledThroughout
  <2>8. ~Settled(x, T)
    <3>1. x \notin T
      BY <1>2 DEF T
    <3>2. published[x].ref \notin Def
      BY <1>1, <1>5, NoneIsNoDefinition, DocumentGraphs
    <3> QED
      BY <3>1, <3>2 DEF Settled
  <2> QED
    BY <2>7, <2>8
<1> SUFFICES ASSUME NEW e \in Closure({d}, PublishedIn),
                    e \in Closure(PublishedIn[e], PublishedIn)
             PROVE  FALSE
  BY DEF PublishedRecursive
<1>6. /\ e \in Def /\ {e} \in SUBSET Def /\ {d} \in SUBSET Def
      /\ Closure({e}, PublishedIn) \subseteq Closure({d}, PublishedIn)
  BY <1>3, ClosureHolds, ClosureInside
<1>7. /\ Closure({e}, PublishedIn) \in SUBSET Def
      /\ \A z \in Closure({e}, PublishedIn) : PublishedIn[z] \subseteq Closure({e}, PublishedIn)
      /\ PublishedIn[e] \subseteq Closure({e}, PublishedIn)
  BY <1>3, <1>6, ClosureHolds
<1>8. ASSUME NEW z \in Closure({e}, PublishedIn), NEW w \in PublishedIn[z], w \notin Needs[z]
      PROVE  z \notin Closure({w}, PublishedIn)
  <2>1. z \in Def /\ w \in Def /\ z \in Closure({d}, PublishedIn)
    BY <1>3, <1>6, <1>7, <1>8
  <2>2. PICK p \in Place : w = published[z][p]
    BY <1>8, <2>1, DocumentGraphs
  <2>3. published[z].ref \notin Def
    BY <2>1, <2>2, NoneIsNoDefinition, DocumentGraphs
  <2>4. z \in P
    BY <1>4, <2>1, <2>3 DEF Settled
  <2> QED
    BY <1>5, <2>1, <2>2, <2>4
<1> DEFINE Way == Closure(Needs[e], Needs)
           Away == {z \in Closure({e}, PublishedIn) : e \notin Closure({z}, PublishedIn)}
<1>9. /\ Way \subseteq Closure({e}, PublishedIn) /\ Needs[e] \subseteq Way
      /\ \A z \in Way : Needs[z] \subseteq Way
  <2>1. Needs[e] \subseteq Closure({e}, PublishedIn)
    BY <1>6, <1>7, DocumentGraphs
  <2>2. \A z \in Closure({e}, PublishedIn) : Needs[z] \subseteq Closure({e}, PublishedIn)
    BY <1>7, DocumentGraphs
  <2>3. Way \subseteq Closure({e}, PublishedIn)
    BY <1>7, <2>1, <2>2, ClosureLeast
  <2> QED
    BY <1>3, <1>6, <2>3, ClosureHolds
<1>10. ASSUME NEW z \in Way \cup Away, NEW w \in PublishedIn[z] PROVE w \in Way \cup Away
  <2>1. z \in Closure({e}, PublishedIn) /\ w \in Closure({e}, PublishedIn)
    BY <1>7, <1>9, <1>10
  <2>2. z \in Def /\ w \in Def
    BY <1>7, <2>1
  <2> SUFFICES ASSUME e \in Closure({w}, PublishedIn) PROVE w \in Way
    BY <2>1
  <2>3. Closure({w}, PublishedIn) \subseteq Closure({z}, PublishedIn)
    <3>1. {w} \subseteq Closure({z}, PublishedIn) /\ {w} \in SUBSET Def /\ {z} \in SUBSET Def
      BY <1>3, <2>2, <1>10, ClosureHolds
    <3> QED
      BY <1>3, <3>1, ClosureInside
  <2>4. z \in Way
    BY <2>3
  <2>5. Closure({e}, PublishedIn) \subseteq Closure({w}, PublishedIn)
    BY <1>3, <1>6, <2>2, ClosureInside
  <2>6. w \in Needs[z]
    BY <1>8, <1>10, <2>1, <2>5
  <2> QED
    BY <1>9, <2>4, <2>6
<1>11. PublishedIn[e] \subseteq Way \cup Away
  <2> SUFFICES ASSUME NEW w \in PublishedIn[e], e \in Closure({w}, PublishedIn)
               PROVE  w \in Way
    BY <1>7
  <2>1. e \in Closure({e}, PublishedIn)
    BY <1>3, <1>6, ClosureHolds
  <2> QED
    BY <1>8, <1>9, <2>1
<1>12. e \in Way \cup Away
  <2>1. Way \cup Away \in SUBSET Def
    BY <1>7, <1>9
  <2> HIDE DEF Way, Away
  <2> QED
    BY <1>10, <1>11, <2>1, ClosureLeast
<1>13. e \notin Away
  BY <1>3, <1>6, ClosureHolds
<1>14. e \notin Way
  BY <1>4 DEF Settled
<1> QED
  BY <1>12, <1>13, <1>14

-----------------------------------------------------------------------------
\* "ref" is a node and no place.
LEMMA Nodes == "ref" \in Node /\ "ref" \notin Place /\ Place \subseteq Node
  BY PlacesAssumption DEF Node

\* What is overridden stays nullable, and has a default only if either had it.
LEMMA Overridden ==
  ASSUME NEW m, NEW t
  PROVE  /\ m.nullable \/ t.nullable => Override(m, t).nullable
         /\ Override(m, t).default = "{}" => m.default = "{}" \/ t.default = "{}"
  BY DEF Override

\* Following a reference changes the marks of that definition alone.
LEMMA FollowedMarks ==
  ASSUME RInv, MarksShaped, NEW d \in Def, FollowMarked(d)
  PROVE  /\ Follow(d) /\ raw' = raw /\ published' = published /\ published[d].ref \in Def
         /\ marks'[d]["ref"] = Override(marks[d]["ref"], marks[published[d].ref]["ref"])
         /\ \A e \in Def \ {d} : marks'[e]["ref"] = marks[e]["ref"]
         /\ \A e \in Def, p \in Place : marks'[e][p] = marks[e][p]
<1>1. Follow(d) /\ raw' = raw /\ published' = published
  BY DEF FollowMarked, Follow
<1>2. published[d].ref \in Def /\ schemas[d].ref = published[d].ref
  BY <1>1, Refers, Unresolved DEF Follow
<1>3. marks' = [marks EXCEPT ![d]["ref"] = ResolvedMark(d, "ref", schemas[d])]
  BY DEF FollowMarked
<1>4. ResolvedMark(d, "ref", schemas[d])
        = Override(marks[d]["ref"], marks[published[d].ref]["ref"])
  BY <1>2 DEF ResolvedMark, Resolvable
<1> QED
  BY <1>1, <1>2, <1>3, <1>4, Nodes DEF MarksShaped

\* Exploring a definition changes the marks of its places, where they are resolved.
LEMMA ExploredMarks ==
  ASSUME RInv, MarksShaped, NEW d \in Def, ExploreMarked(d)
  PROVE  /\ Explore(d) /\ raw' = raw /\ published' = published
         /\ \A e \in Def : marks'[e]["ref"] = marks[e]["ref"]
         /\ \A e \in Def \ {d}, p \in Place : marks'[e][p] = marks[e][p]
         /\ \A p \in Place :
              marks'[d][p] = IF published[d][p] \in Def
                             THEN Override(marks[d][p], marks[published[d][p]]["ref"])
                             ELSE marks[d][p]
<1>1. Explore(d) /\ raw' = raw /\ published' = published
  BY DEF ExploreMarked, Explore
<1>2. \A p \in Place : containers[d][p].ref = published[d][p]
  BY <1>1, Unresolved DEF Explore
<1>3. marks' = [marks EXCEPT ![d] =
                  [n \in Node |-> IF n = "ref" THEN marks[d][n]
                                  ELSE ResolvedMark(d, n, containers[d][n])]]
  BY DEF ExploreMarked
<1>4. \A p \in Place :
        ResolvedMark(d, p, containers[d][p]) =
          IF published[d][p] \in Def
          THEN Override(marks[d][p], marks[published[d][p]]["ref"]) ELSE marks[d][p]
  BY <1>2 DEF ResolvedMark, Resolvable
<1> QED
  BY <1>1, <1>3, <1>4, Nodes DEF MarksShaped

\* What the patches leave of the marks.
LEMMA Patched ==
  ASSUME LoadInit, NEW d \in Def
  PROVE  /\ raw.role[d] = "marshaller" => marks[d]["ref"].nullable
         /\ \A n \in Node : marks[d][n].default = "{}" => AsksForObject(d, n)
<1>1. marks = PatchedMarks(raw)
  BY DEF LoadInit
<1>2. \A n \in Node :
        marks[d][n] = IF raw.role[d] = "intOrString" THEN Blank ELSE PatchedMark(raw, d, n)
  BY <1>1 DEF PatchedMarks
<1>3. Blank.default = "none"
  BY DEF Blank
<1>4. \A n \in Node :
        /\ PatchedMark(raw, d, n).nullable =
             (raw.marks[d][n].nullable \/ raw.role[d] = "marshaller")
        /\ PatchedMark(raw, d, n).default =
             IF InvalidDefault(raw, d, n) THEN "none" ELSE raw.marks[d][n].default
  BY DEF PatchedMark
<1>5. raw.role[d] = "marshaller" => marks[d]["ref"].nullable
  BY <1>2, <1>4, Nodes
<1>6. ASSUME NEW n \in Node, marks[d][n].default = "{}" PROVE AsksForObject(d, n)
  <2>1. raw.role[d] # "intOrString"
    BY <1>2, <1>3, <1>6
  <2>2. raw.marks[d][n].default = "{}" /\ ~InvalidDefault(raw, d, n)
    BY <1>2, <1>4, <1>6, <2>1
  <2> QED
    BY <2>1, <2>2 DEF InvalidDefault, AsksForObject
<1> QED
  BY <1>5, <1>6

\* A definition that asks for an object leads to one, and so does its alias.
LEMMA LeadsOn ==
  ASSUME TypeOK, NEW d \in Def
  PROVE  /\ AsksForObject(d, "ref") => LeadsToObject(d)
         /\ published[d].ref \in Def /\ LeadsToObject(published[d].ref) => LeadsToObject(d)
<1>1. /\ \A e \in Def : AliasOf[e] \subseteq Def
      /\ AliasOf[d] = {published[d].ref} \cap Def
  BY DEF AliasOf
<1>2. Closure({d}, AliasOf) = {d} \cup Closure(AliasOf[d], AliasOf)
  BY <1>1, ClosureUnfolds
<1>3. {d} \cap Def = {d}
  OBVIOUS
<1> QED
  BY <1>1, <1>2, <1>3 DEF LeadsToObject

LEMMA MarkedInit == LoadInit => NullableMarked /\ DefaultsMarked
<1> SUFFICES ASSUME LoadInit PROVE NullableMarked /\ DefaultsMarked
  OBVIOUS
<1>1. RInv /\ unvisited = Def
  BY LoadInitResolves, RInit DEF Init
<1>2. DefaultsMarked
  BY <1>1, Patched, LeadsOn, Nodes DEF DefaultsMarked, RInv
<1>3. ASSUME NEW den \in [Def -> Def], Respects(den), NEW d \in Def
      PROVE  /\ raw.role[d] = "marshaller" => marks[d]["ref"].nullable
             /\ HandlesNull(d, den) /\ ~Resolvable(schemas[d]) => marks[d]["ref"].nullable
             /\ \A p \in Place :
                  (/\ published[d][p] \in Def
                   /\ HandlesNull(published[d][p], den)
                   /\ ~Resolvable(containers[d][p])) => marks[d][p].nullable
  <2>1. raw.role[d] = "marshaller" => marks[d]["ref"].nullable
    BY Patched
  <2>2. HandlesNull(d, den) /\ ~Resolvable(schemas[d]) => raw.role[d] = "marshaller"
    <3>1. ~Resolvable(schemas[d]) => den[d] = d
      BY <1>1, <1>3, Unresolved DEF Resolvable, Respects
    <3> QED
      BY <3>1 DEF HandlesNull, Named
  <2>3. \A p \in Place : published[d][p] \in Def => Resolvable(containers[d][p])
    BY <1>1, Unresolved DEF Resolvable
  <2> QED
    BY <2>1, <2>2, <2>3
<1> QED
  BY <1>2, <1>3 DEF NullableMarked

\* A default {} is only taken over from where it is asked for.
LEMMA DefaultsStep ==
  ASSUME RInv, MarksShaped, DefaultsMarked,
         NEW d \in Def, FollowMarked(d) \/ ExploreMarked(d)
  PROVE  DefaultsMarked'
<1>1. raw' = raw /\ published' = published
  BY FollowedMarks, ExploredMarks
<1>2. AliasOf' = AliasOf
  BY <1>1 DEF AliasOf
<1>3. /\ \A e \in Def, n \in Node : AsksForObject(e, n)' <=> AsksForObject(e, n)
      /\ \A t : LeadsToObject(t)' <=> LeadsToObject(t)
  BY <1>1, <1>2 DEF AsksForObject, LeadsToObject, Named, Closure
<1>4. \A e \in Def :
        /\ marks[e]["ref"].default = "{}" => LeadsToObject(e)
        /\ \A p \in Place : marks[e][p].default = "{}" =>
             AsksForObject(e, p) \/ LeadsToObject(published[e][p])
  BY DEF DefaultsMarked
<1> SUFFICES
      \A e \in Def :
        /\ marks'[e]["ref"].default = "{}" => LeadsToObject(e)
        /\ \A p \in Place : marks'[e][p].default = "{}" =>
             AsksForObject(e, p) \/ LeadsToObject(published[e][p])
  BY <1>1, <1>3, Nodes DEF DefaultsMarked
<1>5. CASE FollowMarked(d)
  <2>1. /\ \A e \in Def \ {d} : marks'[e]["ref"] = marks[e]["ref"]
        /\ \A e \in Def, p \in Place : marks'[e][p] = marks[e][p]
    BY <1>5, FollowedMarks
  <2>2. marks'[d]["ref"].default = "{}" => LeadsToObject(d)
    <3>1. /\ published[d].ref \in Def
          /\ marks'[d]["ref"] = Override(marks[d]["ref"], marks[published[d].ref]["ref"])
      BY <1>5, FollowedMarks
    <3> QED
      BY <1>4, <3>1, Overridden, LeadsOn DEF RInv
  <2> QED
    BY <1>4, <2>1, <2>2
<1>6. CASE ExploreMarked(d)
  <2>1. /\ \A e \in Def : marks'[e]["ref"] = marks[e]["ref"]
        /\ \A e \in Def \ {d}, p \in Place : marks'[e][p] = marks[e][p]
    BY <1>6, ExploredMarks
  <2>2. ASSUME NEW p \in Place, marks'[d][p].default = "{}"
        PROVE  AsksForObject(d, p) \/ LeadsToObject(published[d][p])
    <3>1. marks'[d][p] = IF published[d][p] \in Def
                         THEN Override(marks[d][p], marks[published[d][p]]["ref"])
                         ELSE marks[d][p]
      BY <1>6, ExploredMarks
    <3>2. CASE published[d][p] \in Def
      BY <1>4, <2>2, <3>1, <3>2, Overridden
    <3>3. CASE published[d][p] \notin Def
      BY <1>4, <2>2, <3>1, <3>3
    <3> QED
      BY <3>2, <3>3
  <2> QED
    BY <1>4, <2>1, <2>2
<1> QED
  BY <1>5, <1>6

\* What handles null itself passes that on whenever it is copied.
LEMMA NullableStep ==
  ASSUME RInv, MarksShaped, NullableMarked,
         NEW d \in Def, FollowMarked(d) \/ ExploreMarked(d)
  PROVE  NullableMarked'
<1>1. raw' = raw /\ published' = published /\ TypeOK
  BY FollowedMarks, ExploredMarks DEF RInv
<1> SUFFICES ASSUME NEW den \in [Def -> Def], Respects(den)
             PROVE  \A e \in Def :
                      /\ raw.role[e] = "marshaller" => marks'[e]["ref"].nullable
                      /\ HandlesNull(e, den) /\ ~Resolvable(schemas'[e]) =>
                           marks'[e]["ref"].nullable
                      /\ \A p \in Place :
                           (/\ published[e][p] \in Def
                            /\ HandlesNull(published[e][p], den)
                            /\ ~Resolvable(containers'[e][p])) => marks'[e][p].nullable
  BY <1>1 DEF NullableMarked, Respects, HandlesNull, Named, Resolvable
<1>2. \A e \in Def :
        /\ raw.role[e] = "marshaller" => marks[e]["ref"].nullable
        /\ HandlesNull(e, den) /\ ~Resolvable(schemas[e]) => marks[e]["ref"].nullable
        /\ \A p \in Place :
             (/\ published[e][p] \in Def
              /\ HandlesNull(published[e][p], den)
              /\ ~Resolvable(containers[e][p])) => marks[e][p].nullable
  BY DEF NullableMarked
<1>3. CASE FollowMarked(d)
  <2> DEFINE r == published[d].ref
  <2>1. /\ r \in Def /\ schemas'[d] = schemas[r] /\ containers' = containers
        /\ \A e \in Def \ {d} : schemas'[e] = schemas[e]
        /\ marks'[d]["ref"] = Override(marks[d]["ref"], marks[r]["ref"])
    BY <1>3, FollowedMarks, Refers
  <2>2. /\ \A e \in Def \ {d} : marks'[e]["ref"] = marks[e]["ref"]
        /\ \A e \in Def, p \in Place : marks'[e][p] = marks[e][p]
    BY <1>3, FollowedMarks
  <2>3. marks[d]["ref"].nullable \/ marks[r]["ref"].nullable => marks'[d]["ref"].nullable
    <3>1. marks[d]["ref"].nullable \/ marks[r]["ref"].nullable =>
            Override(marks[d]["ref"], marks[r]["ref"]).nullable
      BY Overridden
    <3> QED
      BY <2>1, <3>1
  <2>4. raw.role[d] = "marshaller" => marks'[d]["ref"].nullable
    BY <1>2, <2>3
  <2>5. HandlesNull(d, den) /\ ~Resolvable(schemas'[d]) => marks'[d]["ref"].nullable
    <3>1. den[d] = den[r]
      BY <2>1 DEF Respects
    <3>2. HandlesNull(d, den) => raw.role[d] = "marshaller" \/ HandlesNull(r, den)
      BY <3>1 DEF HandlesNull, Named
    <3> QED
      BY <1>2, <2>1, <2>3, <2>4, <3>2
  <2> QED
    BY <1>2, <2>1, <2>2, <2>4, <2>5
<1>4. CASE ExploreMarked(d)
  <2>1. Explore(d) /\ schemas' = NotResolved(d)
        /\ \A e \in Def \ {d} : containers'[e] = containers[e]
    BY <1>1, <1>4, ExploredMarks, Explored
  <2>2. /\ \A e \in Def : marks'[e]["ref"] = marks[e]["ref"]
        /\ \A e \in Def \ {d}, p \in Place : marks'[e][p] = marks[e][p]
    BY <1>4, ExploredMarks
  <2>3. \A e \in Def : schemas'[e].ref = schemas[e].ref
    BY <1>1, <2>1, NotResolvedKeeps
  <2>4. ASSUME NEW p \in Place, published[d][p] \in Def,
               HandlesNull(published[d][p], den), ~Resolvable(containers'[d][p])
        PROVE  marks'[d][p].nullable
    <3> DEFINE t == published[d][p]
    <3>1. containers'[d][p] = schemas[t] \/ containers'[d][p] = schemas'[t]
      BY <2>1, <2>4, Explodes
    <3>2. ~Resolvable(schemas[t])
      BY <2>3, <2>4, <3>1 DEF Resolvable
    <3>3. marks[t]["ref"].nullable
      BY <1>2, <2>4, <3>2
    <3>4. marks'[d][p] = Override(marks[d][p], marks[t]["ref"])
      BY <1>4, <2>4, ExploredMarks
    <3> QED
      BY <3>3, <3>4, Overridden
  <2> QED
    BY <1>2, <2>1, <2>2, <2>3, <2>4 DEF Resolvable
<1> QED
  BY <1>3, <1>4

-----------------------------------------------------------------------------
\* The invariant that says what Parse can make of a manifest.
LoadInv ==
  /\ MInv
  /\ DanglingReported /\ BoxesPublished /\ StructsComplete
  /\ NullableMarked /\ DefaultsMarked /\ ParsedRightly

LEMMA LoadInvInit == LoadInit => LoadInv
<1>1. LoadInit => ParsedRightly
  BY DEF LoadInit, ParsedRightly
<1> QED
  BY <1>1, LoadInitResolves, RInit, RPlainInit, MarksInit, DanglingInit, BoxesInit,
     CompleteInit, MarkedInit DEF LoadInv, MInv

\* After Parse nothing happens any more.
LEMMA ParsedStep ==
  ASSUME LoadInv, [LoadNext]_loadVars
  PROVE  ParsedRightly'
<1>1. ASSUME NEW d \in Def, FollowMarked(d) \/ ExploreMarked(d) PROVE ParsedRightly'
  <2>1. d \in unvisited /\ parsed' = parsed
    BY <1>1 DEF FollowMarked, ExploreMarked, Follow, Explore
  <2> QED
    BY <2>1 DEF LoadInv, ParsedRightly, Done
<1>2. ASSUME NEW d \in Kinds, NEW m \in Manifests, Parse(d, m) PROVE ParsedRightly'
  <2>1. UNCHANGED <<refVars, raw, marks>> /\ Done /\ d \in Def
    BY <1>2, RawAssumption DEF Parse, Conclude
  <2>2. Inside' = Inside
    BY <2>1 DEF Inside, refVars
  <2>3. \A e \in Def : (Recursive(e)' <=> Recursive(e)) /\ (HasReference(e)' <=> HasReference(e))
    BY <2>1, <2>2 DEF Recursive, HasReference, Parts, refVars
  <2> QED
    BY <1>2, <2>1, <2>3 DEF Parse, Conclude, ParsedRightly, Done, refVars
<1>3. CASE UNCHANGED loadVars
  <2>1. UNCHANGED <<refVars, raw, marks, parsed>>
    BY <1>3 DEF loadVars
  <2>2. Inside' = Inside
    BY <2>1 DEF Inside, refVars
  <2>3. \A e \in Def : (Recursive(e)' <=> Recursive(e)) /\ (HasReference(e)' <=> HasReference(e))
    BY <2>1, <2>2 DEF Recursive, HasReference, Parts, refVars
  <2> QED
    BY <2>1, <2>3 DEF LoadInv, ParsedRightly, Done, refVars
<1> QED
  BY <1>1, <1>2, <1>3 DEF LoadNext

LEMMA LoadInvStep == LoadInv /\ [LoadNext]_loadVars => LoadInv'
<1> SUFFICES ASSUME LoadInv, [LoadNext]_loadVars PROVE LoadInv'
  OBVIOUS
<1>1. MInv' /\ ParsedRightly'
  BY LoadStepResolves, RStep, RPlainStep, MarksStep, ParsedStep DEF LoadInv, MInv
<1>2. ASSUME NEW d \in Def, FollowMarked(d) \/ ExploreMarked(d) PROVE LoadInv'
  <2>1. Follow(d) \/ Explore(d)
    BY <1>2 DEF FollowMarked, ExploreMarked
  <2>2. DanglingReported' /\ BoxesPublished' /\ StructsComplete'
    BY <2>1, DanglingStep, BoxesStep, CompleteStep DEF LoadInv, MInv
  <2>3. NullableMarked' /\ DefaultsMarked'
    BY <1>2, NullableStep, DefaultsStep DEF LoadInv, MInv
  <2> QED
    BY <1>1, <2>2, <2>3 DEF LoadInv
<1>3. ASSUME UNCHANGED <<refVars, raw, marks>> PROVE LoadInv'
  <2>1. Needs' = Needs /\ PublishedIn' = PublishedIn
    BY <1>3 DEF refVars, Needs, PublishedIn
  <2>2. DanglingReported' /\ BoxesPublished' /\ StructsComplete'
    BY <1>3, <2>1 DEF LoadInv, refVars, DanglingReported, Dangling, BoxesPublished,
                      StructsComplete, Complete
  <2>3. NullableMarked'
    BY <1>3 DEF LoadInv, refVars, NullableMarked, Respects, HandlesNull, Named, Resolvable
  <2>4. DefaultsMarked'
    <3>1. marks' = marks /\ raw' = raw /\ published' = published /\ AliasOf' = AliasOf
      BY <1>3 DEF AliasOf, refVars
    <3>2. /\ \A e \in Def, n \in Node : AsksForObject(e, n)' <=> AsksForObject(e, n)
          /\ \A t : LeadsToObject(t)' <=> LeadsToObject(t)
      BY <3>1 DEF AsksForObject, LeadsToObject, Named, Closure
    <3> QED
      BY <3>1, <3>2, Nodes DEF LoadInv, DefaultsMarked
  <2> QED
    BY <1>1, <2>2, <2>3, <2>4 DEF LoadInv
<1>4. ASSUME NEW d \in Kinds, NEW m \in Manifests, Parse(d, m)
      PROVE  UNCHANGED <<refVars, raw, marks>>
  BY <1>4 DEF Parse, Conclude
<1> QED
  BY <1>2, <1>3, <1>4 DEF LoadNext, loadVars

LEMMA LoadInvariance == LoadSpec => []LoadInv
  BY LoadInvInit, LoadInvStep, PTL DEF LoadSpec

\* In a plain document no reference is left over where none is dangling.
LEMMA PlainLeavesNone ==
  ASSUME LoadInv, Plain, Done, referenceErrors = {}, NEW d \in Def
  PROVE  ~HasReference(d)
<1>1. /\ TypeOK /\ OrderIndependent /\ DanglingReported /\ BoxesPublished
      /\ None \notin Def /\ unvisited = {}
  BY NoneIsNoDefinition DEF LoadInv, MInv, RInv, Done
<1>2. /\ Schema(None, d, Pointer(None)).refs = {}
      /\ \A e \in Def : Schema(None, e, Pointer(None)).refs = {}
      /\ Pointer(None).refs = {}
  BY RefsAndBoxes
<1>3. schemas[d].refs = {}
  BY <1>1, <1>2 DEF OrderIndependent
<1>4. ASSUME NEW e \in Parts(d), NEW p \in Place PROVE containers[e][p].refs = {}
  <2>1. e \in Def /\ published[e][p] \in Reference
    BY <1>1, PartsAreDefinitions, PublishedReference DEF TypeOK
  <2>2. published[e][p] # Missing
    <3>1. Dangling(e) = {}
      BY <1>1, <2>1 DEF DanglingReported
    <3>2. DOMAIN published[e] = {"ref", "not"} \cup Place
      BY <1>1, <2>1, PublishedReference DEF TypeOK
    <3> QED
      BY <3>1, <3>2 DEF Dangling
  <2>3. containers[e][p] = IF published[e][p] \in Def
                           THEN Schema(None, published[e][p], Pointer(None))
                           ELSE Pointer(published[e][p])
    BY <1>1, <2>1 DEF OrderIndependent
  <2> QED
    BY <1>2, <2>1, <2>2, <2>3 DEF Reference, Name
<1> QED
  BY <1>3, <1>4 DEF HasReference

\* For every document, however large, every order of the map and every manifest:
\* what is refused is refused rightly, and no recursive schema is decoded under.
THEOREM LoadingRefusesRightly == LoadSpec => []RefusedRightly
<1>1. LoadInv => RefusedRightly
  <2> SUFFICES ASSUME LoadInv, parsed # None
               PROVE  /\ parsed.outcome = "dangling" <=>
                           \E d \in Def : \E f \in DOMAIN published[d] :
                             published[d][f] = Missing
                      /\ parsed.outcome = "recursive" => PublishedRecursive(parsed.def)
                      /\ PublishedRecursive(parsed.def) =>
                           parsed.outcome \in {"dangling", "recursive", "reference"}
                      /\ Plain => parsed.outcome # "reference"
    BY DEF RefusedRightly
  <2>1. /\ TypeOK /\ DanglingReported /\ BoxesPublished /\ StructsComplete
        /\ Done /\ parsed.def \in Def
        /\ parsed.outcome = "dangling" <=> referenceErrors # {}
        /\ parsed.outcome = "recursive" <=> referenceErrors = {} /\ Recursive(parsed.def)
        /\ parsed.outcome = "reference" <=>
             referenceErrors = {} /\ ~Recursive(parsed.def) /\ HasReference(parsed.def)
    BY DEF LoadInv, MInv, RInv, ParsedRightly
  <2>2. referenceErrors = UNION {Dangling(d) : d \in Def}
    BY <2>1 DEF DanglingReported, Done
  <2>3. referenceErrors # {} <=>
          \E d \in Def : \E f \in DOMAIN published[d] : published[d][f] = Missing
    <3>1. \A d \in Def : Dangling(d) # {} <=>
            \E f \in DOMAIN published[d] : published[d][f] = Missing
      BY DEF Dangling
    <3> QED
      BY <2>2, <3>1
  <2>4. PublishedRecursive(parsed.def) => Recursive(parsed.def) \/ HasReference(parsed.def)
    BY <2>1, RecursionIsSeen
  <2>5. Plain => parsed.outcome # "reference"
    BY <2>1, PlainLeavesNone
  <2> QED
    BY <2>1, <2>3, <2>4, <2>5, RecursionWasPublished
<1> QED
  BY <1>1, LoadInvariance, PTL

\* What a field of the manifest was decoded under: the mark of the place of what
\* its schema denotes.
LEMMA DecodedUnder ==
  ASSUME LoadInv, parsed # None, parsed.outcome = "decoded",
         NEW den \in [Def -> Def], Respects(den)
  PROVE  LET b == den[parsed.def]
             f == parsed.manifest.field
         IN  /\ b \in Def /\ f \in Place /\ parsed.manifest \in Manifest
             /\ ~Resolvable(containers[b][f])
             /\ parsed.value = Decoded(parsed.manifest, marks[b][f],
                                       marks[parsed.def]["ref"].preserve)
<1>1. /\ parsed.def \in Def /\ parsed.manifest \in Manifests
      /\ ~HasReference(parsed.def)
      /\ parsed.value = Decoded(parsed.manifest,
                                marks[schemas[parsed.def].box][parsed.manifest.field],
                                marks[parsed.def]["ref"].preserve)
  BY DEF LoadInv, ParsedRightly
<1>2. parsed.manifest \in Manifest /\ parsed.manifest.field \in Place
  <2>1. parsed.manifest \in Manifest /\ Field \subseteq Place
    BY <1>1, RawAssumption DEF Place
  <2> QED
    BY <2>1 DEF Manifest
<1>3. /\ TypeOK /\ BoxesPublished /\ NeverMisled
  BY DEF LoadInv, MInv, RInv
<1>4. \A s : IsSchema(s) /\ s.refs = {} => ~Resolvable(s)
  <2> SUFFICES ASSUME NEW s, IsSchema(s), s.refs = {} PROVE s.ref \notin Def
    BY DEF Resolvable
  <2>1. s.refs = ({s.ref} \ {None}) \cup IF s.box = None THEN {} ELSE s.not.refs
    BY DEF IsSchema, Schema
  <2> QED
    BY <2>1, NoneIsNoDefinition
<1>5. schemas[parsed.def].refs = {} /\ IsSchema(schemas[parsed.def])
  BY <1>1, <1>3 DEF HasReference, TypeOK
<1>6. schemas[parsed.def].box = den[parsed.def]
  BY <1>1, <1>3, <1>4, <1>5 DEF NeverMisled, Leads
<1>7. schemas[parsed.def].box \in schemas[parsed.def].boxes
  <2>1. schemas[parsed.def].box \in Def
    BY <1>1, <1>3 DEF TypeOK
  <2>2. schemas[parsed.def].boxes = IF schemas[parsed.def].box = None THEN {}
          ELSE {schemas[parsed.def].box} \cup schemas[parsed.def].not.boxes
    BY <1>5 DEF IsSchema, Schema
  <2> QED
    BY <2>1, <2>2, NoneIsNoDefinition
<1>8. den[parsed.def] \in Parts(parsed.def) /\ den[parsed.def] \in Def
  BY <1>1, <1>3, <1>6, <1>7, PartsAreDefinitions
<1>9. ~Resolvable(containers[den[parsed.def]][parsed.manifest.field])
  BY <1>1, <1>2, <1>3, <1>4, <1>8 DEF HasReference, TypeOK
<1> QED
  BY <1>1, <1>2, <1>6, <1>8, <1>9

\* A null that is given for a type that handles null itself is not lost, in any
\* order of the map, whether the type is named directly or through aliases.
THEOREM LoadingKeepsNulls == LoadSpec => []NullsSurvive
<1>1. LoadInv => NullsSurvive
  <2> SUFFICES ASSUME LoadInv, parsed # None, parsed.outcome = "decoded",
                      parsed.manifest.given = "null",
                      NEW den \in [Def -> Def], Respects(den), FieldName(den) \in Def,
                      HandlesNull(FieldName(den), den)
               PROVE  parsed.value = "null"
    BY DEF NullsSurvive, HandlesNull
  <2> DEFINE b == den[parsed.def]
             f == parsed.manifest.field
  <2>1. /\ b \in Def /\ f \in Place /\ ~Resolvable(containers[b][f])
        /\ parsed.value = Decoded(parsed.manifest, marks[b][f],
                                  marks[parsed.def]["ref"].preserve)
    BY DecodedUnder
  <2>2. FieldName(den) = published[b][f]
    BY DEF FieldName
  <2>3. marks[b][f].nullable
    BY <2>1, <2>2 DEF LoadInv, NullableMarked
  <2>4. Pruned(parsed.manifest, marks[b][f], marks[parsed.def]["ref"].preserve) = "null"
    BY <2>3 DEF Pruned
  <2> QED
    BY <2>1, <2>3, <2>4 DEF Decoded
<1> QED
  BY <1>1, LoadInvariance, PTL

\* No object is made up but where the document asks for one, at the field or along
\* the names it leads to: a default beside a reference to a type whose values are no
\* objects never gets there, in any order of the map.
THEOREM LoadingInventsNoObjects == LoadSpec => []NoInvalidDefaults
<1>1. LoadInv => NoInvalidDefaults
  <2> SUFFICES ASSUME LoadInv, parsed # None, parsed.outcome = "decoded",
                      parsed.value = "{}", NEW den \in [Def -> Def], Respects(den)
               PROVE  \/ AsksForObject(den[parsed.def], parsed.manifest.field)
                      \/ LeadsToObject(FieldName(den))
    BY DEF NoInvalidDefaults
  <2> DEFINE b == den[parsed.def]
             f == parsed.manifest.field
  <2>1. /\ b \in Def /\ f \in Place /\ parsed.manifest \in Manifest
        /\ parsed.value = Decoded(parsed.manifest, marks[b][f],
                                  marks[parsed.def]["ref"].preserve)
    BY DecodedUnder
  <2>2. FieldName(den) = published[b][f]
    BY DEF FieldName
  <2>3. parsed.manifest.given \in {"absent", "null", "value"}
    BY <2>1 DEF Manifest
  <2>4. Pruned(parsed.manifest, marks[b][f], marks[parsed.def]["ref"].preserve) # "{}"
    BY <2>3 DEF Pruned
  <2>5. marks[b][f].default = "{}"
    BY <2>1, <2>4 DEF Decoded
  <2> QED
    BY <2>1, <2>2, <2>5 DEF LoadInv, DefaultsMarked
<1> QED
  BY <1>1, LoadInvariance, PTL
================================================================================
