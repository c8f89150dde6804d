------------------------------ MODULE RefProofs ------------------------------
(***************************************************************************)
(* Proofs about RefResolution for every set of documents, with any number  *)
(* of definitions and places, and every order of the map.                  *)
(***************************************************************************)
EXTENDS RefResolution, TLAPS

\* What the loop has not come to is as it was published.
Untouched ==
  \A d \in unvisited :
    /\ schemas[d] = Schema(published[d].ref, d, Pointer(published[d].not))
    /\ containers[d] = [p \in Place |-> Pointer(published[d][p])]

\* The inductive invariant: a copy is right because its original is, whether the
\* loop has been there or not, and what is resolved next is still as published.
RInv == TypeOK /\ Untouched /\ NeverMisled

-----------------------------------------------------------------------------
\* A reference that is published of a definition is a name or none.
LEMMA PublishedReference ==
  ASSUME published \in Documents, NEW d \in Def
  PROVE  /\ published \in [Def -> Published]
         /\ \A f \in {"ref", "not"} \cup Place : published[d][f] \in Reference
         /\ DOMAIN published[d] = {"ref", "not"} \cup Place
         /\ published[d].ref \in Reference /\ published[d].not \in Reference
  BY DocumentsAssumption DEF Published

\* None is not a definition.
LEMMA NoneIsNoDefinition == None \notin Def /\ None \in Reference
  BY NamesAssumption DEF Reference, Name

\* The fields of a struct.
LEMMA Fields ==
  ASSUME NEW r, NEW b, NEW n
  PROVE  /\ Schema(r, b, n).ref = r /\ Schema(r, b, n).box = b
         /\ Schema(r, b, n).not = n
         /\ Pointer(r).ref = r /\ Pointer(r).box = None
         /\ r \in Reference /\ b \in Def \cup {None} => IsSchema(Schema(r, b, n))
<1>1. /\ Schema(r, b, n).ref = r /\ Schema(r, b, n).box = b
      /\ Schema(r, b, n).not = n
  BY DEF Schema
<1>2. Pointer(r).ref = r /\ Pointer(r).box = None
  BY DEF Schema, Pointer
<1> QED
  BY <1>1, <1>2 DEF IsSchema

\* A bare pointer is a struct if what it names may be named.
LEMMA PointerIsSchema ==
  ASSUME NEW r \in Reference
  PROVE  IsSchema(Pointer(r))
  BY DEF IsSchema, Pointer, Schema

\* Resolving a struct gives a struct.
LEMMA ResolveIsSchema ==
  ASSUME NEW s, IsSchema(s), NEW defs, \A e \in Def : IsSchema(defs[e])
  PROVE  IsSchema(Resolve(s, defs))
  BY DEF Resolve, Resolvable

\* The struct of a definition after its "not" was visited.
LEMMA NotResolvedKeeps ==
  ASSUME TypeOK, NEW d \in Def
  PROVE  /\ DOMAIN NotResolved(d) = Def
         /\ \A e \in Def : /\ IsSchema(NotResolved(d)[e])
                           /\ IsSchema(NotResolved(d)[e].not)
                           /\ NotResolved(d)[e].ref = schemas[e].ref
                           /\ NotResolved(d)[e].box = schemas[e].box
<1>1. \A e \in Def : IsSchema(schemas[e]) /\ IsSchema(schemas[e].not)
  BY DEF TypeOK
<1>2. IsSchema(Resolve(schemas[d].not, schemas))
  BY <1>1, ResolveIsSchema
<1>3. NotResolved(d)[d] = Schema(schemas[d].ref, schemas[d].box,
                                 Resolve(schemas[d].not, schemas))
  BY DEF NotResolved, TypeOK
<1>4. \A e \in Def \ {d} : NotResolved(d)[e] = schemas[e]
  BY DEF NotResolved, TypeOK
<1>5. DOMAIN NotResolved(d) = Def
  BY DEF NotResolved, TypeOK
<1>6. IsSchema(NotResolved(d)[d])
  BY <1>1, <1>3, Fields DEF IsSchema
<1>7. NotResolved(d)[d].ref = schemas[d].ref /\ NotResolved(d)[d].box = schemas[d].box
      /\ NotResolved(d)[d].not = Resolve(schemas[d].not, schemas)
  BY <1>3 DEF Schema
<1> QED
  BY <1>1, <1>2, <1>4, <1>5, <1>6, <1>7

\* Exploring a definition changes nothing but its "not" and its own containers.
LEMMA Explored ==
  ASSUME TypeOK, NEW d \in Def, Explore(d)
  PROVE  /\ schemas' = NotResolved(d)
         /\ DOMAIN containers' = Def
         /\ \A e \in Def \ {d} : containers'[e] = containers[e]
         /\ DOMAIN containers'[d] = Place
         /\ \A p \in Place : \/ containers'[d][p] = Resolve(containers[d][p], schemas)
                             \/ containers'[d][p] = Resolve(containers[d][p], NotResolved(d))
  BY DEF Explore, TypeOK

\* Following a reference changes nothing but the struct of the definition.
LEMMA Followed ==
  ASSUME TypeOK, NEW d \in Def, Follow(d)
  PROVE  /\ DOMAIN schemas' = Def
         /\ schemas[d].ref \in Def /\ schemas'[d] = schemas[schemas[d].ref]
         /\ \A e \in Def \ {d} : schemas'[e] = schemas[e]
  BY DEF Follow, TypeOK, Resolve, Resolvable

-----------------------------------------------------------------------------
\* The initial states satisfy the invariant.
LEMMA RInit == Init => RInv
<1> SUFFICES ASSUME Init PROVE RInv
  OBVIOUS
<1>1. ASSUME NEW d \in Def
      PROVE  /\ schemas[d] = Schema(published[d].ref, d, Pointer(published[d].not))
             /\ containers[d] = [p \in Place |-> Pointer(published[d][p])]
             /\ published[d].ref \in Reference /\ published[d].not \in Reference
             /\ \A p \in Place : published[d][p] \in Reference
  BY PublishedReference DEF Init
<1>2. Untouched
  BY <1>1 DEF Untouched, Init
<1>3. ASSUME NEW d \in Def
      PROVE  /\ schemas[d].ref = published[d].ref /\ schemas[d].box = d
             /\ schemas[d].not = Pointer(published[d].not)
             /\ IsSchema(schemas[d])
  <2>1. schemas[d] = Schema(published[d].ref, d, Pointer(published[d].not))
    BY <1>1
  <2>2. published[d].ref \in Reference
    BY <1>1
  <2> QED
    BY <2>1, <2>2, Fields
<1>4. TypeOK
  <2>1. ASSUME NEW d \in Def
        PROVE  /\ IsSchema(schemas[d]) /\ schemas[d].box \in Def
               /\ IsSchema(schemas[d].not) /\ DOMAIN containers[d] = Place
    BY <1>1, <1>3, PointerIsSchema
  <2>2. ASSUME NEW d \in Def, NEW p \in Place PROVE IsSchema(containers[d][p])
    BY <1>1, PointerIsSchema
  <2> QED
    BY <2>1, <2>2 DEF TypeOK, Init
<1>5. NeverMisled
  <2> SUFFICES ASSUME NEW den \in [Def -> Def], Respects(den), NEW d \in Def
               PROVE  /\ Leads(schemas[d], d, den)
                      /\ \A p \in Place : published[d][p] \in Def =>
                           Leads(containers[d][p], published[d][p], den)
    BY DEF NeverMisled
  <2>1. Leads(schemas[d], d, den)
    <3>1. /\ schemas[d].ref = published[d].ref /\ schemas[d].box = d
          /\ den[d] = IF published[d].ref \in Def THEN den[published[d].ref] ELSE d
      BY <1>3 DEF Respects
    <3> QED
      BY <3>1 DEF Leads, Resolvable
  <2>2. ASSUME NEW p \in Place, published[d][p] \in Def
        PROVE  Leads(containers[d][p], published[d][p], den)
    <3>1. containers[d][p] = Pointer(published[d][p])
      BY <1>1
    <3>2. containers[d][p].ref = published[d][p]
      BY <3>1, Fields
    <3> QED
      BY <2>2, <3>2 DEF Leads, Resolvable
  <2> QED
    BY <2>1, <2>2
<1> QED
  BY <1>2, <1>4, <1>5 DEF RInv

\* Every step keeps the types.
LEMMA RTypeStep ==
  ASSUME TypeOK, NEW d \in Def, Follow(d) \/ Explore(d)
  PROVE  TypeOK'
<1>0. \A e \in Def : IsSchema(schemas[e])
  BY DEF TypeOK
<1>1. CASE Follow(d)
  <2>1. \A e \in Def : IsSchema(schemas'[e]) /\ schemas'[e].box \in Def
                       /\ IsSchema(schemas'[e].not)
    BY <1>1, Followed DEF TypeOK
  <2> QED
    BY <1>1, <2>1, Followed DEF TypeOK, Follow
<1>2. CASE Explore(d)
  <2>1. \A p \in Place : IsSchema(containers'[d][p])
    <3> TAKE p \in Place
    <3>1. IsSchema(containers[d][p])
      BY DEF TypeOK
    <3>2. \A e \in Def : IsSchema(NotResolved(d)[e])
      BY NotResolvedKeeps
    <3>3. /\ IsSchema(Resolve(containers[d][p], schemas))
          /\ IsSchema(Resolve(containers[d][p], NotResolved(d)))
      BY <1>0, <3>1, <3>2, ResolveIsSchema
    <3> QED
      BY <1>2, <3>3, Explored
  <2>2. \A e \in Def, p \in Place : IsSchema(containers'[e][p])
    BY <1>2, <2>1, Explored DEF TypeOK
  <2>3. DOMAIN schemas' = Def
        /\ \A e \in Def : /\ IsSchema(schemas'[e]) /\ schemas'[e].box \in Def
                          /\ IsSchema(schemas'[e].not)
    <3>1. schemas' = NotResolved(d)
      BY <1>2, Explored
    <3>2. \A e \in Def : schemas[e].box \in Def
      BY DEF TypeOK
    <3> QED
      BY <3>1, <3>2, NotResolvedKeeps
  <2>4. DOMAIN containers' = Def /\ \A e \in Def : DOMAIN containers'[e] = Place
    BY <1>2, Explored DEF TypeOK
  <2>5. Dangling(d) \subseteq Def \X ({"ref", "not"} \cup Place)
    BY PublishedReference DEF Dangling, TypeOK
  <2> QED
    BY <1>2, <2>2, <2>3, <2>4, <2>5 DEF TypeOK, Explore
<1> QED
  BY <1>1, <1>2

\* What the loop has not come to is left alone.
LEMMA RUntouchedStep ==
  ASSUME TypeOK, Untouched, NEW d \in Def, Follow(d) \/ Explore(d)
  PROVE  Untouched'
<1> SUFFICES ASSUME NEW e \in unvisited'
             PROVE  /\ schemas'[e] = schemas[e] /\ containers'[e] = containers[e]
                    /\ published' = published /\ e \in unvisited
  BY DEF Untouched
<1>1. e \in Def \ {d} /\ e \in unvisited /\ published' = published
  BY DEF Follow, Explore, TypeOK
<1>2. CASE Follow(d)
  BY <1>1, <1>2, Followed DEF Follow
<1>3. CASE Explore(d)
  <2>1. NotResolved(d)[e] = schemas[e]
    BY <1>1 DEF NotResolved, TypeOK
  <2> QED
    BY <1>1, <1>3, <2>1, Explored
<1> QED
  BY <1>1, <1>2, <1>3

\* What a place is replaced by when it is visited leads where the name leads.
LEMMA ResolveLeads ==
  ASSUME NEW den \in [Def -> Def], NEW name \in Def, NEW s, s.ref = name,
         NEW defs, Leads(defs[name], name, den)
  PROVE  Leads(Resolve(s, defs), name, den)
  BY DEF Resolve, Resolvable

\* A step leads nobody astray.
LEMMA RMisledStep ==
  ASSUME RInv, NEW d \in Def, Follow(d) \/ Explore(d)
  PROVE  NeverMisled'
<1>1. published' = published /\ d \in unvisited
  BY DEF Follow, Explore
<1> SUFFICES ASSUME NEW den \in [Def -> Def], Respects(den), NEW e \in Def
             PROVE  /\ Leads(schemas'[e], e, den)
                    /\ \A p \in Place : published[e][p] \in Def =>
                         Leads(containers'[e][p], published[e][p], den)
  BY <1>1 DEF NeverMisled, Respects, Leads, Resolvable
<1>2. \A x \in Def :
        /\ Leads(schemas[x], x, den)
        /\ \A p \in Place : published[x][p] \in Def =>
             Leads(containers[x][p], published[x][p], den)
  BY DEF RInv, NeverMisled
<1>3. TypeOK /\ schemas[d] = Schema(published[d].ref, d, Pointer(published[d].not))
      /\ containers[d] = [p \in Place |-> Pointer(published[d][p])]
  BY <1>1 DEF RInv, Untouched
<1>4. CASE Follow(d)
  <2>1. schemas[d].ref \in Def /\ schemas'[d] = schemas[schemas[d].ref]
        /\ \A x \in Def \ {d} : schemas'[x] = schemas[x]
    BY <1>3, <1>4, Followed
  <2>2. schemas[d].ref = published[d].ref
    BY <1>3, Fields
  <2>3. den[d] = den[schemas[d].ref]
    BY <2>1, <2>2 DEF Respects
  <2>4. Leads(schemas[schemas[d].ref], schemas[d].ref, den)
    BY <1>2, <2>1
  <2>5. Leads(schemas'[d], d, den)
    BY <2>1, <2>3, <2>4 DEF Leads
  <2>6. containers' = containers
    BY <1>4 DEF Follow
  <2> QED
    BY <1>2, <2>1, <2>5, <2>6
<1>5. CASE Explore(d)
  <2>1. \A x \in Def : /\ NotResolved(d)[x].ref = schemas[x].ref
                       /\ NotResolved(d)[x].box = schemas[x].box
    BY <1>3, NotResolvedKeeps
  <2>2. \A x \in Def : Leads(NotResolved(d)[x], x, den)
    BY <1>2, <2>1 DEF Leads, Resolvable
  <2>3. schemas' = NotResolved(d) /\ \A x \in Def \ {d} : containers'[x] = containers[x]
    BY <1>3, <1>5, Explored
  <2>4. ASSUME NEW p \in Place, published[d][p] \in Def
        PROVE  Leads(containers'[d][p], published[d][p], den)
    <3>1. containers[d][p] = Pointer(published[d][p])
      BY <1>3
    <3>2. containers[d][p].ref = published[d][p]
      BY <3>1, Fields
    <3>3. Leads(Resolve(containers[d][p], schemas), published[d][p], den)
      BY <1>2, <2>4, <3>2, ResolveLeads
    <3>4. Leads(Resolve(containers[d][p], NotResolved(d)), published[d][p], den)
      BY <2>2, <2>4, <3>2, ResolveLeads
    <3> QED
      BY <1>3, <1>5, <3>3, <3>4, Explored
  <2> QED
    BY <1>2, <2>2, <2>3, <2>4
<1> QED
  BY <1>4, <1>5

\* The invariant is inductive.
LEMMA RStep == RInv /\ [Next]_refVars => RInv'
<1> SUFFICES ASSUME RInv, [Next]_refVars PROVE RInv'
  OBVIOUS
<1>1. ASSUME NEW d \in Def, Follow(d) \/ Explore(d) PROVE RInv'
  BY <1>1, RTypeStep, RUntouchedStep, RMisledStep DEF RInv
<1>2. CASE UNCHANGED refVars
  BY <1>2 DEF refVars, RInv, TypeOK, Untouched, NeverMisled, Respects, Leads, Resolvable
<1> QED
  BY <1>1, <1>2 DEF Next

\* The invariant of the loop holds always.
THEOREM RefInvariance == Spec => []RInv
  BY RInit, RStep, PTL DEF Spec

\* The graph of schemas keeps its types: a definition always has containers.
THEOREM RefTypeCorrect == Spec => []TypeOK
<1>1. RInv => TypeOK
  BY DEF RInv
<1> QED
  BY <1>1, RefInvariance, PTL

\* In no order of the map is a place ever bound to a definition other than the
\* one that it names, however definitions refer to one another.
THEOREM ResolutionNeverMisleads == Spec => []NeverMisled
<1>1. RInv => NeverMisled
  BY DEF RInv
<1> QED
  BY <1>1, RefInvariance, PTL

-----------------------------------------------------------------------------
\* Initially no definition of a plain document is anything but itself.
LEMMA RPlainInit == Init => OrderIndependent
  BY DEF Init, OrderIndependent, Plain

\* A plain document is resolved by copying definitions that do not change.
LEMMA RPlainStep == RInv /\ OrderIndependent /\ [Next]_refVars => OrderIndependent'
<1> SUFFICES ASSUME RInv, OrderIndependent, [Next]_refVars PROVE OrderIndependent'
  OBVIOUS
<1>1. ASSUME NEW d \in Def, Follow(d) \/ Explore(d) PROVE OrderIndependent'
  <2>1. published' = published /\ d \in unvisited /\ unvisited' = unvisited \ {d}
    BY <1>1 DEF Follow, Explore
  <2> SUFFICES ASSUME Plain
               PROVE  /\ \A e \in Def : schemas'[e] = Schema(None, e, Pointer(None))
                      /\ \A e \in Def \ unvisited', p \in Place :
                           containers'[e][p] =
                             IF published[e][p] \in Def
                             THEN Schema(None, published[e][p], Pointer(None))
                             ELSE Pointer(published[e][p])
    BY <2>1 DEF OrderIndependent, Plain
  <2>2. \A e \in Def : schemas[e] = Schema(None, e, Pointer(None))
    BY DEF OrderIndependent
  <2>3. schemas[d].ref = None /\ schemas[d].box = d /\ schemas[d].not = Pointer(None)
    BY <2>2, Fields
  <2>4. Explore(d) /\ TypeOK
    BY <1>1, <2>3, NoneIsNoDefinition DEF Follow, Resolvable, RInv
  <2>5. Resolve(Pointer(None), schemas) = Pointer(None)
    BY Fields, NoneIsNoDefinition DEF Resolve, Resolvable
  <2>6. \A e \in Def : NotResolved(d)[e] = schemas[e]
    BY <2>2, <2>3, <2>4, <2>5 DEF NotResolved, TypeOK
  <2>7. \A e \in Def : schemas'[e] = Schema(None, e, Pointer(None))
    BY <2>2, <2>4, <2>6, Explored
  <2>8. ASSUME NEW p \in Place
        PROVE  containers'[d][p] = IF published[d][p] \in Def
                                   THEN Schema(None, published[d][p], Pointer(None))
                                   ELSE Pointer(published[d][p])
    <3>1. containers[d][p] = Pointer(published[d][p])
      BY <2>1 DEF RInv, Untouched
    <3>2. containers[d][p].ref = published[d][p]
      BY <3>1, Fields
    <3>3. \/ containers'[d][p] = Resolve(containers[d][p], schemas)
          \/ containers'[d][p] = Resolve(containers[d][p], NotResolved(d))
      BY <2>4, Explored
    <3>4. CASE published[d][p] \in Def
      <4>1. /\ Resolve(containers[d][p], schemas) = schemas[published[d][p]]
            /\ Resolve(containers[d][p], NotResolved(d)) = NotResolved(d)[published[d][p]]
        BY <3>2, <3>4 DEF Resolve, Resolvable
      <4> QED
        BY <2>2, <2>6, <3>3, <3>4, <4>1
    <3>5. CASE published[d][p] \notin Def
      <4>1. /\ Resolve(containers[d][p], schemas) = containers[d][p]
            /\ Resolve(containers[d][p], NotResolved(d)) = containers[d][p]
        BY <3>2, <3>5 DEF Resolve, Resolvable
      <4> QED
        BY <3>1, <3>3, <3>5, <4>1
    <3> QED
      BY <3>4, <3>5
  <2>9. \A e \in Def \ unvisited, p \in Place :
          containers'[e][p] = IF published[e][p] \in Def
                              THEN Schema(None, published[e][p], Pointer(None))
                              ELSE Pointer(published[e][p])
    BY <2>1, <2>4, Explored DEF OrderIndependent
  <2> QED
    BY <2>1, <2>7, <2>8, <2>9
<1>2. CASE UNCHANGED refVars
  BY <1>2 DEF refVars, OrderIndependent, Plain
<1> QED
  BY <1>1, <1>2 DEF Next

\* If no definition is itself a reference, nor its "not", the result of the loop is
\* the same in every order of the map: what the comment in infoForGVK relies on.
THEOREM PlainOrderIsIrrelevant == Spec => []OrderIndependent
  BY RefInvariance, RPlainInit, RPlainStep, PTL DEF Spec

-----------------------------------------------------------------------------
\* What a struct still refers to, itself or through its "not", the document
\* refers to in the same way.
Inherited(s) ==
  /\ Resolvable(s) => \E e \in Def : published[e].ref = s.ref
  /\ s.box # None /\ Resolvable(s.not) => \E e \in Def : published[e].not \in Def

AllInherited ==
  /\ \A d \in Def : Inherited(schemas[d])
  /\ \A d \in Def \ unvisited, p \in Place : Inherited(containers[d][p])

LEMMA InheritedInit == Init => AllInherited
<1> SUFFICES ASSUME Init, NEW d \in Def PROVE Inherited(schemas[d])
  BY DEF AllInherited, Init
<1>0. schemas[d] = Schema(published[d].ref, d, Pointer(published[d].not))
  BY DEF Init
<1>1. schemas[d].ref = published[d].ref /\ schemas[d].not = Pointer(published[d].not)
  BY <1>0, Fields
<1>2. schemas[d].not.ref = published[d].not
  BY <1>1, Fields
<1> QED
  BY <1>1, <1>2 DEF Inherited, Resolvable

\* A copy inherits what its original does.
LEMMA ResolveInherits ==
  ASSUME NEW name \in Reference, NEW defs, \A e \in Def : Inherited(defs[e])
  PROVE  Inherited(Resolve(Pointer(name), defs))
<1>1. Pointer(name).ref = name /\ Pointer(name).box = None
  BY Fields
<1>2. CASE name \in Def
  BY <1>1, <1>2 DEF Resolve, Resolvable
<1>3. CASE name \notin Def
  BY <1>1, <1>3 DEF Resolve, Resolvable, Inherited
<1> QED
  BY <1>2, <1>3

LEMMA InheritedStep == RInv /\ AllInherited /\ [Next]_refVars => AllInherited'
<1> SUFFICES ASSUME RInv, AllInherited, [Next]_refVars PROVE AllInherited'
  OBVIOUS
<1>1. ASSUME NEW d \in Def, Follow(d) PROVE AllInherited'
  <2>1. /\ UNCHANGED <<published, containers>> /\ unvisited' = unvisited \ {d}
        /\ d \in unvisited
    BY <1>1 DEF Follow
  <2>2. \A e \in Def : Inherited(schemas'[e])
    BY <1>1, Followed DEF RInv, AllInherited
  <2>3. ASSUME NEW p \in Place PROVE Inherited(containers[d][p])
    <3>1. schemas[d] = Schema(published[d].ref, d, Pointer(published[d].not))
      BY <2>1 DEF RInv, Untouched
    <3>2. published[d].ref \in Def
      BY <1>1, <3>1, Fields DEF Follow, Resolvable
    <3>3. containers[d][p] = Pointer(published[d][p]) /\ published[d][p] = None
      <4>1. containers[d][p] = Pointer(published[d][p])
        BY <2>1 DEF RInv, Untouched
      <4>2. published \in Documents
        BY DEF RInv, TypeOK
      <4>3. \A f \in {"not"} \cup Place : published[d][f] = None
        BY <3>2, <4>2, DocumentsAssumption
      <4> QED
        BY <4>1, <4>3
    <3>4. containers[d][p].ref = None /\ containers[d][p].box = None
      BY <3>3, Fields
    <3> QED
      BY <3>4, NoneIsNoDefinition DEF Inherited, Resolvable
  <2>4. \A e \in Def \ unvisited', p \in Place : Inherited(containers[e][p])
    BY <2>1, <2>3 DEF AllInherited
  <2> QED
    BY <2>1, <2>2, <2>4 DEF AllInherited, Inherited
<1>2. ASSUME NEW d \in Def, Explore(d) PROVE AllInherited'
  <2>1. UNCHANGED published /\ unvisited' = unvisited \ {d} /\ d \in unvisited
    BY <1>2 DEF Explore
  <2>2. /\ schemas' = NotResolved(d)
        /\ \A e \in Def \ {d} : containers'[e] = containers[e]
        /\ \A p \in Place : \/ containers'[d][p] = Resolve(containers[d][p], schemas)
                            \/ containers'[d][p] = Resolve(containers[d][p], NotResolved(d))
    BY <1>2, Explored DEF RInv
  <2>3. ASSUME NEW e \in Def PROVE Inherited(NotResolved(d)[e])
    <3>1. CASE e # d
      BY <3>1 DEF NotResolved, RInv, TypeOK, AllInherited
    <3>2. CASE e = d
      <4>1. NotResolved(d)[d] = Schema(schemas[d].ref, schemas[d].box,
                                       Resolve(schemas[d].not, schemas))
        BY DEF NotResolved, RInv, TypeOK
      <4>2. /\ NotResolved(d)[d].ref = schemas[d].ref
            /\ NotResolved(d)[d].not = Resolve(schemas[d].not, schemas)
        BY <4>1, Fields
      <4>3. schemas[d].box # None
        BY NoneIsNoDefinition DEF RInv, TypeOK
      <4>4. Resolvable(NotResolved(d)[d].not) => Resolvable(schemas[d].not)
        BY <4>2 DEF Resolve
      <4> QED
        BY <3>2, <4>2, <4>3, <4>4 DEF AllInherited, Inherited, Resolvable
    <3> QED
      BY <3>1, <3>2
  <2>4. ASSUME NEW p \in Place PROVE Inherited(containers'[d][p])
    <3>1. containers[d][p] = Pointer(published[d][p])
      BY <2>1 DEF RInv, Untouched
    <3>2. published[d][p] \in Reference
      BY PublishedReference DEF RInv, TypeOK
    <3>3. \A e \in Def : Inherited(schemas[e])
      BY DEF AllInherited
    <3> QED
      BY <2>2, <2>3, <3>1, <3>2, <3>3, ResolveInherits
  <2>5. \A e \in Def \ unvisited', p \in Place : Inherited(containers'[e][p])
    BY <2>1, <2>2, <2>4 DEF AllInherited
  <2> QED
    BY <2>1, <2>2, <2>3, <2>5 DEF AllInherited, Inherited
<1>3. CASE UNCHANGED refVars
  BY <1>3 DEF refVars, AllInherited, Inherited
<1> QED
  BY <1>1, <1>2, <1>3 DEF Next

\* When the loop is over, a reference is left over only where a definition that is
\* itself a reference, or whose "not" is, was copied before the loop came to it.
THEOREM LeftoversHaveCause == Spec => []LeftoversExplained
<1>1. AllInherited => LeftoversExplained
  BY DEF AllInherited, Inherited, LeftoversExplained, Done
<1> QED
  BY <1>1, RefInvariance, InheritedInit, InheritedStep, PTL DEF Spec
=============================================================================
