------------------------------ MODULE Validator ------------------------------
(***************************************************************************)
(* The validator of pkg/validator: the group-version fetchers handed over  *)
(* by the openapi client, the cache from group-version-kind to validator   *)
(* entry that infoForGVK fills lazily, and the life of one call at a time: *)
(* ValidateDocument (pkg/cmd) parses a document and validates it, a user   *)
(* of the package calls Validate alone.                                    *)
(*                                                                         *)
(* A published OpenAPI document is abstracted to what infoForGVK reads of  *)
(* it: which definitions it has, which kinds each of them claims, which    *)
(* scope an extension states, which kinds have a namespaced path, whether  *)
(* every reference resolves and which definitions are cyclic afterwards.   *)
(***************************************************************************)
EXTENDS Naturals, Sequences

CONSTANTS
  GroupVersion,     \* the group-versions documents name
  GVK,              \* group-version-kinds
  GVOf,             \* the group-version of a GVK
  Def,              \* the schema definitions of all published documents
  Home,             \* the group-version whose document holds a definition
  Claims,           \* the GVKs in its x-kubernetes-group-version-kind
  ScopeExtension,   \* its x-kubectl-validate-scope
  NamespacedPaths,  \* per document: GVKs with a namespaces/{namespace} path
  DanglingRefs,     \* the group-versions whose document has a dangling $ref
  Cyclic,           \* definitions that are cyclic once $refs are inlined
  FetchFaults,      \* how GroupVersion.Schema may go wrong
  CrdGVK,           \* the GVKs of CustomResourceDefinition itself
  Doc,              \* the documents and objects to validate
  MaxCalls,         \* bound on the calls of a behaviour
  NoGVK, NoDoc, NoEntry

Faults == {"unavailable", "malformed", "noComponents"}

Scopes == {"absent", "Namespaced", "Cluster"}

(***************************************************************************)
(* What a document is to the validator: the kind it names, its namespace,  *)
(* the definitions it decodes under without strict errors, those it        *)
(* satisfies, and whether the built-in CRD strategy accepts it.            *)
(***************************************************************************)
Document ==
  [gvk : GVK \cup {NoGVK}, namespace : {"none", "wellFormed", "malformed"},
   decodes : SUBSET Def, conforms : SUBSET Def, native : BOOLEAN]

ASSUME ConstantsAssumption ==
  /\ GVOf \in [GVK -> GroupVersion]
  /\ Home \in [Def -> GroupVersion]
  /\ Claims \in [Def -> SUBSET GVK]
  /\ ScopeExtension \in [Def -> Scopes]
  /\ NamespacedPaths \in [GroupVersion -> SUBSET GVK]
  /\ DanglingRefs \subseteq GroupVersion
  /\ Cyclic \subseteq Def
  /\ FetchFaults \subseteq Faults
  /\ CrdGVK \subseteq GVK
  /\ Doc \subseteq Document
  /\ MaxCalls \in Nat
  /\ NoGVK \notin GVK
  /\ NoDoc \notin Document

ASSUME NoEntryAssumption == NoEntry \notin [def : Def, nsScoped : BOOLEAN]

VARIABLES
  gvs,             \* Validator.gvs: the group-versions with a fetcher
  validatorCache,  \* Validator.validatorCache
  ss,              \* definitions whose entry has memoised its structural schema
  schemaValidator, \* definitions whose entry has memoised its schema validator
  pc,              \* where the call in progress stands
  call,            \* "document": ValidateDocument; "object": Validate alone
  doc,             \* its argument
  entry,           \* the entry infoForGVK returned to it
  verdicts         \* what has been answered so far, oldest first

vars == <<gvs, validatorCache, ss, schemaValidator, pc, call, doc, entry, verdicts>>

memos == <<ss, schemaValidator>>

Entry == [def : Def, nsScoped : BOOLEAN]

Verdicts == {"ok", "invalid", "undecodable", "noStructural", "noSpec",
             "fetchFailed", "danglingRef", "noKind", "unidentified"}

Answer == [call : {"document", "object"}, doc : Doc, verdict : Verdicts]

Init ==
  /\ gvs \in SUBSET GroupVersion
  /\ validatorCache = [k \in GVK |-> NoEntry]
  /\ ss = {}
  /\ schemaValidator = {}
  /\ pc = "ready"
  /\ call = "document"
  /\ doc = NoDoc
  /\ entry = NoEntry
  /\ verdicts = <<>>

-----------------------------------------------------------------------------
(***************************************************************************)
(* Returning from a call.                                                  *)
(***************************************************************************)
Return(verdict) ==
  /\ verdicts' = Append(verdicts, [call |-> call, doc |-> doc, verdict |-> verdict])
  /\ pc' = "ready"
  /\ doc' = NoDoc
  /\ entry' = NoEntry
  /\ UNCHANGED <<gvs, call>>

Goto(label) == pc' = label /\ UNCHANGED <<gvs, call, doc, verdicts>>

\* ValidateDocument discards whatever Parse returned for a CRD.
Native == pc \in {"Parse", "decode"} /\ doc.gvk \in CrdGVK

\* An error returned by the function the call is in.
Fail(verdict) ==
  \/ Native /\ Goto("native") /\ entry' = NoEntry
  \/ ~Native /\ Return(verdict)

-----------------------------------------------------------------------------
(***************************************************************************)
(* Entry points.                                                           *)
(***************************************************************************)
Begin(d, function, label) ==
  /\ pc = "ready"
  /\ Len(verdicts) < MaxCalls
  /\ d.gvk # NoGVK
  /\ call' = function
  /\ doc' = d
  /\ pc' = label
  /\ UNCHANGED <<gvs, validatorCache, memos, entry, verdicts>>

ValidateDocument(d) == Begin(d, "document", "Parse")

ValidateObject(d) == Begin(d, "object", "Validate")

\* Parse cannot unmarshal the type metadata, or it is empty.
RejectUnidentified(d) ==
  /\ pc = "ready"
  /\ Len(verdicts) < MaxCalls
  /\ d.gvk = NoGVK
  /\ verdicts' = Append(verdicts,
                   [call |-> "document", doc |-> d, verdict |-> "unidentified"])
  /\ UNCHANGED <<gvs, validatorCache, memos, pc, call, doc, entry>>

-----------------------------------------------------------------------------
(***************************************************************************)
(* infoForGVK, called by Parse and by Validate.                            *)
(***************************************************************************)
InLookup == pc \in {"Parse", "Validate"}

\* Where the caller goes on with the entry.
Found(e) ==
  /\ Goto(IF pc = "Parse" THEN "decode" ELSE "create")
  /\ entry' = e

\* Mutant: only Parse consults the cache.
ParseHit ==
  /\ pc = "Parse"
  /\ validatorCache[doc.gvk] # NoEntry
  /\ Found(validatorCache[doc.gvk])
  /\ UNCHANGED <<validatorCache, memos>>

CacheHit ==
  /\ InLookup
  /\ validatorCache[doc.gvk] # NoEntry
  /\ Found(validatorCache[doc.gvk])
  /\ UNCHANGED <<validatorCache, memos>>

\* Mutant: every lookup fetches.
AlwaysMiss == InLookup

CacheMiss == InLookup /\ validatorCache[doc.gvk] = NoEntry

SpecNotLocated ==
  /\ CacheMiss
  /\ GVOf[doc.gvk] \notin gvs
  /\ Fail("noSpec")
  /\ UNCHANGED <<validatorCache, memos>>

Fetching == CacheMiss /\ GVOf[doc.gvk] \in gvs

\* Schema returns an error, or bytes that are not an OpenAPI document.
FetchFails ==
  /\ Fetching
  /\ FetchFaults \cap {"unavailable", "malformed"} # {}
  /\ Fail("fetchFailed")
  /\ UNCHANGED <<validatorCache, memos>>

\* A document without "components" is dereferenced through a nil pointer.
FetchPanics ==
  /\ Fetching
  /\ "noComponents" \in FetchFaults
  /\ Goto("panicked")
  /\ UNCHANGED <<validatorCache, memos, entry>>

RefsDangle ==
  /\ Fetching
  /\ GVOf[doc.gvk] \in DanglingRefs
  /\ Fail("danglingRef")
  /\ UNCHANGED <<validatorCache, memos>>

Definitions(gv) == {d \in Def : Home[d] = gv}

\* Mutant: the scope that a local CRD states is ignored.
InferredScope(d, gvk) == gvk \in NamespacedPaths[Home[d]]

\* The scope of the entry made for definition d while looking up gvk.
ScopeFor(d, gvk) ==
  IF ScopeExtension[d] = "absent"
  THEN gvk \in NamespacedPaths[Home[d]]
  ELSE ScopeExtension[d] = "Namespaced"

\* The definitions are visited in the order of a Go map, so any claimant of a
\* kind may be the last to be stored for it.
LastWriters(defs) ==
  LET claimed == UNION {Claims[d] : d \in defs}
  IN  {w \in [claimed -> defs] : \A k \in claimed : k \in Claims[w[k]]}

\* Mutant: a cache is made for every document.
StoredAfresh(gvk, w) ==
  [k \in GVK |-> IF k \in DOMAIN w
                 THEN [def |-> w[k], nsScoped |-> ScopeFor(w[k], gvk)]
                 ELSE NoEntry]

\* The cache after the entries of a document are stored.
Stored(gvk, w) ==
  [k \in GVK |-> IF k \in DOMAIN w
                 THEN [def |-> w[k], nsScoped |-> ScopeFor(w[k], gvk)]
                 ELSE validatorCache[k]]

Caches(gvk) == {Stored(gvk, w) : w \in LastWriters(Definitions(GVOf[gvk]))}

\* Mutant: the new entries share the schema validators of the old.
ForgetStructural(defs) == ss' = ss \ defs /\ UNCHANGED schemaValidator

\* New entries have empty memos.
Forget(defs) == ss' = ss \ defs /\ schemaValidator' = schemaValidator \ defs

\* All definitions of the document are stored, for the kind that is looked up
\* and every other kind they claim.
Populate ==
  /\ Fetching
  /\ GVOf[doc.gvk] \notin DanglingRefs
  /\ validatorCache' \in Caches(doc.gvk)
  /\ Forget(Definitions(GVOf[doc.gvk]))
  /\ \/ validatorCache'[doc.gvk] # NoEntry /\ Found(validatorCache'[doc.gvk])
     \/ validatorCache'[doc.gvk] = NoEntry /\ Fail("noKind")

-----------------------------------------------------------------------------
(***************************************************************************)
(* The rest of Parse: the structural schema, then strict decoding.         *)
(***************************************************************************)
Memoise(d) == IF d \in Cyclic THEN ss ELSE ss \cup {d}

\* Mutant: decoding is not strict.
Lenient(d, def) == TRUE

\* No field is unknown to the definition or given twice.
Strict(d, def) == def \in d.decodes

Decode ==
  /\ pc = "decode"
  /\ ss' = Memoise(entry.def)
  /\ \/ /\ entry.def \in Cyclic
        /\ Fail("noStructural")
     \/ /\ entry.def \notin Cyclic /\ ~Strict(doc, entry.def)
        /\ Fail("undecodable")
     \/ /\ entry.def \notin Cyclic /\ Strict(doc, entry.def)
        /\ Goto(IF Native THEN "native" ELSE "Validate")
        /\ entry' = NoEntry
  /\ UNCHANGED <<validatorCache, schemaValidator>>

(***************************************************************************)
(* The rest of Validate.  An object of a namespaced kind keeps its         *)
(* namespace, or gets "default", and the namespace is validated; the       *)
(* namespace of an object of a cluster-scoped kind is cleared.             *)
(***************************************************************************)
\* Mutant: the namespace is not validated.
AcceptsAnyNamespace(e, d) == e.def \in d.conforms

\* Mutant: only the namespace is validated.
AcceptsAnyContent(e, d) == e.nsScoped => d.namespace # "malformed"

Accepts(e, d) ==
  /\ e.nsScoped => d.namespace # "malformed"
  /\ e.def \in d.conforms

Create ==
  /\ pc = "create"
  /\ ss' = Memoise(entry.def)
  /\ \/ /\ entry.def \in Cyclic
        /\ Return("noStructural")
        /\ UNCHANGED schemaValidator
     \/ /\ entry.def \notin Cyclic
        /\ Return(IF Accepts(entry, doc) THEN "ok" ELSE "invalid")
        /\ schemaValidator' = schemaValidator \cup {entry.def}
  /\ UNCHANGED validatorCache

\* The handwritten validation of a CustomResourceDefinition.
ValidateNative ==
  /\ pc = "native"
  /\ Return(IF doc.native THEN "ok" ELSE "invalid")
  /\ UNCHANGED <<validatorCache, memos>>

Next ==
  \/ \E d \in Doc : ValidateDocument(d) \/ ValidateObject(d) \/ RejectUnidentified(d)
  \/ CacheHit
  \/ SpecNotLocated
  \/ FetchFails
  \/ FetchPanics
  \/ RefsDangle
  \/ Populate
  \/ Decode
  \/ Create
  \/ ValidateNative

(***************************************************************************)
(* Nothing bounds how long a fetch may take, nor whether it ever answers   *)
(* (no client sets a timeout).  Fairness is therefore only assumed of the  *)
(* steps that compute locally.                                             *)
(***************************************************************************)
Fairness ==
  /\ WF_vars(CacheHit)
  /\ WF_vars(SpecNotLocated)
  /\ WF_vars(Decode)
  /\ WF_vars(Create)
  /\ WF_vars(ValidateNative)

Spec == Init /\ [][Next]_vars

FairSpec == Spec /\ Fairness

-----------------------------------------------------------------------------
Cached(k) == validatorCache[k] # NoEntry

\* The calls whose verdict comes from an entry of the cache, not from the
\* CustomResourceDefinition strategy.
Judged(a) ==
  /\ a.verdict \in {"ok", "invalid", "undecodable", "noStructural"}
  /\ a.call = "object" \/ a.doc.gvk \notin CrdGVK

LookupFailures == {"noSpec", "fetchFailed", "danglingRef", "noKind"}

\* Every variable keeps its type, and the call in progress has an argument,
\* and an entry exactly while it works on one.
TypeOK ==
  /\ gvs \subseteq GroupVersion
  /\ validatorCache \in [GVK -> Entry \cup {NoEntry}]
  /\ ss \subseteq Def
  /\ schemaValidator \subseteq ss
  /\ pc \in {"ready", "Parse", "decode", "Validate", "create", "native", "panicked"}
  /\ call \in {"document", "object"}
  /\ doc \in Doc \cup {NoDoc}
  /\ entry \in Entry \cup {NoEntry}
  /\ (pc = "ready") <=> (doc = NoDoc)
  /\ pc # "ready" => doc.gvk \in GVK
  /\ (pc \in {"decode", "create"}) <=> (entry # NoEntry)
  /\ verdicts \in Seq(Answer)

\* Whatever the order of lookups, refetches and map iterations, a cached entry
\* is a definition that claims the kind, from a served document whose
\* references all resolve, with the scope its extension states; an entry of a
\* cluster whose document has no namespaced path is never namespaced unless the
\* extension says so.
EntriesExplained ==
  \A k \in GVK : Cached(k) =>
    LET e == validatorCache[k]
    IN  /\ k \in Claims[e.def]
        /\ Home[e.def] \in gvs \ DanglingRefs
        /\ ScopeExtension[e.def] # "absent" =>
             (e.nsScoped <=> ScopeExtension[e.def] = "Namespaced")
        /\ ScopeExtension[e.def] = "absent" /\ e.nsScoped =>
             NamespacedPaths[Home[e.def]] # {}

\* Between the two lookups of one ValidateDocument (Parse, then Validate) the
\* entry cannot change: the object is validated against the very definition it
\* was decoded and defaulted under, and never fetched for a second time; a
\* CustomResourceDefinition never gets that far, and nothing else is native.
ValidatedAsDecoded ==
  /\ (call = "document" /\ pc \in {"Validate", "create"}) =>
       /\ doc.gvk \notin CrdGVK
       /\ Cached(doc.gvk)
       /\ validatorCache[doc.gvk].def \in doc.decodes \ Cyclic
  /\ pc \in {"decode", "create"} => entry = validatorCache[doc.gvk]
  /\ pc \in {"Parse", "decode", "native"} => call = "document"
  /\ pc = "native" => doc.gvk \in CrdGVK

\* Once a kind has been judged by its schema, a later outage of its source
\* cannot turn an answer for that kind into a lookup failure.
OutageImmunity ==
  \A i, j \in 1..Len(verdicts) :
    (/\ i < j
     /\ Judged(verdicts[i])
     /\ verdicts[i].doc.gvk = verdicts[j].doc.gvk)
    => verdicts[j].verdict \notin LookupFailures

\* Why it cannot: a kind that was judged stays in the cache.
JudgedKindsCached ==
  \A i \in 1..Len(verdicts) :
    Judged(verdicts[i]) => verdicts[i].doc.gvk \in GVK /\ Cached(verdicts[i].doc.gvk)

\* The inductive invariant.
IInv == TypeOK /\ EntriesExplained /\ ValidatedAsDecoded /\ JudgedKindsCached

-----------------------------------------------------------------------------
Claimants(k) == {d \in Def : k \in Claims[d]}

\* A document whose verdict depends on no order: its kind has one claimant,
\* published by the kind's own group-version, and the scope of that definition
\* is stated, or makes no difference to the document.
Exact(k, def, d) ==
  /\ Claimants(k) = {def}
  /\ Home[def] = GVOf[k]
  /\ ScopeExtension[def] # "absent" \/ d.namespace # "malformed"

\* What such a document deserves.
Deserves(function, d, def) ==
  IF function = "document" /\ d.gvk \in CrdGVK
  THEN IF d.native THEN "ok" ELSE "invalid"
  ELSE IF def \in Cyclic THEN "noStructural"
  ELSE IF function = "document" /\ def \notin d.decodes THEN "undecodable"
  ELSE IF /\ def \in d.conforms
          /\ ScopeExtension[def] = "Namespaced" => d.namespace # "malformed"
       THEN "ok" ELSE "invalid"

\* However the calls before it filled the cache, such a document gets the
\* verdict it deserves or learns that its schema could not be had.
ExactVerdicts ==
  \A i \in 1..Len(verdicts), def \in Def :
    LET a == verdicts[i]
    IN  (a.doc.gvk \in GVK /\ Exact(a.doc.gvk, def, a.doc)) =>
          \/ a.verdict = Deserves(a.call, a.doc, def)
          \/ a.verdict = "fetchFailed"
          \/ a.verdict = "noSpec" /\ GVOf[a.doc.gvk] \notin gvs
          \/ a.verdict = "danglingRef" /\ GVOf[a.doc.gvk] \in DanglingRefs

\* The scope of an entry is inferred from the paths of its own kind.
ScopeFollowsPaths ==
  \A k \in GVK :
    (Cached(k) /\ ScopeExtension[validatorCache[k].def] = "absent") =>
      (validatorCache[k].nsScoped <=> k \in NamespacedPaths[Home[validatorCache[k].def]])

-----------------------------------------------------------------------------
\* No step drops a kind from the cache, or the memoised structural schema of a
\* definition other than by replacing all entries of its document at once.
NothingForgotten ==
  [][/\ \A k \in GVK : Cached(k) => Cached(k)'
     /\ \A d \in ss \ ss' : Definitions(Home[d]) \cap ss' = {}]_vars

\* A call for a kind in the cache is answered by local work alone: it ends even
\* if no fetch ever returns again.
CachedCallsEnd ==
  \A k \in GVK : (pc \in {"Parse", "Validate"} /\ doc.gvk = k /\ Cached(k)) ~> (pc = "ready")
-----------------------------------------------------------------------------
\* The validator implements the catalogue of known kinds: the catalogue is the
\* domain of the cache, so it only grows, every verdict is warranted by it when
\* given, and an accepted object satisfies a definition that claims its kind.
Catalogue == INSTANCE KindCatalogue
               WITH known <- {k \in GVK : Cached(k)}, answers <- verdicts

CatalogueSpec == Catalogue!Spec
=============================================================================
