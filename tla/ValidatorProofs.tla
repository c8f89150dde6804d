--------------------------- MODULE ValidatorProofs ---------------------------
(***************************************************************************)
(* Theorems about Validator, for all group-versions, documents, claims and *)
(* bounds.  The inductive invariant is the conjunction of the type         *)
(* invariant, the explanation of every cache entry, what is known between  *)
(* the two lookups of a call, and what the verdicts given so far imply.    *)
(***************************************************************************)
EXTENDS Validator, TLAPS

-----------------------------------------------------------------------------
(***************************************************************************)
(* The cache a population leaves.                                          *)
(***************************************************************************)

\* The scope of an entry is a truth value.
LEMMA ScopeForType ==
  ASSUME NEW d \in Def, NEW gvk \in GVK
  PROVE  ScopeFor(d, gvk) \in BOOLEAN
<1> DEFINE published == gvk \in NamespacedPaths[Home[d]]
           stated == ScopeExtension[d] = "Namespaced"
<1>1. published \in BOOLEAN /\ stated \in BOOLEAN
  OBVIOUS
<1>2. ScopeFor(d, gvk) = IF ScopeExtension[d] = "absent" THEN published ELSE stated
  BY DEF ScopeFor
<1> HIDE DEF published, stated
<1> QED BY <1>1, <1>2

\* Storing the entries of a document changes the kinds its definitions claim,
\* each to an entry for one of its claimants, and no other kind.
LEMMA CachesFacts ==
  ASSUME TypeOK, NEW gvk \in GVK, NEW c \in Caches(gvk)
  PROVE  /\ c \in [GVK -> Entry \cup {NoEntry}]
         /\ \A k \in GVK :
              \/ /\ c[k] = validatorCache[k]
                 /\ \A d \in Definitions(GVOf[gvk]) : k \notin Claims[d]
              \/ \E d \in Definitions(GVOf[gvk]) :
                    /\ k \in Claims[d]
                    /\ c[k] = [def |-> d, nsScoped |-> ScopeFor(d, gvk)]
<1> DEFINE defs == Definitions(GVOf[gvk])
           claimed == UNION {Claims[d] : d \in defs}
<1>1. PICK w \in [claimed -> defs] :
        (\A k \in claimed : k \in Claims[w[k]]) /\ c = Stored(gvk, w)
  BY DEF Caches, LastWriters
<1>2. defs \subseteq Def
  BY DEF Definitions
<1>3. \A k \in claimed : [def |-> w[k], nsScoped |-> ScopeFor(w[k], gvk)] \in Entry
  <2> SUFFICES ASSUME NEW k \in claimed
               PROVE  [def |-> w[k], nsScoped |-> ScopeFor(w[k], gvk)] \in Entry
    OBVIOUS
  <2>1. w[k] \in Def
    BY <1>1, <1>2
  <2>2. ScopeFor(w[k], gvk) \in BOOLEAN
    BY <2>1, ScopeForType
  <2> HIDE DEF claimed, defs
  <2> QED BY <2>1, <2>2 DEF Entry
<1>4. c \in [GVK -> Entry \cup {NoEntry}]
  BY <1>1, <1>3 DEF TypeOK, Stored
<1>5. ASSUME NEW k \in GVK
      PROVE  \/ c[k] = validatorCache[k] /\ \A d \in defs : k \notin Claims[d]
             \/ \E d \in defs :
                  /\ k \in Claims[d]
                  /\ c[k] = [def |-> d, nsScoped |-> ScopeFor(d, gvk)]
  <2>1. CASE k \in claimed
    <3>1. w[k] \in defs /\ k \in Claims[w[k]]
      BY <1>1, <2>1
    <3>2. c[k] = [def |-> w[k], nsScoped |-> ScopeFor(w[k], gvk)]
      BY <1>1, <2>1 DEF Stored
    <3> QED BY <3>1, <3>2
  <2>2. CASE k \notin claimed
    BY <1>1, <2>2 DEF Stored
  <2> QED BY <2>1, <2>2
<1> QED BY <1>4, <1>5

\* An entry is told from its absence.
LEMMA EntryIsNotNoEntry == NoEntry \notin Entry
BY NoEntryAssumption DEF Entry

\* After a population every kind that was in the cache still is.
LEMMA CachesGrow ==
  ASSUME TypeOK, NEW gvk \in GVK, NEW c \in Caches(gvk), NEW k \in GVK, Cached(k)
  PROVE  c[k] # NoEntry
<1>1. CASE c[k] = validatorCache[k]
  BY <1>1 DEF Cached
<1>2. CASE \E d \in Definitions(GVOf[gvk]) :
             c[k] = [def |-> d, nsScoped |-> ScopeFor(d, gvk)]
  <2>1. c[k] \in Entry
    BY <1>2, ScopeForType DEF Entry, Definitions
  <2> QED BY <2>1, EntryIsNotNoEntry
<1> QED BY <1>1, <1>2, CachesFacts

-----------------------------------------------------------------------------
(***************************************************************************)
(* Types.                                                                  *)
(***************************************************************************)

\* The documents are records, told from NoDoc.
LEMMA DocFacts ==
  /\ NoDoc \notin Doc
  /\ \A d \in Doc : d.gvk \in GVK \cup {NoGVK}
BY ConstantsAssumption DEF Document

\* Every way a call can return keeps the types.
LEMMA ReturnTypes ==
  ASSUME TypeOK, pc # "ready", NEW v \in Verdicts, Return(v),
         UNCHANGED validatorCache \/ validatorCache' \in [GVK -> Entry \cup {NoEntry}],
         ss' \subseteq Def, schemaValidator' \subseteq ss'
  PROVE  TypeOK'
<1>1. doc \in Doc
  BY DEF TypeOK
<1>2. [call |-> call, doc |-> doc, verdict |-> v] \in Answer
  BY <1>1 DEF Answer, TypeOK
<1>3. verdicts' \in Seq(Answer)
  BY <1>2 DEF Return, TypeOK
<1> QED BY <1>3 DEF Return, TypeOK

\* So does every failure of a lookup.
LEMMA FailTypes ==
  ASSUME TypeOK, pc # "ready", NEW v \in Verdicts, Fail(v),
         UNCHANGED validatorCache \/ validatorCache' \in [GVK -> Entry \cup {NoEntry}],
         ss' \subseteq Def, schemaValidator' \subseteq ss'
  PROVE  TypeOK'
<1>1. CASE Return(v)
  BY <1>1, ReturnTypes
<1>2. CASE Goto("native") /\ entry' = NoEntry
  BY <1>2 DEF Goto, TypeOK
<1> QED BY <1>1, <1>2 DEF Fail

\* Reaching an entry keeps the types.
LEMMA FoundTypes ==
  ASSUME TypeOK, InLookup, NEW e \in Entry, Found(e),
         UNCHANGED validatorCache \/ validatorCache' \in [GVK -> Entry \cup {NoEntry}],
         ss' \subseteq Def, schemaValidator' \subseteq ss'
  PROVE  TypeOK'
BY EntryIsNotNoEntry DEF Found, Goto, TypeOK, InLookup

\* Every step keeps the types.
LEMMA TypeStep == TypeOK /\ [Next]_vars => TypeOK'
<1> SUFFICES ASSUME TypeOK, [Next]_vars PROVE TypeOK'
  OBVIOUS
<1> USE DocFacts, EntryIsNotNoEntry
<1>1. ASSUME NEW d \in Doc, ValidateDocument(d) PROVE TypeOK'
  BY <1>1 DEF ValidateDocument, Begin, TypeOK, memos
<1>2. ASSUME NEW d \in Doc, ValidateObject(d) PROVE TypeOK'
  BY <1>2 DEF ValidateObject, Begin, TypeOK, memos
<1>3. ASSUME NEW d \in Doc, RejectUnidentified(d) PROVE TypeOK'
  <2>1. [call |-> "document", doc |-> d, verdict |-> "unidentified"] \in Answer
    BY DEF Answer, Verdicts
  <2>2. verdicts' \in Seq(Answer)
    BY <1>3, <2>1 DEF RejectUnidentified, TypeOK
  <2> QED BY <1>3, <2>2 DEF RejectUnidentified, TypeOK, memos
<1>4. CASE CacheHit
  <2>1. validatorCache[doc.gvk] \in Entry
    BY <1>4 DEF CacheHit, InLookup, TypeOK
  <2> QED BY <1>4, <2>1, FoundTypes DEF CacheHit, memos, TypeOK
<1>5. CASE SpecNotLocated
  BY <1>5, FailTypes DEF SpecNotLocated, CacheMiss, InLookup, memos, TypeOK, Verdicts
<1>6. CASE FetchFails
  BY <1>6, FailTypes DEF FetchFails, Fetching, CacheMiss, InLookup, memos, TypeOK, Verdicts
<1>7. CASE FetchPanics
  BY <1>7 DEF FetchPanics, Fetching, CacheMiss, InLookup, memos, Goto, TypeOK
<1>8. CASE RefsDangle
  BY <1>8, FailTypes DEF RefsDangle, Fetching, CacheMiss, InLookup, memos, TypeOK, Verdicts
<1>9. CASE Populate
  <2>1. InLookup /\ doc.gvk \in GVK /\ pc # "ready"
    BY <1>9 DEF Populate, Fetching, CacheMiss, InLookup, TypeOK
  <2>2. validatorCache' \in [GVK -> Entry \cup {NoEntry}]
    BY <1>9, <2>1, CachesFacts DEF Populate
  <2>3. ss' \subseteq Def /\ schemaValidator' \subseteq ss'
    BY <1>9 DEF Populate, Forget, TypeOK
  <2>4. CASE validatorCache'[doc.gvk] # NoEntry /\ Found(validatorCache'[doc.gvk])
    BY <2>1, <2>2, <2>3, <2>4, FoundTypes
  <2>5. CASE Fail("noKind")
    BY <2>1, <2>2, <2>3, <2>5, FailTypes DEF Verdicts
  <2> QED BY <1>9, <2>4, <2>5 DEF Populate
<1>10. CASE Decode
  <2>1. entry.def \in Def /\ pc # "ready"
    BY <1>10 DEF Decode, TypeOK, Entry
  <2>2. ss' \subseteq Def /\ schemaValidator' \subseteq ss'
    BY <1>10, <2>1 DEF Decode, Memoise, TypeOK
  <2>3. CASE Fail("noStructural") \/ Fail("undecodable")
    BY <1>10, <2>1, <2>2, <2>3, FailTypes DEF Decode, Verdicts
  <2>4. CASE Goto(IF Native THEN "native" ELSE "Validate") /\ entry' = NoEntry
    BY <1>10, <2>2, <2>4 DEF Decode, Goto, TypeOK
  <2> QED BY <1>10, <2>3, <2>4 DEF Decode
<1>11. CASE Create
  <2>1. entry.def \in Def /\ pc # "ready"
    BY <1>11 DEF Create, TypeOK, Entry
  <2>2. ss' \subseteq Def /\ schemaValidator' \subseteq ss'
    BY <1>11, <2>1 DEF Create, Memoise, TypeOK
  <2>3. PICK v \in Verdicts : Return(v)
    BY <1>11 DEF Create, Verdicts
  <2> QED BY <1>11, <2>1, <2>2, <2>3, ReturnTypes DEF Create
<1>12. CASE ValidateNative
  BY <1>12, ReturnTypes DEF ValidateNative, memos, TypeOK, Verdicts
<1>13. CASE UNCHANGED vars
  BY <1>13 DEF vars, TypeOK
<1> QED
  BY <1>1, <1>2, <1>3, <1>4, <1>5, <1>6, <1>7, <1>8, <1>9, <1>10, <1>11, <1>12,
     <1>13 DEF Next

\* Every variable keeps its type in every behaviour, whatever the constants.
THEOREM TypeCorrect == Spec => []TypeOK
<1>1. Init => TypeOK
  BY DocFacts DEF Init, TypeOK
<1> QED BY <1>1, TypeStep, PTL DEF Spec

-----------------------------------------------------------------------------
(***************************************************************************)
(* The entries of the cache.                                               *)
(***************************************************************************)

\* What EntriesExplained says of one kind and one entry.
EntryExplained(k, e) ==
  /\ k \in Claims[e.def]
  /\ Home[e.def] \in gvs \ DanglingRefs
  /\ ScopeExtension[e.def] # "absent" =>
       (e.nsScoped <=> ScopeExtension[e.def] = "Namespaced")
  /\ ScopeExtension[e.def] = "absent" /\ e.nsScoped =>
       NamespacedPaths[Home[e.def]] # {}

\* Steps other than Populate leave the cache alone; none changes the fetchers.
LEMMA CacheSteps ==
  ASSUME [Next]_vars
  PROVE  gvs' = gvs /\ (UNCHANGED validatorCache \/ Populate)
BY DEF Next, vars, ValidateDocument, ValidateObject, RejectUnidentified, Begin,
       CacheHit, SpecNotLocated, FetchFails, FetchPanics, RefsDangle, Populate,
       Decode, Create, ValidateNative, Fail, Found, Goto, Return

\* Every step keeps the entries explained.
LEMMA EntriesStep ==
  TypeOK /\ EntriesExplained /\ [Next]_vars => EntriesExplained'
<1> SUFFICES ASSUME TypeOK, EntriesExplained, [Next]_vars
             PROVE  EntriesExplained'
  OBVIOUS
<1>1. gvs' = gvs
  BY CacheSteps
<1>2. CASE UNCHANGED validatorCache
  BY <1>1, <1>2 DEF EntriesExplained, Cached
<1>3. CASE Populate
  <2>1. doc.gvk \in GVK /\ GVOf[doc.gvk] \in gvs \ DanglingRefs
    BY <1>3 DEF Populate, Fetching, CacheMiss, InLookup, TypeOK
  <2>2. SUFFICES ASSUME NEW k \in GVK, Cached(k)'
                 PROVE  EntryExplained(k, validatorCache'[k])
    BY <1>1, <2>2 DEF EntriesExplained, EntryExplained
  <2>3. CASE validatorCache'[k] = validatorCache[k]
    BY <2>2, <2>3 DEF EntriesExplained, EntryExplained, Cached
  <2>4. CASE \E d \in Definitions(GVOf[doc.gvk]) :
               /\ k \in Claims[d]
               /\ validatorCache'[k] = [def |-> d, nsScoped |-> ScopeFor(d, doc.gvk)]
    <3>1. PICK d \in Definitions(GVOf[doc.gvk]) :
               /\ k \in Claims[d]
               /\ validatorCache'[k] = [def |-> d, nsScoped |-> ScopeFor(d, doc.gvk)]
      BY <2>4
    <3>2. d \in Def /\ Home[d] = GVOf[doc.gvk]
      BY DEF Definitions
    <3>3. validatorCache'[k].def = d /\ validatorCache'[k].nsScoped = ScopeFor(d, doc.gvk)
      BY <3>1
    <3>4. ScopeExtension[d] # "absent" =>
            (ScopeFor(d, doc.gvk) <=> ScopeExtension[d] = "Namespaced")
      BY DEF ScopeFor
    <3>5. ScopeExtension[d] = "absent" /\ ScopeFor(d, doc.gvk) =>
            NamespacedPaths[Home[d]] # {}
      BY DEF ScopeFor
    <3> QED BY <2>1, <3>1, <3>2, <3>3, <3>4, <3>5 DEF EntryExplained
  <2> QED BY <1>3, <2>1, <2>3, <2>4, CachesFacts DEF Populate
<1> QED BY <1>2, <1>3, CacheSteps

\* No step drops a kind from the cache.
LEMMA CachedStep ==
  ASSUME TypeOK, [Next]_vars, NEW k \in GVK, Cached(k)
  PROVE  Cached(k)'
<1>1. CASE UNCHANGED validatorCache
  BY <1>1 DEF Cached
<1>2. CASE Populate
  <2>1. doc.gvk \in GVK
    BY <1>2 DEF Populate, Fetching, CacheMiss, InLookup, TypeOK
  <2>2. validatorCache' \in Caches(doc.gvk)
    BY <1>2 DEF Populate
  <2> QED BY <2>1, <2>2, CachesGrow DEF Cached
<1> QED BY <1>1, <1>2, CacheSteps

-----------------------------------------------------------------------------
(***************************************************************************)
(* The call in progress.                                                   *)
(***************************************************************************)

\* The cache changes only in a lookup that misses, so not between Decode and
\* the second lookup: what was decoded under is what is validated against.
LEMMA CallStep ==
  TypeOK /\ ValidatedAsDecoded /\ [Next]_vars => ValidatedAsDecoded'
<1> SUFFICES ASSUME TypeOK, ValidatedAsDecoded, [Next]_vars
             PROVE  ValidatedAsDecoded'
  OBVIOUS
<1>1. ASSUME NEW d \in Doc, ValidateDocument(d) \/ ValidateObject(d)
      PROVE  ValidatedAsDecoded'
  BY <1>1 DEF ValidateDocument, ValidateObject, Begin, ValidatedAsDecoded, Cached
<1>2. ASSUME NEW d \in Doc, RejectUnidentified(d) PROVE ValidatedAsDecoded'
  BY <1>2 DEF RejectUnidentified, ValidatedAsDecoded, Cached
<1>3. CASE CacheHit
  BY <1>3 DEF CacheHit, InLookup, Found, Goto, ValidatedAsDecoded, Cached
<1>4. ASSUME NEW v, Fail(v), pc # "ready" PROVE ValidatedAsDecoded'
  BY <1>4 DEF Fail, Native, Goto, Return, ValidatedAsDecoded, TypeOK
<1>5. CASE FetchPanics
  BY <1>5 DEF FetchPanics, Goto, ValidatedAsDecoded, Cached
<1>6. CASE Populate
  <2>1. Fetching /\ InLookup /\ ~Cached(doc.gvk)
    BY <1>6 DEF Populate, Fetching, CacheMiss, Cached
  <2>2. ASSUME Found(validatorCache'[doc.gvk]) PROVE ValidatedAsDecoded'
    BY <2>1, <2>2 DEF Found, Goto, InLookup, ValidatedAsDecoded, Cached
  <2> QED BY <1>4, <1>6, <2>1, <2>2 DEF Populate, InLookup
<1>7. CASE Decode
  <2>1. CASE \E v : Fail(v)
    BY <1>4, <1>7, <2>1 DEF Decode
  <2>2. CASE /\ entry.def \notin Cyclic /\ Strict(doc, entry.def)
             /\ Goto(IF Native THEN "native" ELSE "Validate")
    BY <1>7, <2>2 DEF Decode, Strict, Goto, Native, ValidatedAsDecoded, Cached, TypeOK
  <2> QED BY <1>7, <2>1, <2>2 DEF Decode
<1>8. ASSUME NEW v, Return(v) PROVE ValidatedAsDecoded'
  BY <1>8 DEF Return, ValidatedAsDecoded
<1>9. CASE UNCHANGED vars
  BY <1>9 DEF vars, ValidatedAsDecoded, Cached
<1>10. CASE SpecNotLocated \/ FetchFails \/ RefsDangle
  BY <1>4, <1>10 DEF SpecNotLocated, FetchFails, RefsDangle, Fetching, CacheMiss, InLookup
<1>11. CASE Create \/ ValidateNative
  BY <1>8, <1>11 DEF Create, ValidateNative
<1> QED
  BY <1>1, <1>2, <1>3, <1>5, <1>6, <1>7, <1>9, <1>10, <1>11 DEF Next

-----------------------------------------------------------------------------
(***************************************************************************)
(* What every answer rests on.                                             *)
(***************************************************************************)

ByHand(function, d) == function = "document" /\ d.gvk \in CrdGVK

\* The judgement of d by entry e.
Outcome(function, d, e) ==
  IF e.def \in Cyclic THEN "noStructural"
  ELSE IF function = "document" /\ e.def \notin d.decodes THEN "undecodable"
  ELSE IF Accepts(e, d) THEN "ok" ELSE "invalid"

\* The reasons for a lookup to fail.
Missed(k, verdict) ==
  \/ verdict = "noSpec" /\ GVOf[k] \notin gvs
  \/ verdict = "fetchFailed"
  \/ verdict = "danglingRef" /\ GVOf[k] \in DanglingRefs
  \/ verdict = "noKind" /\ \A def \in Definitions(GVOf[k]) : k \notin Claims[def]

\* The reasons for an answer, given the cache it leaves.
Explained(cache, function, d, verdict) ==
  \/ d.gvk = NoGVK /\ verdict = "unidentified"
  \/ /\ d.gvk \in GVK
     /\ \/ /\ ByHand(function, d)
           /\ verdict = IF d.native THEN "ok" ELSE "invalid"
        \/ /\ ~ByHand(function, d)
           /\ cache[d.gvk] = NoEntry
           /\ Missed(d.gvk, verdict)
        \/ /\ ~ByHand(function, d)
           /\ cache[d.gvk] # NoEntry
           /\ verdict = Outcome(function, d, cache[d.gvk])

Answers(function, d, verdict) ==
  /\ verdicts' = Append(verdicts, [call |-> function, doc |-> d, verdict |-> verdict])
  /\ Explained(validatorCache', function, d, verdict)

\* A lookup that fails for a reason either answers with it or, for a
\* CustomResourceDefinition, goes on to the handwritten validation.
LEMMA FailFacts ==
  ASSUME TypeOK, ValidatedAsDecoded, InLookup, NEW v, Fail(v),
         validatorCache'[doc.gvk] = NoEntry, Missed(doc.gvk, v)
  PROVE  UNCHANGED verdicts \/ Answers(call, doc, v)
<1>1. CASE Native
  BY <1>1 DEF Fail, Goto
<1>2. CASE ~Native
  <2>1. ~ByHand(call, doc)
    BY <1>2 DEF ByHand, Native, InLookup, ValidatedAsDecoded
  <2>2. doc.gvk \in GVK
    BY DEF InLookup, TypeOK
  <2> QED BY <1>2, <2>1, <2>2 DEF Fail, Return, Answers, Explained
<1> QED BY <1>1, <1>2

\* Every step answers nothing or gives one answer, for a reason.
LEMMA AnswerFacts ==
  ASSUME TypeOK, ValidatedAsDecoded, [Next]_vars
  PROVE  \/ UNCHANGED verdicts
         \/ \E function \in {"document", "object"}, d \in Doc, v \in Verdicts :
              Answers(function, d, v)
<1> USE DEF Verdicts
<1> DEFINE Goal == \E function \in {"document", "object"}, d \in Doc, v \in Verdicts :
                     Answers(function, d, v)
<1>0. ASSUME NEW v \in Verdicts, Answers(call, doc, v), pc # "ready" PROVE Goal
  BY <1>0 DEF TypeOK
<1>1. ASSUME NEW d \in Doc, ValidateDocument(d) \/ ValidateObject(d)
      PROVE  UNCHANGED verdicts
  BY <1>1 DEF ValidateDocument, ValidateObject, Begin
<1>2. ASSUME NEW d \in Doc, RejectUnidentified(d) PROVE Goal
  <2>1. Answers("document", d, "unidentified")
    BY <1>2 DEF RejectUnidentified, Answers, Explained
  <2> QED BY <2>1
<1>3. CASE CacheHit \/ FetchPanics \/ UNCHANGED vars
  BY <1>3 DEF CacheHit, FetchPanics, Found, Goto, vars
<1>4. CASE SpecNotLocated
  <2>1. Missed(doc.gvk, "noSpec") /\ InLookup /\ validatorCache'[doc.gvk] = NoEntry
    BY <1>4 DEF SpecNotLocated, CacheMiss, Missed
  <2> QED BY <1>0, <1>4, <2>1, FailFacts DEF SpecNotLocated, InLookup
<1>5. CASE FetchFails
  <2>1. Missed(doc.gvk, "fetchFailed") /\ InLookup /\ validatorCache'[doc.gvk] = NoEntry
    BY <1>5 DEF FetchFails, Fetching, CacheMiss, Missed
  <2> QED BY <1>0, <1>5, <2>1, FailFacts DEF FetchFails, InLookup
<1>6. CASE RefsDangle
  <2>1. Missed(doc.gvk, "danglingRef") /\ InLookup /\ validatorCache'[doc.gvk] = NoEntry
    BY <1>6 DEF RefsDangle, Fetching, CacheMiss, Missed
  <2> QED BY <1>0, <1>6, <2>1, FailFacts DEF RefsDangle, InLookup
<1>7. CASE Populate
  <2>1. InLookup /\ doc.gvk \in GVK /\ pc # "ready"
    BY <1>7 DEF Populate, Fetching, CacheMiss, InLookup, TypeOK
  <2>2. CASE Found(validatorCache'[doc.gvk])
    BY <2>2 DEF Found, Goto
  <2>3. CASE validatorCache'[doc.gvk] = NoEntry /\ Fail("noKind")
    <3>1. \A def \in Definitions(GVOf[doc.gvk]) : doc.gvk \notin Claims[def]
      <4> SUFFICES ASSUME NEW d \in Definitions(GVOf[doc.gvk]),
                          validatorCache'[doc.gvk] =
                            [def |-> d, nsScoped |-> ScopeFor(d, doc.gvk)]
                   PROVE  FALSE
        BY <1>7, <2>1, CachesFacts DEF Populate
      <4>1. validatorCache'[doc.gvk] \in Entry
        BY ScopeForType, <2>1 DEF Entry, Definitions
      <4> QED BY <2>3, <4>1, EntryIsNotNoEntry
    <3> QED BY <1>0, <2>1, <2>3, <3>1, FailFacts DEF Missed
  <2> QED BY <1>7, <2>2, <2>3 DEF Populate
<1>8. CASE Decode
  <2>1. CASE Goto("native") \/ Goto("Validate")
    BY <2>1 DEF Goto
  <2>2. ASSUME NEW v \in Verdicts, Return(v), ~Native,
               v = Outcome("document", doc, entry)
        PROVE  Goal
    <3>1. /\ doc.gvk \in GVK /\ entry = validatorCache'[doc.gvk] /\ entry # NoEntry
          /\ call = "document" /\ ~ByHand(call, doc)
      BY <1>8, <2>2 DEF Decode, TypeOK, ValidatedAsDecoded, ByHand, Native
    <3>2. Answers(call, doc, v)
      BY <2>2, <3>1 DEF Answers, Explained, Return
    <3> QED BY <1>0, <1>8, <3>2 DEF Decode
  <2>3. CASE entry.def \in Cyclic /\ Fail("noStructural")
    BY <2>1, <2>2, <2>3 DEF Fail, Outcome
  <2>4. CASE entry.def \notin Cyclic /\ ~Strict(doc, entry.def) /\ Fail("undecodable")
    BY <2>1, <2>2, <2>4 DEF Fail, Outcome, Strict
  <2> QED BY <1>8, <2>1, <2>3, <2>4 DEF Decode
<1>9. CASE Create
  <2>1. /\ doc.gvk \in GVK /\ entry = validatorCache'[doc.gvk] /\ entry # NoEntry
        /\ ~ByHand(call, doc) /\ pc # "ready"
    BY <1>9 DEF Create, TypeOK, ValidatedAsDecoded, ByHand
  <2>2. call = "document" => entry.def \in doc.decodes \ Cyclic
    BY <1>9 DEF Create, ValidatedAsDecoded
  <2>3. PICK v \in Verdicts : Return(v) /\ v = Outcome(call, doc, entry)
    BY <1>9, <2>2 DEF Create, Outcome
  <2>4. Answers(call, doc, v)
    BY <2>1, <2>3 DEF Answers, Explained, Return
  <2> QED BY <1>0, <2>1, <2>4
<1>10. CASE ValidateNative
  <2>1. call = "document" /\ doc.gvk \in CrdGVK /\ doc.gvk \in GVK /\ pc # "ready"
    BY <1>10, ConstantsAssumption DEF ValidateNative, ValidatedAsDecoded
  <2>2. Answers(call, doc, IF doc.native THEN "ok" ELSE "invalid")
    BY <1>10, <2>1 DEF ValidateNative, Return, Answers, Explained, ByHand
  <2> QED BY <1>0, <2>1, <2>2
<1> QED
  BY <1>1, <1>2, <1>3, <1>4, <1>5, <1>6, <1>7, <1>8, <1>9, <1>10 DEF Next

-----------------------------------------------------------------------------
(***************************************************************************)
(* The answers given so far.                                               *)
(***************************************************************************)

\* An answer is added behind the others and changes none of them.
LEMMA AppendFacts ==
  ASSUME TypeOK, NEW a \in Answer, verdicts' = Append(verdicts, a)
  PROVE  /\ Len(verdicts') = Len(verdicts) + 1
         /\ Len(verdicts) \in Nat
         /\ \A i \in 1..Len(verdicts) : verdicts'[i] = verdicts[i] /\ verdicts[i] \in Answer
         /\ verdicts'[Len(verdicts) + 1] = a
BY DEF TypeOK

\* A judged kind is in the cache the judgement leaves.
LEMMA JudgementFacts ==
  ASSUME NEW cache, NEW function, NEW d \in Doc, NEW v,
         Explained(cache, function, d, v),
         Judged([call |-> function, doc |-> d, verdict |-> v]),
         function \in {"document", "object"}
  PROVE  d.gvk \in GVK /\ cache[d.gvk] # NoEntry
BY DEF Explained, Judged, ByHand, Missed

\* A lookup for a kind the cache holds does not fail.
LEMMA NoFailureWhenCached ==
  ASSUME NEW cache, NEW function, NEW d \in Doc, NEW v,
         Explained(cache, function, d, v),
         d.gvk \in GVK, cache[d.gvk] # NoEntry
  PROVE  v \notin LookupFailures
BY ConstantsAssumption DEF Explained, ByHand, Outcome, LookupFailures

LEMMA JudgedStep ==
  TypeOK /\ ValidatedAsDecoded /\ JudgedKindsCached /\ [Next]_vars => JudgedKindsCached'
<1> SUFFICES ASSUME TypeOK, ValidatedAsDecoded, JudgedKindsCached, [Next]_vars
             PROVE  JudgedKindsCached'
  OBVIOUS
<1>1. CASE UNCHANGED verdicts
  BY <1>1, CachedStep DEF JudgedKindsCached, Judged
<1>2. ASSUME NEW function \in {"document", "object"}, NEW d \in Doc, NEW v \in Verdicts,
             Answers(function, d, v)
      PROVE  JudgedKindsCached'
  <2> DEFINE a == [call |-> function, doc |-> d, verdict |-> v]
  <2>1. a \in Answer /\ verdicts' = Append(verdicts, a)
    BY <1>2 DEF Answers, Answer
  <2>2. SUFFICES ASSUME NEW i \in 1..Len(verdicts'), Judged(verdicts'[i])
                 PROVE  /\ verdicts'[i].doc.gvk \in GVK
                        /\ validatorCache'[verdicts'[i].doc.gvk] # NoEntry
    BY <2>2 DEF JudgedKindsCached, Judged, Cached
  <2>3. CASE i \in 1..Len(verdicts)
    <3>1. verdicts'[i] = verdicts[i]
      BY <2>1, <2>3, AppendFacts
    <3>2. verdicts[i].doc.gvk \in GVK /\ Cached(verdicts[i].doc.gvk)
      BY <2>2, <2>3, <3>1 DEF JudgedKindsCached
    <3> QED BY <3>1, <3>2, CachedStep DEF Cached
  <2>4. CASE i = Len(verdicts) + 1
    <3>1. verdicts'[i] = a
      BY <2>1, <2>4, AppendFacts
    <3>2. a.doc.gvk \in GVK /\ validatorCache'[a.doc.gvk] # NoEntry
      BY <1>2, <2>2, <3>1, JudgementFacts DEF Answers
    <3> QED BY <3>1, <3>2
  <2> QED BY <2>1, <2>3, <2>4, AppendFacts
<1> QED BY <1>1, <1>2, AnswerFacts

\* The inductive invariant holds in every behaviour.
THEOREM Invariance == Spec => []IInv
<1>1. Init => IInv
  <2> SUFFICES ASSUME Init PROVE IInv
    OBVIOUS
  <2>1. TypeOK
    BY DocFacts DEF Init, TypeOK
  <2>2. EntriesExplained /\ ValidatedAsDecoded /\ JudgedKindsCached
    BY DEF Init, EntriesExplained, ValidatedAsDecoded, JudgedKindsCached, Cached
  <2> QED BY <2>1, <2>2 DEF IInv
<1>2. IInv /\ [Next]_vars => IInv'
  BY TypeStep, EntriesStep, CallStep, JudgedStep DEF IInv
<1> QED BY <1>1, <1>2, PTL DEF Spec

\* Every cached entry is explained by a served document, in every behaviour.
THEOREM EntriesAlwaysExplained == Spec => []EntriesExplained
BY Invariance, PTL DEF IInv

\* ValidateDocument validates an object against what it decoded it under.
THEOREM AlwaysValidatedAsDecoded == Spec => []ValidatedAsDecoded
BY Invariance, PTL DEF IInv

\* An outage never undoes what the validator has learned of a kind.
THEOREM AlwaysOutageImmune == Spec => []OutageImmunity
<1>1. Init => OutageImmunity
  BY DEF Init, OutageImmunity
<1>2. IInv /\ OutageImmunity /\ [Next]_vars => OutageImmunity'
  <2> SUFFICES ASSUME IInv, OutageImmunity, [Next]_vars PROVE OutageImmunity'
    OBVIOUS
  <2>0. TypeOK /\ ValidatedAsDecoded /\ JudgedKindsCached
    BY DEF IInv
  <2>1. CASE UNCHANGED verdicts
    BY <2>1 DEF OutageImmunity, Judged
  <2>2. ASSUME NEW function \in {"document", "object"}, NEW d \in Doc,
               NEW v \in Verdicts, Answers(function, d, v)
        PROVE  OutageImmunity'
    <3> DEFINE a == [call |-> function, doc |-> d, verdict |-> v]
    <3>1. a \in Answer /\ verdicts' = Append(verdicts, a)
      BY <2>2 DEF Answers, Answer
    <3>2. SUFFICES ASSUME NEW i \in 1..Len(verdicts'), NEW j \in 1..Len(verdicts'),
                          i < j, Judged(verdicts'[i]),
                          verdicts'[i].doc.gvk = verdicts'[j].doc.gvk
                   PROVE  verdicts'[j].verdict \notin LookupFailures
      BY <3>2 DEF OutageImmunity, Judged
    <3>3. i \in 1..Len(verdicts) /\ verdicts'[i] = verdicts[i]
      BY <2>0, <3>1, <3>2, AppendFacts
    <3>4. CASE j \in 1..Len(verdicts)
      BY <2>0, <3>1, <3>2, <3>3, <3>4, AppendFacts DEF OutageImmunity
    <3>5. CASE j = Len(verdicts) + 1
      <4>1. verdicts'[j] = a
        BY <2>0, <3>1, <3>5, AppendFacts
      <4>2. d.gvk \in GVK /\ Cached(d.gvk)
        BY <2>0, <3>2, <3>3, <4>1 DEF JudgedKindsCached
      <4>3. validatorCache'[d.gvk] # NoEntry
        BY <2>0, <4>2, CachedStep DEF Cached
      <4> QED BY <2>2, <4>1, <4>2, <4>3, NoFailureWhenCached DEF Answers
    <3> QED BY <2>0, <3>1, <3>4, <3>5, AppendFacts
  <2> QED BY <2>0, <2>1, <2>2, AnswerFacts
<1> QED BY <1>1, <1>2, Invariance, PTL DEF Spec

-----------------------------------------------------------------------------
(***************************************************************************)
(* Exact verdicts.                                                         *)
(***************************************************************************)

\* What ExactVerdicts allows an answer to be.
Deserved(a, def) ==
  \/ a.verdict = Deserves(a.call, a.doc, def)
  \/ a.verdict = "fetchFailed"
  \/ a.verdict = "noSpec" /\ GVOf[a.doc.gvk] \notin gvs
  \/ a.verdict = "danglingRef" /\ GVOf[a.doc.gvk] \in DanglingRefs

\* The entry of a kind with a single claimant judges as the claimant deserves,
\* whichever lookup made the entry.
LEMMA ExactOutcome ==
  ASSUME NEW def \in Def, NEW d \in Doc, NEW function, NEW e \in Entry,
         EntryExplained(d.gvk, e), d.gvk \in GVK, Exact(d.gvk, def, d),
         ~ByHand(function, d)
  PROVE  Outcome(function, d, e) = Deserves(function, d, def)
<1>1. e.def = def
  BY DEF EntryExplained, Entry, Exact, Claimants
<1>2. (e.nsScoped => d.namespace # "malformed") <=>
        (ScopeExtension[def] = "Namespaced" => d.namespace # "malformed")
  BY <1>1 DEF Exact, EntryExplained
<1> QED BY <1>1, <1>2 DEF Outcome, Deserves, Accepts, ByHand

\* Whatever was looked up before, in whatever order the definitions were
\* visited, an exact document gets the verdict it deserves, or its schema could
\* not be had.
THEOREM AlwaysExact == Spec => []ExactVerdicts
<1>1. Init => ExactVerdicts
  BY DEF Init, ExactVerdicts
<1>2. IInv /\ IInv' /\ ExactVerdicts /\ [Next]_vars => ExactVerdicts'
  <2> SUFFICES ASSUME IInv, IInv', ExactVerdicts, [Next]_vars PROVE ExactVerdicts'
    OBVIOUS
  <2>0. /\ TypeOK /\ ValidatedAsDecoded /\ TypeOK' /\ EntriesExplained'
        /\ gvs' = gvs
    BY CacheSteps DEF IInv
  <2>1. CASE UNCHANGED verdicts
    BY <2>0, <2>1 DEF ExactVerdicts
  <2>2. ASSUME NEW function \in {"document", "object"}, NEW d \in Doc,
               NEW v \in Verdicts, Answers(function, d, v)
        PROVE  ExactVerdicts'
    <3> DEFINE a == [call |-> function, doc |-> d, verdict |-> v]
    <3>1. a \in Answer /\ verdicts' = Append(verdicts, a)
      BY <2>2 DEF Answers, Answer
    <3>2. ASSUME NEW def \in Def, d.gvk \in GVK, Exact(d.gvk, def, d)
          PROVE  Deserved(a, def)
      <4>1. CASE ByHand(function, d)
        BY <2>2, <3>2, <4>1, ConstantsAssumption DEF Answers, Explained, Deserved, Deserves, ByHand
      <4>2. CASE ~ByHand(function, d) /\ Missed(d.gvk, v)
        <5>1. def \in Definitions(GVOf[d.gvk]) /\ d.gvk \in Claims[def]
          BY <3>2 DEF Exact, Claimants, Definitions
        <5> QED BY <4>2, <5>1 DEF Missed, Deserved
      <4>3. CASE /\ ~ByHand(function, d)
                 /\ validatorCache'[d.gvk] # NoEntry
                 /\ v = Outcome(function, d, validatorCache'[d.gvk])
        <5>1. validatorCache'[d.gvk] \in Entry
          BY <2>0, <3>2, <4>3 DEF TypeOK
        <5>2. EntryExplained(d.gvk, validatorCache'[d.gvk])
          BY <2>0, <3>2, <4>3 DEF EntriesExplained, EntryExplained, Cached
        <5>3. Outcome(function, d, validatorCache'[d.gvk]) = Deserves(function, d, def)
          BY <3>2, <4>3, <5>1, <5>2, ExactOutcome
        <5> QED BY <4>3, <5>3 DEF Deserved
      <4> QED
        BY <2>2, <3>2, <4>1, <4>2, <4>3, ConstantsAssumption DEF Answers, Explained
    <3>3. SUFFICES ASSUME NEW i \in 1..Len(verdicts'), NEW def \in Def,
                          verdicts'[i].doc.gvk \in GVK,
                          Exact(verdicts'[i].doc.gvk, def, verdicts'[i].doc)
                   PROVE  Deserved(verdicts'[i], def)
      BY <2>0, <3>3 DEF ExactVerdicts, Deserved
    <3>4. CASE i \in 1..Len(verdicts)
      <4>1. verdicts'[i] = verdicts[i]
        BY <2>0, <3>1, <3>4, AppendFacts
      <4> QED BY <3>3, <3>4, <4>1 DEF ExactVerdicts, Deserved
    <3>5. CASE i = Len(verdicts) + 1
      <4>1. verdicts'[i] = a
        BY <2>0, <3>1, <3>5, AppendFacts
      <4> QED BY <3>2, <3>3, <4>1
    <3> QED BY <2>0, <3>1, <3>4, <3>5, AppendFacts
  <2> QED BY <2>0, <2>1, <2>2, AnswerFacts
<1> QED BY <1>1, <1>2, Invariance, PTL DEF Spec

-----------------------------------------------------------------------------
(***************************************************************************)
(* What the cache and the memos never lose.                                *)
(***************************************************************************)

\* Kinds are never dropped, and memos only with all entries of their document.
THEOREM NothingIsForgotten == Spec => NothingForgotten
<1> DEFINE Kept == /\ \A k \in GVK : Cached(k) => Cached(k)'
                   /\ \A d \in ss \ ss' : Definitions(Home[d]) \cap ss' = {}
<1>1. TypeOK /\ [Next]_vars => [Kept]_vars
  <2> SUFFICES ASSUME TypeOK, [Next]_vars PROVE Kept
    OBVIOUS
  <2>1. \A k \in GVK : Cached(k) => Cached(k)'
    BY CachedStep
  <2>2. CASE ss \subseteq ss'
    BY <2>1, <2>2
  <2>3. CASE Populate
    BY <2>1, <2>3 DEF Populate, Forget, Definitions
  <2>4. ss \subseteq ss' \/ Populate
    BY DEF Next, vars, memos, ValidateDocument, ValidateObject, RejectUnidentified,
           Begin, CacheHit, SpecNotLocated, FetchFails, FetchPanics, RefsDangle,
           Decode, Create, ValidateNative, Memoise
  <2> QED BY <2>2, <2>3, <2>4
<1> QED BY <1>1, TypeCorrect, PTL DEF Spec, NothingForgotten

-----------------------------------------------------------------------------
(***************************************************************************)
(* The catalogue of known kinds.                                           *)
(***************************************************************************)

\* The validator implements KindCatalogue: known kinds only grow, and every
\* answer is warranted by the kinds known when it is given.
THEOREM ImplementsCatalogue == Spec => CatalogueSpec
<1>1. Init => Catalogue!Init
  BY DEF Init, Catalogue!Init, Cached
<1>2. IInv /\ IInv' /\ [Next]_vars => [Catalogue!Next]_(Catalogue!catalogue)
  <2> SUFFICES ASSUME IInv, IInv', [Next]_vars
               PROVE  Catalogue!Next \/ UNCHANGED Catalogue!catalogue
    OBVIOUS
  <2> DEFINE K == {k \in GVK : Cached(k)}
  <2>0. TypeOK /\ ValidatedAsDecoded /\ TypeOK' /\ EntriesExplained'
    BY DEF IInv
  <2>1. Catalogue!Grow
    BY <2>0, CachedStep DEF Catalogue!Grow
  <2>2. CASE UNCHANGED verdicts
    BY <2>1, <2>2 DEF Catalogue!Next, Catalogue!Learn
  <2>3. ASSUME NEW function \in {"document", "object"}, NEW d \in Doc,
               NEW v \in Verdicts, Answers(function, d, v)
        PROVE  Catalogue!Next
    <3>1. Catalogue!Warranted(K', function, d, v)
      <4>1. CASE d.gvk = NoGVK /\ v = "unidentified"
        BY <4>1 DEF Catalogue!Warranted
      <4>2. CASE /\ d.gvk \in GVK /\ ByHand(function, d)
                 /\ v = IF d.native THEN "ok" ELSE "invalid"
        BY <4>2 DEF Catalogue!Warranted, ByHand
      <4>3. CASE /\ d.gvk \in GVK /\ ~ByHand(function, d)
                 /\ validatorCache'[d.gvk] = NoEntry /\ Missed(d.gvk, v)
        <5>1. d.gvk \in GVK \ K'
          BY <4>3 DEF Cached
        <5>2. v \in Catalogue!LookupFailures
          BY <4>3 DEF Missed, Catalogue!LookupFailures
        <5> QED BY <4>3, <5>1, <5>2 DEF Catalogue!Warranted, ByHand
      <4>4. CASE /\ d.gvk \in GVK /\ ~ByHand(function, d)
                 /\ validatorCache'[d.gvk] # NoEntry
                 /\ v = Outcome(function, d, validatorCache'[d.gvk])
        <5>1. d.gvk \in K'
          BY <4>4 DEF Cached
        <5>2. v \in Catalogue!Judgements
          BY <4>4 DEF Outcome, Catalogue!Judgements
        <5>3. v = "ok" => Catalogue!Satisfied(function, d)
          <6>1. validatorCache'[d.gvk] \in Entry
            BY <2>0, <4>4 DEF TypeOK
          <6>2. validatorCache'[d.gvk].def \in Def /\ d.gvk \in Claims[validatorCache'[d.gvk].def]
            BY <2>0, <4>4, <6>1 DEF EntriesExplained, Cached, Entry
          <6> QED BY <4>4, <6>2 DEF Outcome, Accepts, Catalogue!Satisfied
        <5> QED BY <4>4, <5>1, <5>2, <5>3 DEF Catalogue!Warranted, ByHand
      <4> QED BY <2>3, <4>1, <4>2, <4>3, <4>4 DEF Answers, Explained
    <3>2. Catalogue!Answer(function, d, v)
      BY <2>1, <2>3, <3>1 DEF Catalogue!Answer, Answers
    <3>3. v \in Catalogue!LookupFailures \cup Catalogue!Judgements \cup {"unidentified"}
      BY DEF Verdicts, Catalogue!LookupFailures, Catalogue!Judgements
    <3> QED BY <3>2, <3>3 DEF Catalogue!Next
  <2> QED BY <2>0, <2>2, <2>3, AnswerFacts
<1> QED
  BY <1>1, <1>2, Invariance, PTL DEF Spec, CatalogueSpec, Catalogue!Spec
=============================================================================
