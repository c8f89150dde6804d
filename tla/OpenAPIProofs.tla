---------------------------- MODULE OpenAPIProofs ----------------------------
(***************************************************************************)
(* Theorems about the tree of OpenAPI clients, for any sources, documents, *)
(* command lines and number of calls.                                      *)
(***************************************************************************)
EXTENDS OpenAPIClient, TLAPS

Fallbacks == Remote \cup {"hardcoded"}

\* The two fallbacks agree on what is chosen and on where a search may be.
ChoicesCoherent ==
  /\ outerChoice = "builtins" <=> innerChoice # None
  /\ innerChoice = "hardcoded" => flags.version # "upstream"
  /\ innerChoice = "github" => flags.version = "upstream"
  /\ pc = "cluster" => outerChoice # "builtins"
  /\ pc = "hardcoded" => outerChoice # "cluster" /\ innerChoice # "github"
  /\ pc = "github" => /\ outerChoice # "cluster"
                      /\ innerChoice # "hardcoded"
                      /\ flags.version = "upstream"
  /\ pc = "finish" /\ ~errors => outerChoice # None

\* Lists of fetchers follow the choice and the order of priority.
InOrder(list) ==
  \A gv \in GroupVersion : \A i \in 1..Len(list[gv]) :
    /\ list[gv][i] \notin Local => list[gv][i] = Chosen
    /\ list[gv][i] = "github" => flags.version = "upstream"
    /\ \A j \in 1..(i - 1) : Rank(list[gv][j]) < Rank(list[gv][i])

\* The composite has asked nobody whose turn has not come.
NobodyEarly ==
  \A gv \in GroupVersion : \A i \in 1..Len(merged[gv]) :
    /\ pc # "localSchemas"
    /\ pc = "localCRDs" => merged[gv][i] = "localSchemas"
    /\ pc \in Fallbacks => merged[gv][i] \in Local

Offered(s, gv) == gv \in Offers[s] /\ ~(s = "hardcoded" /\ flags.version = "empty")

\* Everything that a source offers is in the lists.
HasAll(list, s) ==
  \A gv \in GroupVersion : Offered(s, gv) => \E i \in 1..Len(list[gv]) : list[gv][i] = s

\* Without an error the composite has everything of those it has asked.
NothingSkipped ==
  ~errors =>
    /\ pc \in {"localCRDs", "finish"} \cup Fallbacks =>
         "localSchemas" \notin flags.broken /\ HasAll(merged, "localSchemas")
    /\ pc \in {"finish"} \cup Fallbacks =>
         "localCRDs" \notin flags.broken /\ HasAll(merged, "localCRDs")
    /\ pc = "finish" => HasAll(merged, Chosen)

\* What New has returned stays as good as it was.
FetchersGood ==
  gvs # None =>
    /\ outerChoice # None
    /\ \A gv \in GroupVersion : gvs[gv] \in Seq(Source)
    /\ InOrder(gvs)
    /\ flags.broken = {}
    /\ \A s \in Local \cup {Chosen} : HasAll(gvs, s)

NewInv ==
  /\ TypeOK
  /\ ChoicesCoherent
  /\ InOrder(merged)
  /\ NobodyEarly
  /\ NothingSkipped
  /\ FetchersGood

-----------------------------------------------------------------------------
LEMMA FlagsTyped ==
  ASSUME flags \in Flags
  PROVE  /\ flags.version \in {"embedded", "upstream", "empty"}
         /\ flags.broken \subseteq Local
         /\ flags.localBody \in Body
         /\ \A gv \in GroupVersion : flags.patch[gv] \in Patch
  BY FlagsAssumption DEF Flag

\* What may come of a fetcher.
LEMMA FetchedBodies ==
  ASSUME flags \in Flags, NEW s, NEW body \in Fetched(s)
  PROVE  /\ body \in Body \cup {"error"}
         /\ body \in {"noComponents", "unusable", "garbage"} => s \in {"localSchemas", "github"}
         /\ s = "localSchemas" => body \in {flags.localBody, "error"}
         /\ s = "localCRDs" => body = "document"
  <1>1. PICK given \in Bodies(s), patch \in {"none", "sets"} :
          /\ body \in Overlay(patch, given)
          /\ s \in Local => patch = "none"
    BY DEF Fetched
  <1>2. given \in Body \cup {"error"}
    BY FlagsTyped DEF Bodies, Body
  <1>3. given \in {"noComponents", "unusable", "garbage"} => s \in {"localSchemas", "github"}
    BY DEF Bodies
  <1>4. s = "localSchemas" => given \in {flags.localBody, "error"}
    BY DEF Bodies
  <1>5. s = "localCRDs" => given = "document"
    BY DEF Bodies, Remote
  <1>6. patch = "none" => body = given
    BY <1>1 DEF Overlay
  <1>7. patch = "sets" =>
          /\ body \in {"document", "unusable", "error"}
          /\ body = "unusable" => given = "unusable"
    BY <1>1, <1>2 DEF Overlay, Merged, Body
  <1> QED
    BY <1>1, <1>2, <1>3, <1>4, <1>5, <1>6, <1>7 DEF Local, Body

\* What may come of the user's patch.
LEMMA Answers ==
  ASSUME NEW patch \in Patch, NEW body \in Body \cup {"error"},
         NEW result \in Overlay(patch, body)
  PROVE  /\ result \in Body \cup {"error"}
         /\ result = "noComponents" =>
              \/ patch = "removes"
              \/ patch \in {"none", "keeps"} /\ body \in {"noComponents", "unusable"}
         /\ result = "unusable" => patch \in {"array", "spoils"} \/ body = "unusable"
         /\ result = "garbage" => body = "garbage" /\ patch = "none"
         /\ result = "document" => body \in {"noComponents", "document", "unusable"}
  BY DEF Overlay, Merged, Body, Patch

\* A choice is never changed.
LEMMA ChoicesStick ==
  ASSUME TypeOK, ChoicesCoherent, [Next]_clientVars
  PROVE  outerChoice # None => UNCHANGED <<outerChoice, innerChoice>>
  <1> USE NoneAssumption DEF TypeOK, ChoicesCoherent, choices, Source, Remote, Local
  <1>1. CASE OutageOrRecovery
    BY <1>1 DEF OutageOrRecovery
  <1>2. CASE New
    BY <1>2 DEF New
  <1>3. ASSUME NEW s \in Local, ReadLocal(s)
        PROVE  UNCHANGED <<outerChoice, innerChoice>>
    BY <1>3 DEF ReadLocal
  <1>4. CASE AskCluster
    BY <1>4 DEF AskCluster
  <1>5. CASE ReadHardcoded
    BY <1>5 DEF ReadHardcoded
  <1>6. CASE AskGitHub
    BY <1>6 DEF AskGitHub
  <1>7. CASE Finish
    BY <1>7 DEF Finish
  <1>8. ASSUME NEW gv \in GroupVersion, AskSchema(gv)
        PROVE  UNCHANGED <<outerChoice, innerChoice>>
    BY <1>8 DEF AskSchema
  <1>9. CASE Fetch
    BY <1>9 DEF Fetch
  <1>10. CASE UNCHANGED clientVars
    BY <1>10 DEF clientVars
  <1> QED
    BY <1>1, <1>2, <1>3, <1>4, <1>5, <1>6, <1>7, <1>8, <1>9, <1>10 DEF Next

LEMMA CoherentStep ==
  ASSUME TypeOK, ChoicesCoherent, [Next]_clientVars
  PROVE  ChoicesCoherent'
  <1> USE NoneAssumption DEF TypeOK, ChoicesCoherent, choices, Source, Remote, Local
  <1>f. flags.version \in {"embedded", "upstream", "empty"}
    BY FlagsTyped
  <1>1. CASE OutageOrRecovery
    BY <1>1 DEF OutageOrRecovery, new
  <1>2. CASE New
    BY <1>2 DEF New
  <1>3. ASSUME NEW s \in Local, ReadLocal(s)
        PROVE  ChoicesCoherent'
    BY <1>3 DEF ReadLocal, FallbackStart, BuiltinsStart
  <1>4. CASE AskCluster
    BY <1>4 DEF AskCluster, TryNext, BuiltinsStart, Gather, Miss
  <1>5. CASE ReadHardcoded
    BY <1>5, <1>f DEF ReadHardcoded, TryNext
  <1>6. CASE AskGitHub
    BY <1>6 DEF AskGitHub, Miss
  <1>7. CASE Finish
    BY <1>7 DEF Finish
  <1>8. ASSUME NEW gv \in GroupVersion, AskSchema(gv)
        PROVE  ChoicesCoherent'
    BY <1>8 DEF AskSchema
  <1>9. CASE Fetch
    BY <1>9 DEF Fetch, Answer
  <1>10. CASE UNCHANGED clientVars
    BY <1>10 DEF clientVars, new
  <1> QED
    BY <1>1, <1>2, <1>3, <1>4, <1>5, <1>6, <1>7, <1>8, <1>9, <1>10 DEF Next

\* A client's fetchers are put behind those before it.
LEMMA Gathered ==
  ASSUME TypeOK, NEW s \in Source, Gather(s)
  PROVE  /\ DOMAIN merged' = GroupVersion
         /\ \A gv \in GroupVersion :
              /\ merged[gv] \in Seq(Source)
              /\ merged'[gv] \in Seq(Source)
              /\ gv \notin Offers[s] => merged'[gv] = merged[gv]
              /\ gv \in Offers[s] =>
                   /\ Len(merged'[gv]) = Len(merged[gv]) + 1
                   /\ merged'[gv][Len(merged'[gv])] = s
              /\ Len(merged[gv]) <= Len(merged'[gv])
              /\ \A i \in 1..Len(merged[gv]) : merged'[gv][i] = merged[gv][i]
  BY DEF TypeOK, Gather

MergedTyped ==
  /\ DOMAIN merged = GroupVersion
  /\ \A gv \in GroupVersion : merged[gv] \in Seq(Source)

LEMMA MergedTypedStep ==
  ASSUME TypeOK, [Next]_clientVars
  PROVE  MergedTyped'
  <1> USE DEF MergedTyped, TypeOK, new, choices
  <1>1. CASE OutageOrRecovery
    BY <1>1 DEF OutageOrRecovery
  <1>2. CASE New
    BY <1>2 DEF New, NoFetchers
  <1>3. ASSUME NEW s \in Local, ReadLocal(s)
        PROVE  MergedTyped'
    <2>1. CASE Gather(s)
      BY <2>1, Gathered DEF Source
    <2> QED
      BY <1>3, <2>1 DEF ReadLocal, Miss
  <1>4. CASE AskCluster
    <2>1. CASE Gather("cluster")
      BY <2>1, Gathered DEF Source, Remote
    <2> QED
      BY <1>4, <2>1 DEF AskCluster, TryNext, Miss
  <1>5. CASE ReadHardcoded
    <2>1. CASE Gather("hardcoded")
      BY <2>1, Gathered DEF Source
    <2> QED
      BY <1>5, <2>1 DEF ReadHardcoded, TryNext
  <1>6. CASE AskGitHub
    <2>1. CASE Gather("github")
      BY <2>1, Gathered DEF Source, Remote
    <2> QED
      BY <1>6, <2>1 DEF AskGitHub, Miss
  <1>7. CASE Finish
    BY <1>7 DEF Finish
  <1>8. ASSUME NEW gv \in GroupVersion, AskSchema(gv)
        PROVE  MergedTyped'
    BY <1>8 DEF AskSchema
  <1>9. CASE Fetch
    BY <1>9 DEF Fetch
  <1>10. CASE UNCHANGED clientVars
    BY <1>10 DEF clientVars
  <1> QED
    BY <1>1, <1>2, <1>3, <1>4, <1>5, <1>6, <1>7, <1>8, <1>9, <1>10 DEF Next

LEMMA TypeStep ==
  ASSUME TypeOK, [Next]_clientVars
  PROVE  TypeOK'
  <1> USE DEF choices, new, schema
  <1>m. MergedTyped'
    BY MergedTypedStep
  <1>c. calls < MaxCalls => calls + 1 \in 0..MaxCalls
    BY MaxCallsAssumption DEF TypeOK
  <1>1. CASE OutageOrRecovery
    BY <1>1, <1>m, <1>c DEF MergedTyped, OutageOrRecovery, TypeOK
  <1>2. CASE New
    BY <1>2, <1>m, <1>c DEF MergedTyped, New, TypeOK, Source, Local
  <1>3. ASSUME NEW s \in Local, ReadLocal(s)
        PROVE  TypeOK'
    <2>1. errors' \in BOOLEAN
      BY <1>3 DEF ReadLocal, Gather, Miss, TypeOK
    <2>2. pc' \in Source
      BY <1>3 DEF ReadLocal, FallbackStart, BuiltinsStart, Source, Local, Remote
    <2>3. pc' # "schema"
      BY <1>3 DEF ReadLocal, FallbackStart, BuiltinsStart
    <2> QED
      BY <1>3, <1>m, <2>1, <2>2, <2>3 DEF MergedTyped, ReadLocal, TypeOK
  <1>4. CASE AskCluster
    BY <1>4, <1>m, <1>c DEF MergedTyped, AskCluster, Gather, Miss, TryNext, BuiltinsStart, TypeOK, Source, Local, Remote
  <1>5. CASE ReadHardcoded
    BY <1>5, <1>m, <1>c DEF MergedTyped, ReadHardcoded, Gather, TryNext, TypeOK, Source, Remote
  <1>6. CASE AskGitHub
    BY <1>6, <1>m, <1>c DEF MergedTyped, AskGitHub, Gather, Miss, TypeOK, Source, Remote
  <1>7. CASE Finish
    BY <1>7, <1>m, <1>c DEF MergedTyped, Finish, TypeOK
  <1>8. ASSUME NEW gv \in GroupVersion, AskSchema(gv)
        PROVE  TypeOK'
    BY <1>8, <1>m, <1>c DEF MergedTyped, AskSchema, TypeOK
  <1>9. CASE Fetch
    <2>1. PICK body \in Fetched(Head(pending)) :
            \/ Answer(body) \/ Answer("error") \/ Answer("document")
            \/ UNCHANGED <<answer, pc>>
      BY <1>9 DEF Fetch
    <2>2. body \in Body \cup {"error"}
      BY <2>1, FetchedBodies DEF TypeOK
    <2>3. pc = "schema"
      BY <1>9 DEF Fetch
    <2>4. target \in GroupVersion
      BY <2>3 DEF TypeOK
    <2>5. flags.patch[target] \in Patch
      BY <2>4, FlagsTyped DEF TypeOK
    <2>6. ASSUME NEW given \in Body \cup {"error"}, Answer(given)
          PROVE  answer' \in Body \cup {"error"} /\ pc' = "idle"
      BY <2>5, <2>6, Answers DEF Answer
    <2>7. \/ answer' \in Body \cup {"error"} /\ pc' = "idle"
          \/ UNCHANGED <<answer, pc>>
      BY <2>1, <2>2, <2>6 DEF Body
    <2> QED
      BY <1>9, <1>m, <2>4, <2>7 DEF MergedTyped, Fetch, TypeOK
  <1>10. CASE UNCHANGED clientVars
    BY <1>10, <1>m, <1>c DEF MergedTyped, clientVars, TypeOK
  <1> QED
    BY <1>1, <1>2, <1>3, <1>4, <1>5, <1>6, <1>7, <1>8, <1>9, <1>10 DEF Next

-----------------------------------------------------------------------------
\* A client whose turn it is keeps the order.
LEMMA GatherInOrder ==
  ASSUME TypeOK, InOrder(merged), NEW s \in Source, Gather(s), flags' = flags,
         \A gv \in GroupVersion : \A i \in 1..Len(merged[gv]) :
           merged[gv][i] \in Local /\ Rank(merged[gv][i]) < Rank(s),
         s \notin Local => s = Chosen',
         s = "github" => flags.version = "upstream"
  PROVE  InOrder(merged)'
  <1> SUFFICES ASSUME NEW gv \in GroupVersion, NEW i \in 1..Len(merged'[gv])
               PROVE  /\ merged'[gv][i] \notin Local => merged'[gv][i] = Chosen'
                      /\ merged'[gv][i] = "github" => flags.version = "upstream"
                      /\ \A j \in 1..(i - 1) : Rank(merged'[gv][j]) < Rank(merged'[gv][i])
    BY DEF InOrder
  <1>g. /\ merged[gv] \in Seq(Source)
        /\ merged'[gv] \in Seq(Source)
        /\ gv \notin Offers[s] => merged'[gv] = merged[gv]
        /\ gv \in Offers[s] =>
             /\ Len(merged'[gv]) = Len(merged[gv]) + 1
             /\ merged'[gv][Len(merged'[gv])] = s
        /\ \A k \in 1..Len(merged[gv]) : merged'[gv][k] = merged[gv][k]
    BY Gathered
  <1>1. CASE i \in 1..Len(merged[gv])
    <2>1. merged'[gv][i] \in Local
      BY <1>1, <1>g
    <2>2. \A j \in 1..(i - 1) : Rank(merged[gv][j]) < Rank(merged[gv][i])
      BY <1>1 DEF InOrder
    <2>3. \A j \in 1..(i - 1) : j \in 1..Len(merged[gv])
      BY <1>1, <1>g
    <2> QED
      BY <1>1, <1>g, <2>1, <2>2, <2>3 DEF Local
  <1>2. CASE i \notin 1..Len(merged[gv])
    <2>1. merged'[gv][i] = s /\ i = Len(merged[gv]) + 1
      BY <1>2, <1>g
    <2>2. \A j \in 1..(i - 1) : j \in 1..Len(merged[gv])
      BY <2>1, <1>g
    <2> QED
      BY <1>g, <2>1, <2>2
  <1> QED
    BY <1>1, <1>2

LEMMA OrderStep ==
  ASSUME TypeOK, ChoicesCoherent, InOrder(merged), NobodyEarly, [Next]_clientVars
  PROVE  InOrder(merged)'
  <1>1. CASE OutageOrRecovery
    <2>1. UNCHANGED <<flags, merged, outerChoice, innerChoice>>
      BY <1>1 DEF OutageOrRecovery, new, choices
    <2> QED
      BY <2>1 DEF InOrder, Chosen
  <1>2. CASE New
    BY <1>2 DEF New, NoFetchers, InOrder
  <1>3. ASSUME NEW s \in Local, ReadLocal(s)
        PROVE  InOrder(merged)'
    <2>1. CASE Gather(s)
      <3>1. \A gv \in GroupVersion : \A i \in 1..Len(merged[gv]) :
              merged[gv][i] \in Local /\ Rank(merged[gv][i]) < Rank(s)
        BY <1>3 DEF ReadLocal, NobodyEarly, Rank, Local, Fallbacks, Remote
      <3>2. s \notin Local => s = Chosen'
        BY <1>3, <2>1 DEF ReadLocal, Gather, TryNext, Miss, Chosen, Local
      <3>3. s = "github" => flags.version = "upstream"
        BY <1>3 DEF ReadLocal, ChoicesCoherent, Local
      <3>4. s \in Source /\ flags' = flags
        BY <1>3 DEF ReadLocal, Source, Remote
      <3> QED
        BY <2>1, <3>1, <3>2, <3>3, <3>4, GatherInOrder
    <2>2. CASE UNCHANGED merged
      <3>1. \A gv \in GroupVersion : \A i \in 1..Len(merged[gv]) : merged[gv][i] \in Local
        BY <1>3 DEF ReadLocal, NobodyEarly, Local, Fallbacks, Remote
      <3> QED
        BY <1>3, <2>2, <3>1 DEF ReadLocal, InOrder, Local
    <2> QED
      BY <1>3, <2>1, <2>2 DEF ReadLocal, TryNext, Miss
  <1>4. CASE AskCluster
    <2>1. CASE flags.kubeconfig /\ "cluster" \in up
      <3>0. Gather("cluster")
        BY <1>4, <2>1 DEF AskCluster
      <3>1. \A gv \in GroupVersion : \A i \in 1..Len(merged[gv]) :
              merged[gv][i] \in Local /\ Rank(merged[gv][i]) < Rank("cluster")
        BY <1>4 DEF AskCluster, NobodyEarly, Rank, Local, Fallbacks, Remote
      <3>2. "cluster" \notin Local => "cluster" = Chosen'
        BY <1>4, <2>1 DEF AskCluster, Chosen
      <3>3. "cluster" = "github" => flags.version = "upstream"
        BY <1>4 DEF AskCluster, ChoicesCoherent, Local
      <3>4. "cluster" \in Source /\ flags' = flags
        BY <1>4 DEF AskCluster, Source, Remote
      <3> QED
        BY <3>0, <3>1, <3>2, <3>3, <3>4, GatherInOrder
    <2>2. CASE ~(flags.kubeconfig /\ "cluster" \in up)
      <3>1. \A gv \in GroupVersion : \A i \in 1..Len(merged[gv]) : merged[gv][i] \in Local
        BY <1>4 DEF AskCluster, NobodyEarly, Local, Fallbacks, Remote
      <3> QED
        BY <1>4, <2>2, <3>1 DEF AskCluster, InOrder, TryNext, Miss
    <2> QED
      BY <2>1, <2>2
  <1>5. CASE ReadHardcoded
    <2>1. CASE flags.version \notin {"upstream", "empty"}
      <3>0. Gather("hardcoded")
        BY <1>5, <2>1 DEF ReadHardcoded
      <3>1. \A gv \in GroupVersion : \A i \in 1..Len(merged[gv]) :
              merged[gv][i] \in Local /\ Rank(merged[gv][i]) < Rank("hardcoded")
        BY <1>5 DEF ReadHardcoded, NobodyEarly, Rank, Local, Fallbacks, Remote
      <3>2. "hardcoded" \notin Local => "hardcoded" = Chosen'
        BY <1>5, <2>1 DEF ReadHardcoded, Chosen
      <3>3. "hardcoded" = "github" => flags.version = "upstream"
        BY <1>5 DEF ReadHardcoded, ChoicesCoherent, Local
      <3>4. "hardcoded" \in Source /\ flags' = flags
        BY <1>5 DEF ReadHardcoded, Source, Remote
      <3> QED
        BY <3>0, <3>1, <3>2, <3>3, <3>4, GatherInOrder
    <2>2. CASE ~(flags.version \notin {"upstream", "empty"})
      <3>1. \A gv \in GroupVersion : \A i \in 1..Len(merged[gv]) : merged[gv][i] \in Local
        BY <1>5 DEF ReadHardcoded, NobodyEarly, Local, Fallbacks, Remote
      <3> QED
        BY <1>5, <2>2, <3>1 DEF ReadHardcoded, InOrder, TryNext, Miss
    <2> QED
      BY <2>1, <2>2
  <1>6. CASE AskGitHub
    <2>1. CASE "github" \in up
      <3>0. Gather("github")
        BY <1>6, <2>1 DEF AskGitHub
      <3>1. \A gv \in GroupVersion : \A i \in 1..Len(merged[gv]) :
              merged[gv][i] \in Local /\ Rank(merged[gv][i]) < Rank("github")
        BY <1>6 DEF AskGitHub, NobodyEarly, Rank, Local, Fallbacks, Remote
      <3>2. "github" \notin Local => "github" = Chosen'
        BY <1>6, <2>1 DEF AskGitHub, Chosen
      <3>3. "github" = "github" => flags.version = "upstream"
        BY <1>6 DEF AskGitHub, ChoicesCoherent, Local
      <3>4. "github" \in Source /\ flags' = flags
        BY <1>6 DEF AskGitHub, Source, Remote
      <3> QED
        BY <3>0, <3>1, <3>2, <3>3, <3>4, GatherInOrder
    <2>2. CASE ~("github" \in up)
      <3>1. \A gv \in GroupVersion : \A i \in 1..Len(merged[gv]) : merged[gv][i] \in Local
        BY <1>6 DEF AskGitHub, NobodyEarly, Local, Fallbacks, Remote
      <3> QED
        BY <1>6, <2>2, <3>1 DEF AskGitHub, InOrder, TryNext, Miss
    <2> QED
      BY <2>1, <2>2
  <1>7. CASE Finish
    <2>1. UNCHANGED <<flags, merged, outerChoice, innerChoice>>
      BY <1>7 DEF Finish, new, choices
    <2> QED
      BY <2>1 DEF InOrder, Chosen
  <1>8. ASSUME NEW gv \in GroupVersion, AskSchema(gv)
        PROVE  InOrder(merged)'
    <2>1. UNCHANGED <<flags, merged, outerChoice, innerChoice>>
      BY <1>8 DEF AskSchema, new, choices
    <2> QED
      BY <2>1 DEF InOrder, Chosen
  <1>9. CASE Fetch
    <2>1. UNCHANGED <<flags, merged, outerChoice, innerChoice>>
      BY <1>9 DEF Fetch, new, choices
    <2> QED
      BY <2>1 DEF InOrder, Chosen
  <1>10. CASE UNCHANGED clientVars
    BY <1>10 DEF clientVars, new, choices, InOrder, Chosen
  <1> QED
    BY <1>1, <1>2, <1>3, <1>4, <1>5, <1>6, <1>7, <1>8, <1>9, <1>10 DEF Next

LEMMA GatheredElements ==
  ASSUME TypeOK, NEW s \in Source, Gather(s),
         NEW gv \in GroupVersion, NEW i \in 1..Len(merged'[gv])
  PROVE  \/ merged'[gv][i] = s
         \/ i \in 1..Len(merged[gv]) /\ merged'[gv][i] = merged[gv][i]
  BY Gathered

LEMMA LocalTurns ==
  ASSUME NEW s \in Local, ReadLocal(s)
  PROVE  /\ pc = s
         /\ \/ s = "localSchemas" /\ pc' = "localCRDs"
            \/ s = "localCRDs" /\ pc' \in Fallbacks
  <1>1. FallbackStart \in Fallbacks
    BY DEF FallbackStart, BuiltinsStart, Fallbacks, Remote
  <1>2. s \in {"localSchemas", "localCRDs"}
    BY DEF Local
  <1>3. pc = s /\ pc' = IF s = "localSchemas" THEN "localCRDs" ELSE FallbackStart
    BY DEF ReadLocal
  <1> QED
    BY <1>1, <1>2, <1>3

LEMMA EarlyStep ==
  ASSUME TypeOK, NobodyEarly, [Next]_clientVars
  PROVE  NobodyEarly'
  <1> USE DEF new, choices
  <1>1. CASE OutageOrRecovery
    BY <1>1 DEF OutageOrRecovery, NobodyEarly
  <1>2. CASE New
    BY <1>2 DEF New, NoFetchers, NobodyEarly
  <1>3. ASSUME NEW s \in Local, ReadLocal(s)
        PROVE  NobodyEarly'
    <2>1. ASSUME NEW gv \in GroupVersion, NEW i \in 1..Len(merged'[gv])
          PROVE  \/ merged'[gv][i] = s
                 \/ i \in 1..Len(merged[gv]) /\ merged'[gv][i] = merged[gv][i]
      BY <1>3, GatheredElements DEF ReadLocal, Miss, Source
    <2>2. /\ pc = s
          /\ \/ s = "localSchemas" /\ pc' = "localCRDs"
             \/ s = "localCRDs" /\ pc' \in Fallbacks
      BY <1>3, LocalTurns
    <2> QED
      BY <2>1, <2>2 DEF NobodyEarly, Local, Fallbacks, Remote
  <1>4. CASE AskCluster
    BY <1>4 DEF AskCluster, TryNext, BuiltinsStart, NobodyEarly, Fallbacks, Remote
  <1>5. CASE ReadHardcoded
    BY <1>5 DEF ReadHardcoded, TryNext, NobodyEarly, Fallbacks, Remote
  <1>6. CASE AskGitHub
    BY <1>6 DEF AskGitHub, NobodyEarly, Fallbacks, Remote
  <1>7. CASE Finish
    BY <1>7 DEF Finish, NobodyEarly, Fallbacks, Remote
  <1>8. ASSUME NEW gv \in GroupVersion, AskSchema(gv)
        PROVE  NobodyEarly'
    BY <1>8 DEF AskSchema, NobodyEarly, Fallbacks, Remote
  <1>9. CASE Fetch
    BY <1>9 DEF Fetch, Answer, NobodyEarly, Fallbacks, Remote
  <1>10. CASE UNCHANGED clientVars
    BY <1>10 DEF clientVars, NobodyEarly
  <1> QED
    BY <1>1, <1>2, <1>3, <1>4, <1>5, <1>6, <1>7, <1>8, <1>9, <1>10 DEF Next

\* A client that answered has all it offers in the lists, and takes nobody out.
LEMMA GatherHas ==
  ASSUME TypeOK, NEW s \in Source, Gather(s)
  PROVE  /\ HasAll(merged', s)
         /\ \A t : HasAll(merged, t) => HasAll(merged', t)
  <1>1. ASSUME NEW gv \in GroupVersion, Offered(s, gv)
        PROVE  \E i \in 1..Len(merged'[gv]) : merged'[gv][i] = s
    <2>1. /\ merged[gv] \in Seq(Source)
          /\ Len(merged'[gv]) = Len(merged[gv]) + 1
          /\ merged'[gv][Len(merged'[gv])] = s
      BY <1>1, Gathered DEF Offered
    <2>2. Len(merged'[gv]) \in 1..Len(merged'[gv])
      BY <2>1
    <2> QED
      BY <2>1, <2>2
  <1>2. ASSUME NEW t, HasAll(merged, t), NEW gv \in GroupVersion, Offered(t, gv)
        PROVE  \E i \in 1..Len(merged'[gv]) : merged'[gv][i] = t
    <2>1. PICK i \in 1..Len(merged[gv]) : merged[gv][i] = t
      BY <1>2 DEF HasAll
    <2>2. i \in 1..Len(merged'[gv]) /\ merged'[gv][i] = merged[gv][i]
      BY Gathered
    <2> QED
      BY <2>1, <2>2
  <1> QED
    BY <1>1, <1>2 DEF HasAll

LEMMA SkippedStep ==
  ASSUME TypeOK, ChoicesCoherent, NothingSkipped, [Next]_clientVars
  PROVE  NothingSkipped'
  <1>1. CASE OutageOrRecovery
    <2>1. UNCHANGED <<flags, merged, errors, outerChoice, innerChoice>>
      BY <1>1 DEF OutageOrRecovery, new, choices
    <2>2. pc' \in {"idle", "schema"} \/ UNCHANGED pc
      BY <1>1 DEF OutageOrRecovery, Answer
    <2> QED
      BY <2>1, <2>2 DEF NothingSkipped, HasAll, Offered, Chosen, Fallbacks, Remote
  <1>2. CASE New
    BY <1>2 DEF New, NothingSkipped, Fallbacks, Remote
  <1>3. ASSUME NEW s \in Local, ReadLocal(s)
        PROVE  NothingSkipped'
    <2> SUFFICES ASSUME ~errors'
                 PROVE  NothingSkipped'
      BY DEF NothingSkipped
    <2>1. ~errors /\ flags' = flags /\ s \notin flags.broken /\ Gather(s)
      BY <1>3 DEF ReadLocal, Miss, Gather, TypeOK
    <2>2. /\ pc = s
          /\ \/ s = "localSchemas" /\ pc' = "localCRDs"
             \/ s = "localCRDs" /\ pc' \in Fallbacks
      BY <1>3, LocalTurns
    <2>3. /\ HasAll(merged', s)
          /\ HasAll(merged, "localSchemas") => HasAll(merged', "localSchemas")
      BY <2>1, GatherHas DEF Source
    <2>4. \A t : HasAll(merged', t) <=> HasAll(merged, t)'
      BY <2>1 DEF HasAll, Offered
    <2> QED
      BY <2>1, <2>2, <2>3, <2>4 DEF NothingSkipped, Fallbacks, Remote
  <1>4. CASE AskCluster
    <2> SUFFICES ASSUME ~errors', pc' = "finish"
                 PROVE  NothingSkipped'
      <3>1. CASE errors'
        BY <3>1 DEF NothingSkipped
      <3>2. CASE ~errors' /\ pc' # "finish"
        <4>1. UNCHANGED <<flags, merged, errors>> /\ pc' \in Fallbacks
          BY <1>4, <3>2 DEF AskCluster, TryNext, BuiltinsStart, Fallbacks, Remote
        <4>2. pc \in Fallbacks
          BY <1>4 DEF AskCluster, Fallbacks, Remote
        <4> QED
          BY <3>2, <4>1, <4>2 DEF NothingSkipped, HasAll, Offered
      <3> QED
        BY <3>1, <3>2
    <2>1. ~errors /\ flags' = flags
      BY <1>4 DEF AskCluster, TryNext, BuiltinsStart, Miss, Gather, TypeOK
    <2>2. /\ {"localSchemas", "localCRDs"} \cap flags.broken = {}
          /\ HasAll(merged, "localSchemas")
          /\ HasAll(merged, "localCRDs")
      BY <1>4, <2>1 DEF AskCluster, NothingSkipped, Fallbacks, Remote
    <2>3. HasAll(merged', "cluster") /\ \A t : HasAll(merged, t) => HasAll(merged', t)
      <3>1. Gather("cluster")
        BY <1>4, <2>1 DEF AskCluster, TryNext, Miss, BuiltinsStart
      <3> QED
        BY <3>1, GatherHas DEF Source, Remote
    <2>4. Chosen' = "cluster"
      BY <1>4, <2>1 DEF AskCluster, TryNext, BuiltinsStart, Miss, Chosen
    <2>5. \A t : HasAll(merged', t) <=> HasAll(merged, t)'
      BY <2>1 DEF HasAll, Offered
    <2>6. HasAll(merged, Chosen)'
      BY <2>3, <2>4, <2>1 DEF HasAll, Offered
    <2> QED
      BY <2>1, <2>2, <2>3, <2>5, <2>6 DEF NothingSkipped, Fallbacks, Remote
  <1>5. CASE ReadHardcoded
    <2> SUFFICES ASSUME ~errors', pc' = "finish"
                 PROVE  NothingSkipped'
      <3>1. CASE errors'
        BY <3>1 DEF NothingSkipped
      <3>2. CASE ~errors' /\ pc' # "finish"
        <4>1. UNCHANGED <<flags, merged, errors>> /\ pc' \in Fallbacks
          BY <1>5, <3>2 DEF ReadHardcoded, TryNext, BuiltinsStart, Fallbacks, Remote
        <4>2. pc \in Fallbacks
          BY <1>5 DEF ReadHardcoded, Fallbacks, Remote
        <4> QED
          BY <3>2, <4>1, <4>2 DEF NothingSkipped, HasAll, Offered
      <3> QED
        BY <3>1, <3>2
    <2>1. ~errors /\ flags' = flags
      BY <1>5 DEF ReadHardcoded, TryNext, Miss, Gather, TypeOK
    <2>2. /\ {"localSchemas", "localCRDs"} \cap flags.broken = {}
          /\ HasAll(merged, "localSchemas")
          /\ HasAll(merged, "localCRDs")
      BY <1>5, <2>1 DEF ReadHardcoded, NothingSkipped, Fallbacks, Remote
    <2>3. HasAll(merged', "hardcoded") /\ \A t : HasAll(merged, t) => HasAll(merged', t)
      <3>1. CASE flags.version = "empty"
        BY <1>5, <3>1 DEF ReadHardcoded, HasAll, Offered
      <3>2. CASE flags.version # "empty"
        BY <1>5, <3>2, GatherHas DEF ReadHardcoded, TryNext, Source
      <3> QED
        BY <3>1, <3>2
    <2>4. Chosen' = "hardcoded"
      BY <1>5, <2>1 DEF ReadHardcoded, TryNext, Miss, Chosen
    <2>5. \A t : HasAll(merged', t) <=> HasAll(merged, t)'
      BY <2>1 DEF HasAll, Offered
    <2>6. HasAll(merged, Chosen)'
      BY <2>3, <2>4, <2>1 DEF HasAll, Offered
    <2> QED
      BY <2>1, <2>2, <2>3, <2>5, <2>6 DEF NothingSkipped, Fallbacks, Remote
  <1>6. CASE AskGitHub
    <2> SUFFICES ASSUME ~errors', pc' = "finish"
                 PROVE  NothingSkipped'
      <3>1. CASE errors'
        BY <3>1 DEF NothingSkipped
      <3>2. CASE ~errors' /\ pc' # "finish"
        <4>1. UNCHANGED <<flags, merged, errors>> /\ pc' \in Fallbacks
          BY <1>6, <3>2 DEF AskGitHub, TryNext, BuiltinsStart, Fallbacks, Remote
        <4>2. pc \in Fallbacks
          BY <1>6 DEF AskGitHub, Fallbacks, Remote
        <4> QED
          BY <3>2, <4>1, <4>2 DEF NothingSkipped, HasAll, Offered
      <3> QED
        BY <3>1, <3>2
    <2>1. ~errors /\ flags' = flags
      BY <1>6 DEF AskGitHub, Miss, Gather, TypeOK
    <2>2. /\ {"localSchemas", "localCRDs"} \cap flags.broken = {}
          /\ HasAll(merged, "localSchemas")
          /\ HasAll(merged, "localCRDs")
      BY <1>6, <2>1 DEF AskGitHub, NothingSkipped, Fallbacks, Remote
    <2>3. HasAll(merged', "github") /\ \A t : HasAll(merged, t) => HasAll(merged', t)
      <3>1. Gather("github")
        BY <1>6, <2>1 DEF AskGitHub, Miss
      <3> QED
        BY <3>1, GatherHas DEF Source, Remote
    <2>4. Chosen' = "github"
      BY <1>6, <2>1 DEF AskGitHub, TryNext, Miss, Chosen
    <2>5. \A t : HasAll(merged', t) <=> HasAll(merged, t)'
      BY <2>1 DEF HasAll, Offered
    <2>6. HasAll(merged, Chosen)'
      BY <2>3, <2>4, <2>1 DEF HasAll, Offered
    <2> QED
      BY <2>1, <2>2, <2>3, <2>5, <2>6 DEF NothingSkipped, Fallbacks, Remote
  <1>7. CASE Finish
    <2>1. UNCHANGED <<flags, merged, errors, outerChoice, innerChoice>>
      BY <1>7 DEF Finish, new, choices
    <2>2. pc' \in {"idle", "schema"} \/ UNCHANGED pc
      BY <1>7 DEF Finish, Answer
    <2> QED
      BY <2>1, <2>2 DEF NothingSkipped, HasAll, Offered, Chosen, Fallbacks, Remote
  <1>8. ASSUME NEW gv \in GroupVersion, AskSchema(gv)
        PROVE  NothingSkipped'
    <2>1. UNCHANGED <<flags, merged, errors, outerChoice, innerChoice>>
      BY <1>8 DEF AskSchema, new, choices
    <2>2. pc' \in {"idle", "schema"} \/ UNCHANGED pc
      BY <1>8 DEF AskSchema, Answer
    <2> QED
      BY <2>1, <2>2 DEF NothingSkipped, HasAll, Offered, Chosen, Fallbacks, Remote
  <1>9. CASE Fetch
    <2>1. UNCHANGED <<flags, merged, errors, outerChoice, innerChoice>>
      BY <1>9 DEF Fetch, new, choices
    <2>2. pc' \in {"idle", "schema"} \/ UNCHANGED pc
      BY <1>9 DEF Fetch, Answer
    <2> QED
      BY <2>1, <2>2 DEF NothingSkipped, HasAll, Offered, Chosen, Fallbacks, Remote
  <1>10. CASE UNCHANGED clientVars
    BY <1>10 DEF clientVars, new, choices, NothingSkipped, HasAll, Offered, Chosen
  <1> QED
    BY <1>1, <1>2, <1>3, <1>4, <1>5, <1>6, <1>7, <1>8, <1>9, <1>10 DEF Next

LEMMA GoodStep ==
  ASSUME NewInv, [Next]_clientVars
  PROVE  FetchersGood'
  <1> SUFFICES ASSUME gvs' # None
               PROVE  FetchersGood'
    BY DEF FetchersGood
  <1>1. CASE Finish
    <2>1. /\ ~errors /\ gvs' = merged /\ pc = "finish"
          /\ UNCHANGED <<flags, merged, outerChoice, innerChoice>>
      BY <1>1 DEF Finish, choices
    <2>2. outerChoice # None
      BY <2>1 DEF NewInv, ChoicesCoherent
    <2>3. /\ flags.broken = {}
          /\ \A s \in Local \cup {Chosen} : HasAll(merged, s)
      <3>1. flags.broken \subseteq Local
        BY FlagsTyped DEF NewInv, TypeOK
      <3> QED
        BY <2>1, <3>1 DEF NewInv, NothingSkipped, Local
    <2> QED
      BY <2>1, <2>2, <2>3 DEF NewInv, TypeOK, FetchersGood, InOrder, HasAll, Offered, Chosen
  <1>2. CASE ~Finish
    <2>1. UNCHANGED <<flags, gvs>>
      BY <1>2 DEF Next, clientVars, OutageOrRecovery, New, ReadLocal, AskCluster,
        ReadHardcoded, AskGitHub, AskSchema, Fetch, new
    <2>2. FetchersGood /\ outerChoice # None
      BY <2>1 DEF NewInv, FetchersGood
    <2>3. UNCHANGED <<outerChoice, innerChoice>>
      BY <2>2, ChoicesStick DEF NewInv
    <2> QED
      BY <2>1, <2>2, <2>3 DEF FetchersGood, InOrder, HasAll, Offered, Chosen
  <1> QED
    BY <1>1, <1>2

LEMMA NewInvInit ==
  ASSUME Init
  PROVE  NewInv
  <1>1. TypeOK
    <2>1. DOMAIN merged = GroupVersion /\ \A gv \in GroupVersion : merged[gv] \in Seq(Source)
      BY DEF Init, NoFetchers
    <2>2. calls \in 0..MaxCalls
      BY MaxCallsAssumption DEF Init
    <2> QED
      BY <2>1, <2>2 DEF Init, TypeOK
  <1>2. ChoicesCoherent
    BY NoneAssumption DEF Init, ChoicesCoherent, Source, Remote, Local
  <1>3. InOrder(merged) /\ NobodyEarly
    BY DEF Init, NoFetchers, InOrder, NobodyEarly
  <1>4. NothingSkipped /\ FetchersGood
    BY DEF Init, NothingSkipped, FetchersGood, Fallbacks, Remote
  <1> QED
    BY <1>1, <1>2, <1>3, <1>4 DEF NewInv

LEMMA NewInvStep ==
  ASSUME NewInv, [Next]_clientVars
  PROVE  NewInv'
  BY TypeStep, CoherentStep, OrderStep, EarlyStep, SkippedStep, GoodStep DEF NewInv

\* Variables keep their types.
THEOREM ClientTypes == Spec => []TypeOK
  <1>1. NewInv => TypeOK
    BY DEF NewInv
  <1> QED
    BY <1>1, NewInvInit, NewInvStep, PTL DEF Spec

\* The fetchers of every Validator follow the one choice that the client made,
\* in the order of priority (composite.go, fallback.go).
THEOREM ChoiceFollowed == Spec => []FetchersFollowChoice
  <1>1. NewInv => FetchersFollowChoice
    BY DEF NewInv, FetchersGood, InOrder, FetchersFollowChoice
  <1> QED
    BY <1>1, NewInvInit, NewInvStep, PTL DEF Spec

\* A Validator has everything that every client of the composite offers.
THEOREM NothingMissing == Spec => []AllOrNothing
  <1>1. NewInv => AllOrNothing
    BY DEF NewInv, FetchersGood, HasAll, Offered, AllOrNothing
  <1> QED
    BY <1>1, NewInvInit, NewInvStep, PTL DEF Spec

-----------------------------------------------------------------------------
\* How many fetchers have been asked.
Asked == Len(gvs[target]) - Len(pending)

\* An answer belongs to the fetchers of the latest New.
AnswerLast ==
  /\ pc # "idle" => answer = None
  /\ answer # None \/ pc = "schema" => gvs # None /\ target \in GroupVersion

\* The fetchers not asked yet are the last of the list.
PendingLast ==
  pc = "schema" =>
    /\ pending \in Seq(Source)
    /\ Len(pending) \in 1..Len(gvs[target])
    /\ \A i \in 1..Len(pending) : pending[i] = gvs[target][Asked + i]

\* What is combined of the first n fetchers: definitions of theirs, one of a name.
Sound(n, comb) ==
  /\ \A c \in comb : \E j \in 1..n : \E d \in Defs[gvs[target][j]][target] :
       c = Definition(gvs[target][j], d)
  /\ \A c, e \in comb : c.name = e.name => c = e

\* No local fetcher's definition is missing, or replaced by one of a later fetcher.
Covered(n, comb) ==
  \A j \in 1..n : gvs[target][j] \in Local =>
    \/ gvs[target][j] = "localSchemas" /\ flags.localBody = "noComponents"
    \/ \A d \in Defs[gvs[target][j]][target] : \E c \in comb :
         c.name = d.name /\ Rank(c.source) <= Rank(gvs[target][j])

SchemaInv ==
  /\ AnswerLast
  /\ PendingLast
  /\ pc = "schema" => Sound(Asked, combined) /\ Covered(Asked, combined)
  /\ ComponentsMissingOnlyAlone
  /\ NamesInPriorityOrder

\* The fetcher whose turn it is, among those of the list.
LEMMA Turn ==
  ASSUME NewInv, SchemaInv, pc = "schema"
  PROVE  /\ gvs # None /\ target \in GroupVersion
         /\ gvs[target] \in Seq(Source)
         /\ Asked \in Nat /\ Asked + 1 \in 1..Len(gvs[target])
         /\ Head(pending) = gvs[target][Asked + 1]
         /\ Head(pending) \in Source
         /\ \A j \in 1..Asked : Rank(gvs[target][j]) < Rank(Head(pending))
  <1>1. gvs # None /\ target \in GroupVersion
    BY DEF SchemaInv, AnswerLast
  <1>2. gvs[target] \in Seq(Source) /\ InOrder(gvs)
    BY <1>1 DEF NewInv, FetchersGood
  <1>3. /\ pending \in Seq(Source)
        /\ Len(pending) \in 1..Len(gvs[target])
        /\ \A i \in 1..Len(pending) : pending[i] = gvs[target][Asked + i]
    BY DEF SchemaInv, PendingLast
  <1>4. Asked \in Nat /\ Asked + 1 \in 1..Len(gvs[target])
    BY <1>2, <1>3 DEF Asked
  <1>5. Head(pending) = gvs[target][Asked + 1] /\ Head(pending) \in Source
    BY <1>3
  <1>6. \A j \in 1..Asked : Rank(gvs[target][j]) < Rank(Head(pending))
    BY <1>1, <1>2, <1>4, <1>5 DEF InOrder
  <1> QED
    BY <1>1, <1>2, <1>4, <1>5, <1>6

\* One more fetcher is combined.
LEMMA CombineSound ==
  ASSUME NewInv, SchemaInv, pc = "schema",
         NEW comb \in {combined, Combine(Head(pending))}
  PROVE  Sound(Asked + 1, comb)
  <1> DEFINE s == Head(pending)
  <1>1. Sound(Asked, combined) /\ Asked \in Nat
    BY Turn DEF SchemaInv
  <1>2. gvs[target][Asked + 1] = s /\ s \in Source /\ target \in GroupVersion
    BY Turn
  <1>3. ASSUME NEW c \in comb, c \notin combined
        PROVE  /\ \E d \in Defs[s][target] : c = Definition(s, d)
               /\ \A e \in combined : e.name # c.name
    BY <1>3 DEF Combine, Definition
  <1>4. ASSUME NEW c \in comb
        PROVE  \E j \in 1..(Asked + 1) : \E d \in Defs[gvs[target][j]][target] :
                 c = Definition(gvs[target][j], d)
    <2>1. CASE c \in combined
      BY <2>1, <1>1 DEF Sound
    <2>2. CASE c \notin combined
      <3>1. Asked + 1 \in 1..(Asked + 1)
        BY <1>1
      <3> QED
        BY <2>2, <3>1, <1>2, <1>3
    <2> QED
      BY <2>1, <2>2
  <1>5. ASSUME NEW c \in comb, NEW e \in comb, c.name = e.name
        PROVE  c = e
    <2>1. CASE c \in combined /\ e \in combined
      BY <2>1, <1>1, <1>5 DEF Sound
    <2>2. CASE c \notin combined /\ e \notin combined
      <3>1. PICK d \in Defs[s][target] : c = Definition(s, d)
        BY <2>2, <1>3
      <3>2. PICK f \in Defs[s][target] : e = Definition(s, f)
        BY <2>2, <1>3
      <3>3. d.name = f.name
        BY <3>1, <3>2, <1>5 DEF Definition
      <3> QED
        BY <3>1, <3>2, <3>3, <1>2, DefsAssumption
    <2>3. CASE c \in combined /\ e \notin combined
      BY <2>3, <1>3, <1>5
    <2>4. CASE c \notin combined /\ e \in combined
      BY <2>4, <1>3, <1>5
    <2> QED
      BY <2>1, <2>2, <2>3, <2>4
  <1> QED
    BY <1>4, <1>5 DEF Sound

LEMMA CombineCovers ==
  ASSUME NewInv, SchemaInv, pc = "schema",
         NEW body \in Fetched(Head(pending)), body \in {"noComponents", "document"},
         NEW comb, comb = IF body = "document" THEN Combine(Head(pending)) ELSE combined
  PROVE  Covered(Asked + 1, comb)
  <1> DEFINE s == Head(pending)
  <1>1. Covered(Asked, combined) /\ Sound(Asked, combined) /\ Asked \in Nat
    BY Turn DEF SchemaInv
  <1>2. /\ gvs[target][Asked + 1] = s
        /\ \A j \in 1..Asked : Rank(gvs[target][j]) < Rank(s)
    BY Turn
  <1>3. combined \subseteq comb
    BY DEF Combine
  <1>4. ASSUME NEW j \in 1..Asked, gvs[target][j] \in Local,
               ~(gvs[target][j] = "localSchemas" /\ flags.localBody = "noComponents"),
               NEW d \in Defs[gvs[target][j]][target]
        PROVE  \E c \in comb : c.name = d.name /\ Rank(c.source) <= Rank(gvs[target][j])
    BY <1>1, <1>3, <1>4 DEF Covered
  <1>5. ASSUME s \in Local, ~(s = "localSchemas" /\ flags.localBody = "noComponents"),
               NEW d \in Defs[s][target]
        PROVE  \E c \in comb : c.name = d.name /\ Rank(c.source) <= Rank(s)
    <2>1. body = "document"
      BY <1>5, FetchedBodies DEF NewInv, TypeOK, Local
    <2>2. CASE \E c \in combined : c.name = d.name
      <3>1. PICK c \in combined : c.name = d.name
        BY <2>2
      <3>2. PICK j \in 1..Asked : \E e \in Defs[gvs[target][j]][target] :
              c = Definition(gvs[target][j], e)
        BY <1>1 DEF Sound
      <3>3. c.source = gvs[target][j]
        BY <3>2 DEF Definition
      <3>4. Rank(c.source) <= Rank(s)
        BY <3>3, <1>2 DEF Rank
      <3> QED
        BY <3>1, <3>4, <1>3
    <2>3. CASE \A c \in combined : c.name # d.name
      <3>1. Definition(s, d) \in comb
        BY <2>1, <2>3 DEF Combine
      <3>2. Definition(s, d).name = d.name /\ Rank(Definition(s, d).source) <= Rank(s)
        BY DEF Definition, Rank
      <3> QED
        BY <3>1, <3>2
    <2> QED
      BY <2>2, <2>3
  <1>6. \A j \in 1..(Asked + 1) : j \in 1..Asked \/ j = Asked + 1
    BY <1>1
  <1> QED
    BY <1>2, <1>4, <1>5, <1>6 DEF Covered

\* What has answered is in the order of priority.
LEMMA AllCombined ==
  ASSUME NEW n \in Nat, n = Len(gvs[target]), NEW comb, Sound(n, comb), Covered(n, comb)
  PROVE  \A d \in comb :
           /\ \A e \in comb : e.name = d.name => e = d
           /\ \A s \in {gvs[target][i] : i \in 1..n} :
                (Rank(s) < Rank(d.source) /\ \E e \in Defs[s][target] : e.name = d.name) =>
                  s = "localSchemas" /\ flags.localBody = "noComponents"
  <1> SUFFICES ASSUME NEW d \in comb,
                      NEW i \in 1..n, Rank(gvs[target][i]) < Rank(d.source),
                      NEW f \in Defs[gvs[target][i]][target], f.name = d.name
               PROVE  gvs[target][i] = "localSchemas" /\ flags.localBody = "noComponents"
    BY DEF Sound
  <1>1. gvs[target][i] \in Local
    BY DEF Rank, Local
  <1>2. \A c \in comb : c.name = f.name => c = d
    BY DEF Sound
  <1>3. \A c \in comb : ~(c.name = f.name /\ Rank(c.source) <= Rank(gvs[target][i]))
    BY <1>2 DEF Rank
  <1> QED
    BY <1>1, <1>3 DEF Covered

LEMMA FetchStep ==
  ASSUME NewInv, SchemaInv, Fetch
  PROVE  SchemaInv'
  <1> DEFINE s == Head(pending)
  <1>1. PICK body \in Fetched(s) :
          /\ combined' = IF body = "document" THEN Combine(s) ELSE combined
          /\ \/ Alone /\ Answer(body)
             \/ ~Alone /\ Answer("error")
             \/ ~Alone /\ body \in Combinable /\ Len(pending) = 1 /\ Answer("document")
             \/ /\ ~Alone /\ body \in Combinable /\ Len(pending) # 1
                /\ pending' = Tail(pending)
                /\ UNCHANGED <<answer, pc>>
    BY DEF Fetch, Combinable
  <1>2. pc = "schema" /\ UNCHANGED <<flags, gvs, target>>
    BY DEF Fetch, new
  <1>3. /\ gvs # None /\ target \in GroupVersion
        /\ gvs[target] \in Seq(Source)
        /\ Asked \in Nat /\ Asked + 1 \in 1..Len(gvs[target])
        /\ s = gvs[target][Asked + 1]
    BY <1>2, Turn
  <1>4. /\ pending \in Seq(Source) /\ Len(pending) \in 1..Len(gvs[target])
        /\ \A i \in 1..Len(pending) : pending[i] = gvs[target][Asked + i]
        /\ Len(gvs[target]) = Asked + Len(pending)
    BY <1>2, <1>3 DEF SchemaInv, PendingLast, Asked
  <1>5. /\ body \in Body \cup {"error"}
        /\ body \in {"noComponents", "unusable", "garbage"} => s \in {"localSchemas", "github"}
        /\ flags.patch[target] \in Patch
    BY <1>3, FetchedBodies, FlagsTyped DEF NewInv, TypeOK
  <1>6. Sound(Asked + 1, combined')
    BY <1>1, <1>2, CombineSound
  <1>7. body \in Combinable => Covered(Asked + 1, combined')
    BY <1>1, <1>2, CombineCovers DEF Combinable
  <1>8. CASE /\ ~Alone /\ body \in Combinable /\ Len(pending) # 1
             /\ pending' = Tail(pending)
             /\ UNCHANGED <<answer, pc>>
    <2>1. /\ pending' \in Seq(Source)
          /\ Len(pending') = Len(pending) - 1
          /\ \A i \in 1..Len(pending') : pending'[i] = pending[i + 1]
      BY <1>4, <1>8
    <2>2. Asked' = Asked + 1
      BY <1>2, <1>3, <1>4, <2>1 DEF Asked
    <2>3. PendingLast'
      <3>1. Len(pending') \in 1..Len(gvs[target])
        BY <1>3, <1>4, <1>8, <2>1
      <3>2. ASSUME NEW i \in 1..Len(pending')
            PROVE  pending'[i] = gvs[target][Asked + 1 + i]
        <4>1. i + 1 \in 1..Len(pending) /\ Asked + (i + 1) = Asked + 1 + i
          BY <1>3, <1>4, <2>1
        <4> QED
          BY <1>4, <2>1, <4>1
      <3> QED
        BY <1>2, <2>1, <2>2, <3>1, <3>2 DEF PendingLast
    <2>4. Sound(Asked, combined)' /\ Covered(Asked, combined)'
      <3>1. Sound(Asked + 1, combined') /\ Covered(Asked + 1, combined')
        BY <1>6, <1>7, <1>8
      <3>2. Sound(Asked', combined') /\ Covered(Asked', combined')
        BY <3>1, <2>2
      <3> QED
        BY <1>2, <3>2 DEF Sound, Covered
    <2>5. answer' = None /\ pc' = "schema"
      BY <1>2, <1>8 DEF SchemaInv, AnswerLast
    <2> QED
      <3>1. answer' \notin Body
        BY <2>5, NoneAssumption
      <3>2. AnswerLast'
        BY <1>2, <1>3, <2>5 DEF AnswerLast
      <3>3. ComponentsMissingOnlyAlone' /\ NamesInPriorityOrder'
        BY <3>1 DEF ComponentsMissingOnlyAlone, NamesInPriorityOrder, Body
      <3> QED
        BY <2>3, <2>4, <3>2, <3>3 DEF SchemaInv
  <1>9. ASSUME NEW given \in {"error", "document", body}, Answer(given),
               given \notin {"error", "document"} => Alone,
               given # "error" => Len(pending) = 1,
               given = "document" => body \in Combinable
        PROVE  SchemaInv'
    <2>1. /\ answer' \in Overlay(flags.patch[target], given)
          /\ pc' = "idle"
      BY <1>9 DEF Answer
    <2>2. given \in Body \cup {"error"}
      BY <1>5 DEF Body
    <2>3. /\ answer' = "noComponents" =>
               \/ flags.patch[target] = "removes"
               \/ flags.patch[target] \in {"none", "keeps"} /\ given \in {"noComponents", "unusable"}
          /\ answer' = "unusable" =>
               flags.patch[target] \in {"array", "spoils"} \/ given = "unusable"
          /\ answer' = "garbage" => given = "garbage" /\ flags.patch[target] = "none"
          /\ answer' = "document" => given \in {"noComponents", "document", "unusable"}
      BY <1>5, <2>1, <2>2, Answers
    <2>4. answer' = "document" => NamesInPriorityOrder'
      <3> SUFFICES ASSUME answer' = "document"
                   PROVE  NamesInPriorityOrder'
        OBVIOUS
      <3>1. given # "error" /\ Asked + 1 = Len(gvs[target])
        BY <1>3, <1>4, <1>9, <2>3
      <3>2. CASE body \in Combinable
        <4>1. Sound(Len(gvs[target]), combined') /\ Covered(Len(gvs[target]), combined')
          BY <1>6, <1>7, <3>1, <3>2
        <4>2. Len(gvs[target]) \in Nat
          BY <1>3
        <4> QED
          BY <1>2, <4>1, <4>2, AllCombined DEF NamesInPriorityOrder
      <3>3. CASE body \notin Combinable
        <4>1. given = body /\ Alone
          BY <1>9, <3>1, <3>3 DEF Combinable
        <4>2. Asked = 0
          BY <1>3, <3>1, <4>1 DEF Alone
        <4>3. Sound(0, combined) /\ combined' = combined
          BY <1>1, <1>2, <3>3, <4>2 DEF SchemaInv, Combinable
        <4>4. combined' = {}
          BY <4>3 DEF Sound
        <4> QED
          BY <4>4 DEF NamesInPriorityOrder
      <3> QED
        BY <3>2, <3>3
    <2>5. given \in {"noComponents", "unusable", "garbage"} =>
            gvs[target] \in {<<"localSchemas">>, <<"github">>}
      <3> SUFFICES ASSUME given \in {"noComponents", "unusable", "garbage"}
                   PROVE  gvs[target] \in {<<"localSchemas">>, <<"github">>}
        OBVIOUS
      <3>1. Alone /\ given = body
        BY <1>9
      <3>2. gvs[target] = <<s>>
        BY <1>3, <1>4, <1>9, <3>1 DEF Alone
      <3> QED
        BY <1>5, <3>1, <3>2
    <2>6. ComponentsMissingOnlyAlone'
      BY <1>2, <2>3, <2>5 DEF ComponentsMissingOnlyAlone
    <2> QED
      BY <1>2, <1>3, <2>1, <2>4, <2>6
        DEF SchemaInv, AnswerLast, PendingLast, NamesInPriorityOrder
  <1>10. Alone => Len(pending) = 1
    BY <1>4, <1>3 DEF Alone
  <1>11. CASE Alone /\ Answer(body)
    BY <1>9, <1>10, <1>11 DEF Combinable
  <1>12. CASE ~Alone /\ Answer("error")
    BY <1>9, <1>12
  <1>13. CASE /\ ~Alone /\ body \in Combinable /\ Len(pending) = 1
              /\ Answer("document")
    BY <1>9, <1>13
  <1> QED
    BY <1>1, <1>8, <1>11, <1>12, <1>13

LEMMA SchemaInvStep ==
  ASSUME NewInv, SchemaInv, [Next]_clientVars
  PROVE  SchemaInv'
  <1>1. CASE Fetch
    BY <1>1, FetchStep
  <1>2. ASSUME NEW gv \in GroupVersion, AskSchema(gv)
        PROVE  SchemaInv'
    <2>1. /\ gvs # None /\ gvs[gv] # <<>> /\ UNCHANGED gvs
          /\ target' = gv /\ pending' = gvs[gv] /\ combined' = {}
          /\ answer' = None /\ pc' = "schema"
      BY <1>2 DEF AskSchema, new
    <2>2. gvs[gv] \in Seq(Source)
      BY <2>1 DEF NewInv, FetchersGood
    <2>3. Asked' = 0
      BY <2>1, <2>2 DEF Asked
    <2>4. PendingLast'
      <3>1. Len(gvs[gv]) \in 1..Len(gvs[gv])
        BY <2>1, <2>2
      <3>2. \A i \in 1..Len(gvs[gv]) : 0 + i = i
        BY <2>2
      <3> QED
        BY <2>1, <2>2, <2>3, <3>1, <3>2 DEF PendingLast
    <2>5. Sound(Asked, combined)' /\ Covered(Asked, combined)'
      BY <2>1, <2>3 DEF Sound, Covered
    <2>6. ComponentsMissingOnlyAlone' /\ NamesInPriorityOrder'
      BY <2>1, NoneAssumption DEF ComponentsMissingOnlyAlone, NamesInPriorityOrder, Body
    <2> QED
      BY <2>1, <2>4, <2>5, <2>6 DEF SchemaInv, AnswerLast
  <1>3. ASSUME pc' # "schema", answer' = None
        PROVE  SchemaInv'
    <2>1. ComponentsMissingOnlyAlone' /\ NamesInPriorityOrder'
      BY <1>3, NoneAssumption DEF ComponentsMissingOnlyAlone, NamesInPriorityOrder, Body
    <2> QED
      BY <1>3, <2>1 DEF SchemaInv, AnswerLast, PendingLast
  <1>4. CASE New
    BY <1>3, <1>4 DEF New
  <1>5. ASSUME pc \in Source \cup {"finish"}, UNCHANGED schema, pc' # "schema"
        PROVE  SchemaInv'
    <2>1. answer = None
      BY <1>5 DEF SchemaInv, AnswerLast, Source, Local, Remote
    <2> QED
      BY <1>3, <1>5, <2>1 DEF schema
  <1>6. ASSUME NEW s \in Local, ReadLocal(s)
        PROVE  SchemaInv'
    BY <1>5, <1>6 DEF ReadLocal, FallbackStart, BuiltinsStart, Source
  <1>7. CASE AskCluster
    BY <1>5, <1>7 DEF AskCluster, TryNext, BuiltinsStart, Source, Remote
  <1>8. CASE ReadHardcoded
    BY <1>5, <1>8 DEF ReadHardcoded, TryNext, Source
  <1>9. CASE AskGitHub
    BY <1>5, <1>9 DEF AskGitHub, Source, Remote
  <1>10. CASE Finish
    BY <1>5, <1>10 DEF Finish
  <1>11. ASSUME UNCHANGED <<flags, pc, gvs, schema>>
         PROVE  SchemaInv'
    BY <1>11 DEF schema, SchemaInv, AnswerLast, PendingLast, Asked, Sound, Covered,
      ComponentsMissingOnlyAlone, NamesInPriorityOrder
  <1>12. CASE OutageOrRecovery
    BY <1>11, <1>12 DEF OutageOrRecovery, new
  <1>13. CASE UNCHANGED clientVars
    BY <1>11, <1>13 DEF clientVars, new
  <1> QED
    BY <1>1, <1>2, <1>4, <1>6, <1>7, <1>8, <1>9, <1>10, <1>12, <1>13 DEF Next

LEMMA ClientInvariant == Spec => [](NewInv /\ SchemaInv)
  <1>1. Init => SchemaInv
    BY NoneAssumption DEF Init, SchemaInv, AnswerLast, PendingLast,
      ComponentsMissingOnlyAlone, NamesInPriorityOrder, Body
  <1> QED
    BY <1>1, NewInvInit, NewInvStep, SchemaInvStep, PTL DEF Spec

\* A schema without components, which infoForGVK dereferences, comes from a single
\* local file or a single download only, or from a patch of the user's that removes
\* them (groupversion/composite.go, groupversion/overlay.go).
THEOREM MissingOnlyAlone == Spec => []ComponentsMissingOnlyAlone
  <1>1. SchemaInv => ComponentsMissingOnlyAlone
    BY DEF SchemaInv
  <1> QED
    BY <1>1, ClientInvariant, PTL

\* Whatever fetchers are combined, the first that defines a name prevails.
THEOREM FirstNamePrevails == Spec => []NamesInPriorityOrder
  <1>1. SchemaInv => NamesInPriorityOrder
    BY DEF SchemaInv
  <1> QED
    BY <1>1, ClientInvariant, PTL

=============================================================================
