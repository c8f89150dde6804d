---------------------------- MODULE OpenAPIClient ----------------------------
(***************************************************************************)
(* The tree of OpenAPI clients that Run builds (pkg/openapiclient): local  *)
(* schema files, local CRDs and a fallback from the cluster to the         *)
(* built-in schemas, themselves a fallback from the embedded ones to       *)
(* GitHub; merged by a composite client under an overlay of user patches.  *)
(*                                                                         *)
(* A client is asked for its Paths when a Validator is created, and the    *)
(* group-version fetchers it returned for their Schema later on.  Between  *)
(* any two steps the cluster and GitHub may go down or come back.          *)
(***************************************************************************)
EXTENDS Naturals, Sequences, FiniteSets

CONSTANTS
  GroupVersion,  \* the group-versions
  Offers,        \* the group-versions each source has a document for
  Defs,          \* the definitions of a source for a group-version
  Flags,         \* the command lines, with what they find on disk
  CurrentContext,\* the context that is current in the kubeconfig
  MaxCalls,      \* bound on the calls of a behaviour
  None

Local == {"localSchemas", "localCRDs"}

Remote == {"cluster", "github"}

Source == Local \cup Remote \cup {"hardcoded"}

(***************************************************************************)
(* What a run of the program starts with.  A version is embedded in the    *)
(* binary, known to GitHub only, or the empty string; a local source is    *)
(* broken when a file of it cannot be listed or decoded; a local schema    *)
(* file may hold anything.  The binary has hand-written patches for some   *)
(* group-versions of the versions that are embedded in it.                 *)
(***************************************************************************)
\* What a body is to the decoder of OpenAPI documents: one with or without
\* components, JSON that is none (a list, components that are no object), or no
\* JSON.
Body == {"document", "noComponents", "unusable", "garbage"}

\* What the user's patch for a group-version does to components, if there is one:
\* no object nor array ("bad"), an array, or an object that removes them, sets
\* some, puts what is no object in their place, or does not mention them.
Patch == {"none", "bad", "array", "removes", "sets", "spoils", "keeps"}

Flag ==
  {f \in [version : {"embedded", "upstream", "empty"}, context : STRING,
          kubeconfig : BOOLEAN, broken : SUBSET Local, localBody : Body,
          patch : [GroupVersion -> Patch], handPatched : SUBSET GroupVersion] :
     f.handPatched # {} => f.version = "embedded"}

ASSUME OffersAssumption == Offers \in [Source -> SUBSET GroupVersion]

\* The definitions of a document are a map from their names.
ASSUME DefsAssumption ==
  \A s \in Source, gv \in GroupVersion : \A d, e \in Defs[s][gv] : d.name = e.name => d = e

ASSUME FlagsAssumption == Flags \subseteq Flag

ASSUME MaxCallsAssumption == MaxCalls \in Nat

ASSUME NoneAssumption ==
  None \notin Source \cup Body \cup {"builtins", "error"}

VARIABLES
  flags,
  up,           \* the remote sources that answer
  outerChoice,  \* chosenClient of the fallback from cluster to built-ins
  innerChoice,  \* chosenClient of the fallback from embedded to GitHub
  kubeClient,   \* the context of the memoised client of kubeConfig
  pc, calls,
  merged,       \* the fetchers the composite has gathered, by group-version
  errors,       \* has a client of the composite failed in this call
  gvs,          \* what the latest New returned: the fetchers, or None
  target,       \* the group-version whose Schema is asked for
  pending,      \* its fetchers not asked yet
  combined,     \* the definitions gathered
  answer        \* what Schema returned

new == <<merged, errors, gvs>>
schema == <<target, pending, combined, answer>>
choices == <<outerChoice, innerChoice, kubeClient>>
clientVars == <<flags, up, choices, pc, calls, new, schema>>

NoFetchers == [gv \in GroupVersion |-> <<>>]

Init ==
  /\ flags \in Flags
  /\ up \in SUBSET Remote
  /\ outerChoice = None /\ innerChoice = None /\ kubeClient = None
  /\ pc = "idle" /\ calls = 0
  /\ merged = NoFetchers /\ errors = FALSE /\ gvs = None
  /\ target = None /\ pending = <<>> /\ combined = {} /\ answer = None

\* The cluster or GitHub goes down or comes back.
OutageOrRecovery ==
  /\ up' \in (SUBSET Remote) \ {up}
  /\ UNCHANGED <<flags, choices, pc, calls, new, schema>>

-----------------------------------------------------------------------------
(***************************************************************************)
(* validator.New: Paths of the whole tree.                                 *)
(***************************************************************************)
New ==
  /\ pc = "idle"
  /\ calls < MaxCalls
  /\ calls' = calls + 1
  /\ pc' = "localSchemas"
  /\ merged' = NoFetchers /\ errors' = FALSE
  /\ answer' = None
  /\ UNCHANGED <<flags, up, choices, gvs, target, pending, combined>>

\* A client of the composite answered: its fetchers come behind those of the
\* clients before it.
Gather(s) ==
  /\ merged' = [gv \in GroupVersion |->
                  IF gv \in Offers[s] THEN Append(merged[gv], s) ELSE merged[gv]]
  /\ UNCHANGED errors

\* A client of the composite failed.
Miss == errors' = TRUE /\ UNCHANGED merged

\* A client of a fallback failed and the next one is tried.
TryNext(s) == pc' = s /\ UNCHANGED <<merged, errors>>

\* Mutant: the chosen client is used without a look whether there is one.
ChosenUnchecked == innerChoice

\* Where the two fallbacks start, given what they have chosen before.
BuiltinsStart == IF innerChoice = "github" THEN "github" ELSE "hardcoded"

\* Mutant: the outer fallback forgets what it chose.
AlwaysFromTop == "cluster"

FallbackStart == IF outerChoice = "builtins" THEN BuiltinsStart ELSE "cluster"

ReadLocal(s) ==
  /\ pc = s
  /\ pc' = IF s = "localSchemas" THEN "localCRDs" ELSE FallbackStart
  /\ \/ s \in flags.broken /\ Miss
     \/ s \notin flags.broken /\ Gather(s)
  /\ UNCHANGED <<flags, up, choices, calls, gvs, schema>>

\* The overrides given to NewKubeConfig are dropped, so the current context is
\* used whatever the flags say.
AskCluster ==
  /\ pc = "cluster"
  /\ kubeClient' = IF flags.kubeconfig THEN CurrentContext ELSE None
  /\ \/ /\ flags.kubeconfig /\ "cluster" \in up
        /\ outerChoice' = "cluster"
        /\ Gather("cluster")
        /\ pc' = "finish"
     \/ /\ ~(flags.kubeconfig /\ "cluster" \in up)
        /\ UNCHANGED outerChoice
        /\ \/ outerChoice = None /\ TryNext(BuiltinsStart)
           \/ outerChoice = "cluster" /\ Miss /\ pc' = "finish"
  /\ UNCHANGED <<flags, up, innerChoice, calls, gvs, schema>>

\* Without a version there is nothing to offer, which is not an error.
ReadHardcoded ==
  /\ pc = "hardcoded"
  /\ \/ /\ flags.version = "upstream"
        /\ TryNext("github")
        /\ UNCHANGED choices
     \/ /\ flags.version # "upstream"
        /\ IF flags.version = "empty" THEN UNCHANGED <<merged, errors>>
                                      ELSE Gather("hardcoded")
        /\ outerChoice' = "builtins" /\ innerChoice' = "hardcoded"
        /\ pc' = "finish"
        /\ UNCHANGED kubeClient
  /\ UNCHANGED <<flags, up, calls, gvs, schema>>

AskGitHub ==
  /\ pc = "github"
  /\ pc' = "finish"
  /\ \/ /\ "github" \in up
        /\ Gather("github")
        /\ outerChoice' = "builtins" /\ innerChoice' = "github"
     \/ /\ "github" \notin up
        /\ Miss
        /\ UNCHANGED <<outerChoice, innerChoice>>
  /\ UNCHANGED <<flags, up, kubeClient, calls, gvs, schema>>

\* Mutant: what the composite has is used although a client failed.
FinishPartial ==
  /\ pc = "finish"
  /\ pc' = "idle"
  /\ gvs' = merged
  /\ UNCHANGED <<flags, up, choices, calls, merged, errors, schema>>

\* The composite returns what it has together with the error; the overlay, and
\* New, return the error alone.
Finish ==
  /\ pc = "finish"
  /\ pc' = "idle"
  /\ gvs' = IF errors THEN None ELSE merged
  /\ UNCHANGED <<flags, up, choices, calls, merged, errors, schema>>

-----------------------------------------------------------------------------
(***************************************************************************)
(* GroupVersion.Schema of the fetchers that New returned.                  *)
(***************************************************************************)
AskSchema(gv) ==
  /\ pc = "idle"
  /\ calls < MaxCalls
  /\ gvs # None /\ gvs[gv] # <<>>
  /\ calls' = calls + 1
  /\ pc' = "schema"
  /\ target' = gv
  /\ pending' = gvs[gv]
  /\ combined' = {}
  /\ answer' = None
  /\ UNCHANGED <<flags, up, choices, new>>

\* Mutant: two fetchers are passed through like one.
AloneOffByOne == Len(gvs[target]) <= 2

Alone == Len(gvs[target]) = 1

\* What a fetcher may return.  GitHub's downloads are not checked for their
\* status, so the body of an error is taken for a schema; a local file may be gone
\* when it is read.
Bodies(s) ==
  CASE s = "localSchemas" -> {flags.localBody, "error"}
    [] s = "github" /\ "github" \in up -> Body
    [] s \in Remote \ up -> {"error"}
    [] OTHER -> {"document"}

\* What an object as patch may make of a body: null deletes a member, an object is
\* merged into one, and takes the place of a body that is none.
Merged(patch, body) ==
  CASE patch = "removes" -> {"noComponents"} \cup ({body} \cap {"unusable"})
    [] patch = "sets" -> {"document"} \cup ({body} \cap {"unusable"})
    [] patch = "spoils" -> {"unusable"}
    [] patch = "keeps" -> IF body = "unusable" THEN {"unusable", "noComponents", "document"}
                                               ELSE {body}

\* An overlay merges its patch, if any, into what its delegate returns.  An array
\* takes the place of any body; the merge refuses a body that is no JSON, or null,
\* which is one of those without components.
Overlay(patch, body) ==
  IF patch = "none" \/ body = "error" THEN {body}
  ELSE IF patch = "bad" \/ body = "garbage" THEN {"error"}
  ELSE (IF patch = "array" THEN {"unusable"} ELSE Merged(patch, body))
       \cup (IF body = "noComponents" THEN {"error"} ELSE {})

\* What the composite gets of a fetcher: those of the fallback are under the
\* overlay of the hand-written patches, which set components.
Fetched(s) ==
  LET patch == IF s \notin Local /\ target \in flags.handPatched THEN "sets" ELSE "none"
  IN  UNION {Overlay(patch, body) : body \in Bodies(s)}

\* The user's patch is applied on top of the final schema.
Answer(body) ==
  answer' \in Overlay(flags.patch[target], body) /\ pc' = "idle" /\ pending' = <<>>

Definition(s, d) == [name |-> d.name, gvk |-> d.gvk, source |-> s]

\* Mutant: a later definition replaces an earlier one of the same name.
CombineLater(s) ==
  {c \in combined : \A d \in Defs[s][target] : c.name # d.name}
  \cup {Definition(s, d) : d \in Defs[s][target]}

\* The definitions of a document, but those already there under the same name.
Combine(s) ==
  combined \cup {Definition(s, d) : d \in {e \in Defs[s][target] :
                                             \A c \in combined : c.name # e.name}}

\* What parses as an OpenAPI document.
Combinable == {"document", "noComponents"}

\* A single fetcher is passed through; several are parsed and combined, which
\* skips a document without components.
Fetch ==
  /\ pc = "schema"
  /\ LET s == Head(pending)
         last == Len(pending) = 1
     IN  \E body \in Fetched(s) :
           /\ combined' = IF body = "document" THEN Combine(s) ELSE combined
           /\ \/ Alone /\ Answer(body)
              \/ ~Alone /\ body \notin Combinable /\ Answer("error")
              \/ ~Alone /\ body \in Combinable /\ last /\ Answer("document")
              \/ /\ ~Alone /\ body \in Combinable /\ ~last
                 /\ pending' = Tail(pending)
                 /\ UNCHANGED <<answer, pc>>
  /\ UNCHANGED <<flags, up, choices, calls, new, target>>

Next ==
  \/ OutageOrRecovery
  \/ New
  \/ \E s \in Local : ReadLocal(s)
  \/ AskCluster
  \/ ReadHardcoded
  \/ AskGitHub
  \/ Finish
  \/ \E gv \in GroupVersion : AskSchema(gv)
  \/ Fetch

Spec == Init /\ [][Next]_clientVars

-----------------------------------------------------------------------------
Chosen == IF outerChoice = "builtins" THEN innerChoice ELSE outerChoice

Rank(s) == CASE s = "localSchemas" -> 1 [] s = "localCRDs" -> 2 [] OTHER -> 3

\* Variables keep their types.
TypeOK ==
  /\ flags \in Flags
  /\ up \subseteq Remote
  /\ outerChoice \in {None, "cluster", "builtins"}
  /\ innerChoice \in {None, "hardcoded", "github"}
  /\ kubeClient \in {None, CurrentContext}
  /\ pc \in Source \cup {"idle", "finish", "schema"}
  /\ calls \in 0..MaxCalls
  /\ DOMAIN merged = GroupVersion
  /\ \A gv \in GroupVersion : merged[gv] \in Seq(Source)
  /\ errors \in BOOLEAN
  /\ target \in GroupVersion \/ (target = None /\ pc # "schema")
  /\ answer \in Body \cup {None, "error"}

\* A Validator never mixes the cluster, the embedded and the GitHub schemas, and
\* two Validators of one client never differ in which of them they use, whatever
\* went down or came back between their creation: fetchers follow the choice,
\* in the order of priority of the clients, and GitHub is chosen only when the
\* binary has no schemas of the version.
FetchersFollowChoice ==
  gvs # None =>
    \A gv \in GroupVersion : \A i \in 1..Len(gvs[gv]) :
      /\ gvs[gv][i] \notin Local => gvs[gv][i] = Chosen
      /\ gvs[gv][i] = "github" => flags.version = "upstream"
      /\ \A j \in 1..(i - 1) : Rank(gvs[gv][j]) < Rank(gvs[gv][i])

\* A Validator exists only if every client of the composite answered: it has
\* everything they offer, never a part.
AllOrNothing ==
  gvs # None =>
    /\ flags.broken = {}
    /\ \A gv \in GroupVersion, s \in (Local \cup {Chosen}) \ {None} :
         (gv \in Offers[s] /\ ~(s = "hardcoded" /\ flags.version = "empty")) =>
           \E i \in 1..Len(gvs[gv]) : gvs[gv][i] = s

\* A schema without components, which infoForGVK dereferences, is never the result
\* of combining: it is what the user's patch removed them from, or a single local
\* file or GitHub download that no patch gives any.  Likewise, what is no OpenAPI
\* document got through alone or was made so by the patch, and what is no JSON gets
\* past no patch at all.
ComponentsMissingOnlyAlone ==
  LET patch == flags.patch[target]
      single == gvs[target] \in {<<"localSchemas">>, <<"github">>}
  IN  /\ answer = "noComponents" =>
           patch = "removes" \/ (single /\ patch \in {"none", "keeps"})
      /\ answer = "unusable" => patch \in {"array", "spoils"} \/ single
      /\ answer = "garbage" => single /\ patch = "none"

\* In a schema that was answered every name is defined once, before the user's
\* patch, by the first fetcher that answered with a document defining it.
NamesInPriorityOrder ==
  answer = "document" =>
    \A d \in combined :
      /\ \A e \in combined : e.name = d.name => e = d
      /\ \A s \in {gvs[target][i] : i \in 1..Len(gvs[target])} :
           (Rank(s) < Rank(d.source) /\ \E e \in Defs[s][target] : e.name = d.name) =>
             s = "localSchemas" /\ flags.localBody = "noComponents"

-----------------------------------------------------------------------------
\* The composite tries its clients in a priority order: what defines a kind is
\* the first fetcher that does.
KindsInPriorityOrder ==
  answer = "document" =>
    \A c, d \in combined : c.gvk = d.gvk => c.source = d.source

\* The cluster that is contacted is the one the flag names.
ContextHonoured == kubeClient \in {None, flags.context}
=============================================================================
