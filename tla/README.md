# Formal verification of kubectl-validate

kubectl-validate checks Kubernetes manifests against the OpenAPI schemas of a
cluster, of embedded builtins, of GitHub, of local schema files or of local
CRDs. This directory holds TLA+ models of the program, TLC runs that check them
on small instances, and TLAPS proofs of the most important results for all
values of the constants. Definitions are translated from the Go source;
`PROJECT.json` maps each to the lines it models.

## Inventory

| Component | Source | State | Operations | Used by |
|---|---|---|---|---|
| Validator | `pkg/validator/validator.go`, `validator_gvk.go` | `gvs` (fetchers by group-version, fixed by `New`), `validatorCache` (entry by GVK), per entry the memoised structural schema and schema validator | `New`, `Parse`, `Validate`, `infoForGVK` | the command; programs that import the package |
| Decoder | `pkg/validator/crd_decoder.go` | none | strict decoding, pruning, coercion, defaulting, over vendored apiextensions code | `Validator.Parse` |
| Reference resolution | `validator.go:164-276`, `pkg/utils/schema_visitor.go` | the schema graph, rewritten in place | a visitor over every definition | `infoForGVK` |
| Schema patches | `pkg/validator/schema_patcher.go` | none | four fixed rewrites | `infoForGVK`, the download tool |
| OpenAPI client tree | `pkg/openapiclient/{composite,fallback,overlay,kubeconfig}.go`, `groupversion/` | `chosenClient` of each fallback, the memoised client of the kubeconfig | `Paths`, `Schema` | `validator.New`, `infoForGVK` |
| Sources of schemas | `pkg/openapiclient/{local_schemas,local_crds,hardcoded_builtins,github_builtins}.go` | none of their own; the disk, the network | `Paths` lists or reads files, `Schema` reads one | the client tree |
| YAML documents | `pkg/utils/yaml.go` over the vendored `YAMLReader` | the reader's buffer | `SplitYamlDocuments`, `IsEmptyYamlDocument` | the command, local CRDs |
| Command | `pkg/cmd`, `pkg/utils/files.go`, `main.go` | found files, results, exit code | `Run`, `FindFiles`, `ValidateFile`, `ValidateDocument`, `errorToStatus` | the user |
| Structural conversion | `pkg/validator/structural.go` | none | exported, without a caller | nobody |
| download-builtin-schemas | `cmd/download-builtin-schemas` | files | one loop over GitHub releases | `go generate` |

How they interact. `Run` builds the tree of clients and calls `validator.New`,
which asks the whole tree for its `Paths` once. For each file, `ValidateFile`
splits documents and calls `ValidateDocument` for each, which calls `Parse` and
`Validate`; both call `infoForGVK`, which on a miss asks the fetcher of the
group-version for its `Schema`. Everything runs in one goroutine, but fetches
reach over the network to a cluster or GitHub, which may fail or recover between
any two of them, and Go maps are iterated in random order.

What is hard here, and therefore what properties are about (the list with lines
is under "hazards" in `PROJECT.json`):

- the cache is filled by side effects of lookups of other kinds, so verdicts may
  depend on the history of calls and on the order of map iterations;
- `Parse` and `Validate` look the kind up separately;
- failures are not cached, choices of the fallbacks are, and no request has a
  timeout;
- clients and fetchers are combined in an order of priority, at two levels, with
  different rules on what one failure means for the whole;
- the schema of a kind is patched, inlined by sharing pointers in the random
  order of a map, written out and read back, before anything is decoded under it;
- local CRDs are listed, read and decoded in three passes over a disk that may
  change, and a later document replaces an earlier one;
- what a user gives to lie over a schema, or a server returns for one, is merged
  without a look at what it does to the document;
- a malformed document, file or separator must be accounted for in the report
  and in the exit code.

What makes each component correct: the *Validator* gives a document the verdict
its schema deserves whatever came before it, and forgets nothing; the *client
tree* uses one remote source, by priority, and all or nothing of the rest; a *source*
publishes everything that it gets to read or refuses; *loading* a schema gives every
place the schema that its reference names, whatever the order of the map; the
*splitter* loses no line and cuts exactly at separators; the *command* reports
every document once, in order, and exits with what it reported.

## Modules

| Module | Models | Role |
|---|---|---|
| `Validator` | `New`, `Parse`, `Validate`, `infoForGVK`, `ValidateDocument` | the detailed model of the core |
| `KindCatalogue` | what a Validator promises | the abstract specification `Validator` implements |
| `ValidatorProofs` | | theorems about `Validator` |
| `RefResolution` | the loop of `infoForGVK` over `VisitSchema` | inlining references by sharing pointers |
| `RefProofs` | | theorems about `RefResolution` |
| `SchemaLoading` | `ApplySchemaPatches`, inlining with what stands beside a reference, `StructuralSchema`, decoding in `Parse` | extends `RefResolution`, which it implements |
| `SchemaLoadingProofs` | | that it does, and theorems about what it adds |
| `OpenAPIClient` | the tree of clients that `Run` builds, `Paths` and `Schema` | sources, priorities, overlays, outages |
| `OpenAPIProofs` | | theorems about `OpenAPIClient` |
| `LocalSources` | `Paths` of `--local-crds` and `--local-schemas` | the two local sources, document by document |
| `LocalProofs` | | theorems about `LocalSources` |
| `Fallback` | `fallbackClient.Paths` called by several goroutines | races on the atomic pointer |
| `FallbackProofs` | | theorems about `Fallback` |
| `YamlDocuments` | `SplitYamlDocuments`, `IsEmptyYamlDocument`, `YAMLReader.Read` | splitting, line by line |
| `YamlProofs` | | theorems about `YamlDocuments` |
| `Command` | `Run`, `FindFiles`, `ValidateFile`, `errorToStatus`, `main` | one run of the program |
| `FileSearch` | what `FindFiles` should find | recursive definition that `Command`'s search is compared with |
| `CommandProofs` | | theorems about `Command` and `FileSearch` |
| `MC*` | | instances for TLC |

### Validator

One call is in progress at a time (`pc`, `call`, `doc`, `entry`) and `verdicts`
records all answers. `call = "document"` is `cmd.ValidateDocument`, which goes
through `Parse` and then `Validate`; `"object"` is a user of the package calling
`Validate` alone. The labels of `pc` are the points between two calls of the
code: `Parse` and `Validate` are about to call `infoForGVK`; `decode` and
`create` have its entry; `native` is the handwritten validation of a
CustomResourceDefinition. `panicked` is a Go panic: the process is gone.

`infoForGVK` is the actions `CacheHit`, `SpecNotLocated`, `FetchFails`,
`FetchPanics`, `RefsDangle` and `Populate`, one per way out of it. `Populate`
stores an entry for every kind that any definition of the fetched document
claims. `LastWriters` is the nondeterminism of Go's map order: any claimant of a
kind may be stored last. `ScopeFor` takes the kind being looked up, not the kind
being stored, as the code does.

A published document is abstracted to what `infoForGVK` reads of it, and a
manifest to the definitions it decodes under and those it satisfies: the
constants `Claims`, `ScopeExtension`, `NamespacedPaths`, `DanglingRefs`,
`Cyclic` and `Doc`. An entry's memos are sets of definitions because the entries
of one document are made, and replaced, together.

`gvs` is any set of group-versions: what `New` got is the subject of
`OpenAPIClient`. `FetchFaults` says which faults a fetch may show; whether it
does is open at each fetch.

### YamlDocuments

A line is its role: content, ignored (blank or a comment), a separator, a
separator with a comment, a malformed separator. The reader's buffer is the range
of lines `start..next-1`; documents are ranges. `StopAtBadSeparator` is what
`SplitYamlDocuments` makes of the reader's error: it looks at the number of bytes
first, so it stops as at the end of the file.

### OpenAPIClient

A call of `New` runs through the tree source by source (`pc` names the source
being asked), a call of `AskSchema` through the fetchers of one group-version,
and `OutageOrRecovery` may come between any two steps. `merged` and `combined`
are the accumulators of the two composites, `outerChoice` and `innerChoice` the
pointers of the two fallbacks. Command line and local disk (`flags`) are fixed
before the run; a local file may still be gone when it is read.

`Body` says what a body is to the decoder of OpenAPI documents: with or without
components, JSON that is no such document, no JSON. `Patch` says what a patch does
to `components`; `Overlay` is the JSON merge patch (RFC 7396, with what the vendored
library makes of bodies and patches that are no objects) of one over the other.
The user's patch is applied to the final schema, whatever it is. The hand-written
patches (`handPatched`) lie over everything under the fallback, the cluster
included; the binary has them only for versions it has the schemas of, and each
sets components. The cluster and the embedded files answer with documents that have
components; only what is downloaded from GitHub, whose status nobody checks, and a
local file may be anything.

### LocalSources

`OpenAPIClient` takes from `flags.broken` whether a local source can be used;
`LocalSources` models what makes one so. `Paths` of the schema tree comes first,
then `Paths` of the CRDs, as in the composite: list a directory, read its files,
and when all are read decode their documents one by one. What the code ranges over
(`dirs`, `files`, `documents`) is a set of places, from which the first in the
order of directories, files and documents is taken; `Places` leaves out what is
blank in YAML and what the splitter does not get to. A file may be unreadable, or
vanish between being listed and being read, and both fail the source. A malformed
separator does not: `SplitYamlDocuments` hides its reader's error (violation 2), so
the branch for it (`local_crds.go:76-78`) is dead, and the file goes on as if it
ended there (`reached`). A document is what the decoder reports of it (`gvk`,
`err`), its versions, and what each version's schema converts to. `crds` holds
for each kind the place of the document that published it, which is what tells a
later definition from an earlier one.

### Fallback

`OpenAPIClient` has one caller. The atomic pointer in `fallbackClient` is there
for several, so `Fallback` models it alone, with any number of clients and
goroutines: load, ask, ask the next, store. A late search replaces the choice of
an earlier one (the store does not compare), which is why a choice is only final
when all searches that had not seen one are over.

### RefResolution and SchemaLoading

`Validator` takes from a constant whether the references of a document resolve;
`RefResolution` models how they are. A definition is abstracted to what it refers
to: itself (`ref`, also through a single `allOf`), through its `not`, and at the
places in its containers. `schemas` holds the structs, `containers` what they
point to, so a copy (`Resolve`) shares its original's containers and not its
`not`. `Follow` and `Explore` are one round of the loop; which definition comes
next is open, as is the order of a Go map. The place of a reference matters to
the outcome only if it is visited before or after `not`: `Early` and `Late`.

`SchemaLoading` adds what travels with a struct, its `marks`: nullable, default,
format, preserve-unknown-fields. A behaviour starts from a document as published
(`raw`); `PatchedRefs` and `PatchedMarks` are the four patches; `FollowMarked` and
`ExploreMarked` are the rounds of the loop with `Override`, by which what stands
beside a reference wins over what it refers to; `Parse` ends the behaviour with
what becomes of one manifest under one kind: a dangling reference, a schema that
contains itself (writing it out as JSON fails), a reference left over (reading it
back fails), malformed metadata, a strict error, or a value after nulls were
pruned and defaults filled in. It follows one field of the root, where every case
of pruning and defaulting occurs. Writing a schema out visits the definitions
whose containers it consists of, and theirs: `Closure` is the least set of them,
and `Schema` states, with each struct, the references and containers it holds.

### Command

A manifest's verdict is left open: `ValidateDocument` may return every error that
`errorToStatus` distinguishes, or panic. `FindFiles`' recursion is a stack;
`FileSearch` has its recursive definition (`Below`, a function on the nodes of the
tree), which `FilesFound` compares it with. It assumes that directories are finitely
nested, as those of a file system are: `ReadDir` does not follow links. Errors of
cobra itself (an unknown flag, no argument) exit with 3.

## Runs

| Run | Shows | Bounds |
|---|---|---|
| `validator` | types, explained entries, validated as decoded, outage immunity, exact verdicts, nothing forgotten, refinement of `KindCatalogue`, calls for cached kinds end | 4 group-versions, 8 kinds, 7 definitions, 8 documents, 3 calls, every fault of a fetch (417,368 states) |
| `validator_scope` | **violation**: scope is inferred from another kind's paths | the same |
| `schema_loading` | references, marks and decoding: bound to what is named, independent of the map's order, leftovers explained, refused rightly, nulls kept, objects made up only where asked for | 3 definitions; see below (130,558 states) |
| `openapi_client` | which sources are used and merged, in which order, what one failure, body or patch does to the rest | 3 group-versions, 4 calls (68,220 states) |
| `kind_priority` | **violation**: the merge is by definition name, not by kind | 2 calls |
| `kube_context` | **violation**: `--kube-context` is ignored | 1 call |
| `local_sources` | what is published, from which document, and what `Paths` fails for | 2 directories, 2 kinds, small trees, 1 file vanishing, files cut short (33,288 states) |
| `local_panic` | **violation**: a document that cannot be decoded is a nil pointer | the same |
| `fallback` | first answer wins, settled choices are final, nobody blocks | 2 clients, 3 goroutines, 2 calls each |
| `yaml_documents` | splitting is right, complete, and ends | every file of up to 5 lines |
| `yaml_bad_separator` | **violation**: reader errors are swallowed | up to 3 lines |
| `command` | all files found, all documents reported, exit code, termination | 8 command lines, 10 paths |

Why the bounds are enough. The instance of `Validator` has a kind of each sort that
the code treats differently: two kinds of one group-version with different scopes, a
kind claimed by definitions of two group-versions, a kind without definition, a CRD
with a stated scope, a group-version with a dangling reference,
CustomResourceDefinition itself with its cyclic schema. Every property relates at
most two calls and what an earlier lookup left in the cache; three calls give a
lookup, one that disturbs it and one that notices. Three group-versions of
`OpenAPIClient` are a built-in one with a local override, one without, and a CRD's,
so that schemas are passed through and combined from every source; the command lines
have every version, every patch of the user's over every body of a local file, and
otherwise differ from a plain one in one respect each. Four calls are two `New`s and
two `Schema`s around outages, in any order. The documents of `SchemaLoading` are all
with three definitions of at most one reference each, which has every chain and
cycle of length three, all with two definitions and any number of references, and a
kind whose field refers, with every combination of marks beside the reference and
beside the alias, to a type of every role, directly or by an alias. The directories
of `LocalSources` have two files before a third, every sort of document in the
middle, kinds defined by several of them, and files that cannot be read or that a
malformed separator cuts short at every place; its trees have two groups of two
files. Five lines hold a document, a separator, a second separator, a second
document and an end in every arrangement. The trees and command lines of `Command`
contain every kind of node, nested and named, and every kind of content.

Deadlock checking is off: all these programs end, and a model stops at its bound
on calls.

### Fairness

Only steps that compute locally are fair, and only `Validator`, `YamlDocuments`,
`Command` and `Fallback` need it. Nothing in the code bounds a request
(`http.Client{}` and the discovery client have no timeout), so no fetch is
assumed to return. `CachedCallsEnd`, `Finishes`, `Terminates` and `NobodyBlocks`
are exactly what remains true under that assumption.

### What the violations mean

1. *Scope* (`validator.go:298`): `namespaced.Has(gvk)` uses the kind looked up,
   although the set is built per kind. All kinds of a built-in group-version get
   the scope of the first one looked up.
2. *Reader errors* (`yaml.go:19`): `len(document) == 0` is true when the reader
   fails, so the branch that returns its error is dead, and the remaining
   documents of the file are not validated and not mentioned. In a file of
   `--local-crds` the same malformed separator loses the definitions behind it, and
   an earlier one of the same kind may be used instead of theirs: `OnlyTailsLost`
   and `LastDocumentWins` say that nothing else is lost or replaced.
3. *Priority of kinds* (`groupversion/composite.go:43`): a local CRD and the same
   CRD in the cluster have different definition names, so both survive the merge.
4. *`--kube-context`* (`kubeconfig.go:19`): the overrides are dropped.
5. *Documents that cannot be decoded* (`local_crds.go:103`): the kind is compared
   before the error is looked at, and on YAML the decoder returns no kind with an
   error. A syntax error in a directory of `--local-crds` is a nil dereference
   instead of the error of line 107.

Six more observations are not runs:

- A document of nothing but `--- # comment` is accepted as a separator by the
  reader and is not empty to `IsEmptyYamlDocument` (`yaml.go:36`): it is validated
  as an object, and refused.
- Errors of cobra itself reach the case of `main.go:19` of which the comment says
  that it "should not get hit".
- A shallow copy of a definition whose `not` is a reference keeps that reference
  if it is taken before the loop comes to the definition (`validator.go:219`),
  although the loop is there to "remove all references". No embedded schema has a
  `not`; `LeftoversExplained` says that nothing can be left over but from such a
  copy, or from a definition that is itself a reference.
- `RemoveInvalidDefaults` is there because `{}` "doesn't make sense if the type is
  special with custom marshalling" (`schema_patcher.go:123`). It looks at the name
  beside the default and not through an alias, so a field that refers to an alias of
  such a type keeps `{}` and is filled with an object that its type refuses. No
  embedded schema has such an alias; `NoInvalidDefaults` therefore says where an
  object may come from, and not that no field is ever filled wrongly.
- A patch given with `--schema-patches` that sets `components` to null makes any
  document one of those that `infoForGVK` dereferences through a nil pointer
  (`validator.go:158`), as a local file or a download without components does
  (`ComponentsMissingOnlyAlone`).
- The README's example of JSON output shows an object per path where the program
  prints an array.

## Proofs

`ValidatorProofs` assumes only `ConstantsAssumption` (the types of the constants)
and `NoEntryAssumption`. The inductive invariant is

    IInv == TypeOK /\ EntriesExplained /\ ValidatedAsDecoded /\ JudgedKindsCached

`EntriesExplained` and `ValidatedAsDecoded` are nearly inductive by themselves;
`OutageImmunity` speaks of pairs of answers and is not: it needs
`JudgedKindsCached` (a kind that was judged is in the cache, and the cache only
grows), from which a lookup failure, given only on a miss, is impossible.
`ExactVerdicts` is then proved by a step argument over `IInv`: an entry of a kind
with one claimant must be that claimant's. `ImplementsCatalogue` maps `known` to
the domain of the cache and `answers` to `verdicts`, and shows each step to be a
`Learn`, an `Answer` or a stutter.

`RefProofs` proves `TypeOK`, `NeverMisled`, `OrderIndependent` and
`LeftoversExplained` for any number of definitions, places and documents, from
assumptions on names and on what a definition may contain. Its invariant adds
`Untouched`: what the loop has not come to is as published. A followed definition
then denotes what its target does (`Respects` is the only thing assumed of a
denotation, so chains and cycles of references need no induction), and a place
gets a struct that leads where its name does, even when it refers to the
definition being visited. `LeftoversExplained` speaks of the end of the loop only;
it follows from `AllInherited`, which says of every struct, at any time, which
published definition its reference and its `not` were copied from.

`SchemaLoadingProofs` first shows that loading implements resolution
(`LoadingResolves`: every step is a step of the loop or leaves it alone), which
carries `NeverMisled` over, and then that the marks of a document of plain
definitions are in every order those of the patched document overridden once. It
assumes `RawAssumption`: a published document has the shape the patches expect.

`LoadInv` extends that invariant to what `Parse` concludes, in three parts.

- *Refusals.* `DanglingReported`: the errors gathered have those of every definition
  the loop has been to, and none that does not dangle. `BoxesPublished`: the
  containers a struct consists of were published to be in it, so what contains
  itself in memory did so in the document. `StructsComplete` is for the converse: a
  struct without a reference of its own has the containers of every definition that
  it was made from through references and `not`s. If writing a schema out meets no
  reference, everything below it is such a struct, and then a cycle of the document
  is one in memory. These are statements on `Closure`, of which four lemmas suffice.
- *Nulls.* `NullableMarked`: as soon as it is resolved, a definition or a place of
  a type that handles null itself is nullable, whatever stands beside it.
- *Defaults.* `DefaultsMarked`: a definition or a place has `{}` as its default only
  where the document asks for it (`AsksForObject`: after what the patches remove),
  there or at a definition that it leads to. An alias leads to what its target leads
  to (`LeadsOn`, again by `Closure`), which is what following it needs.

TLC checked each of these on the instance of `schema_loading` before it was proved.

`LocalProofs` proves the five properties of `LocalSources` for any disk and any
files that vanish. What `Paths` publishes is everything of the manifests still there
but what is behind a malformed separator, is blank or is skipped (`OnlyTailsLost`);
each statement is of the documents that the splitter gets to. `LInv` has one part
for each pass: `TreeSoFar` (the groups that are not waiting are listed, the others
not), `ReadSoFar` (a manifest still there is in a waiting directory, waiting itself,
or read with its documents queued) and `DecodedSoFar` (every document of a manifest
still there is queued or accounted for, and what is published comes from a document
before all those queued; with the order of the queue this is why the last definition
wins). `NothingPublished` joins the second part to the third. That a group has a
last name for each version is an induction (see below).

`OpenAPIProofs` has two invariants. `NewInv` is about `New`: the two fallbacks
agree on what is chosen (`ChoicesCoherent`), the lists that the composite gathers
follow choice and priority (`InOrder`), contain nobody whose turn has not come
(`NobodyEarly`, without which appending would not keep the order) and lack nobody
who answered (`NothingSkipped`); `FetchersGood` carries this over to what `New`
returned, which needs that a choice never changes (`ChoicesStick`). `SchemaInv` is
about `Schema` and relates what is combined to the fetchers already asked: it is
theirs, one definition of a name (`Sound`), and none of a local fetcher's is
missing or replaced by a later one's (`Covered`). That components are missing
only where one fetcher stands alone or a patch took them (`MissingOnlyAlone`) goes by
the cases of body and patch: what is combined has them, and `Overlay` says what a
patch leaves of them. The assumptions: sources, command
lines and documents are of their types, a document defines a name once, `None` is
none of the other values.

`CommandProofs` needs, beside the types, how far the run is (`Progress`) and that
`hasError` is set exactly if something reported failed. `EveryDocumentReported`
counts occurrences of files, so its step is an argument on cardinalities. It
assumes of the tree and of the command lines only their types.

`EveryFileFound` compares the stack with the recursion. The invariant `Searching`
is that what was found, followed by what the recursion would find below each entry
of the stack in turn (`Left`), is what it would find below the arguments
(`AllSought`): entering a directory replaces the top by what it is made of, taking
a file moves it over. The argument needs that `FlattenSeq` of a concatenation is the
concatenation of what it makes of both, and that `Below` satisfies its own
definition. TLA+ has that a recursive function does only if some function does, so
`SomethingTotal` constructs one: `Partial` solutions on sets of nodes closed under
entries agree where they meet, their union is a solution, and `NestingAssumption`
leaves no node outside it.

Inductions. The library's induction theorems take an operator, which the provers
here cannot instantiate. `WFMin` does not: in a well-founded relation every
non-empty set has a minimal element. Induction over numbers is done by least
counterexample from it (`LeastNumber` in `CommandProofs`, `LeastNatural` in
`LocalProofs`), and `NestingAssumption` is the same principle for directories.

`YamlProofs` has its own invariant `YInv`: documents and buffer are ordered and
apart, everything between is a separator, and no separator is inside a document
unless it is its first line. It holds for files of any length. `Complete` follows:
when a file without malformed separators is done, each line with content lies in a
document, and that document is not taken for an empty one.

`FallbackProofs` proves `TypeOK /\ FirstThatAnswers` inductive for any number of
clients, goroutines and calls, and `SettledForGood` from it.

Only model-checked: everything about liveness (`CachedCallsEnd`, `Terminates`,
`Finishes`, `NobodyBlocks`), which is out of the prover's reach, and the
violations. Every invariant that a run checks, every action property and the
refinement of `KindCatalogue` are theorems.

## Not modelled

- `structural.go`: exported code that nothing in the repository calls
  (`NewStructuralSchemaFactory` has no caller), and `schemaCoercingConverter`,
  which nothing calls either: the program never gets into their code.
- `download-builtin-schemas`: a tool that maintainers run once per release. It is a
  sequence of downloads and writes in which every error panics, and no part of the
  program reads what a failed one left behind.
- What a schema says of an object, coercion of metadata, pruning below the root:
  vendored apiextensions code; a verdict is a constant of `Validator`.
- Which kinds a definition claims (`pkg/utils/schema.go`), and which group-version
  the name of a file stands for: data, given to the models as constants.
- The version range of a patch: no patch has one, and the only caller passes 0.
- In `RefResolution`, places below one another within a definition: they are
  visited independently. Of what stands beside a reference, types and descriptions;
  an explicit `x-kubernetes-preserve-unknown-fields: false` there, which no embedded
  schema has and which would win over `true` in what is referred to; and that the
  patch for byte formats lengthens an `allOf` of a single reference.
- `--help`, with which the program exits with 0 and validates nothing.
- Goroutines sharing one `Validator`: its map has no lock, and concurrent use
  ends the process; the package does not promise more.
- Crashes and restarts: the program persists nothing.
- Wording, colours and layout of output; the text of flags.

## Plan

Done, in this order: `Validator` and `KindCatalogue` with proofs; `YamlDocuments`
with proofs; `OpenAPIClient`, `Fallback` with proofs, `Command`; `RefResolution`
with proofs; `SchemaLoading` (patches, marks, structural schemas, decoding) with
proofs; `LocalSources`; proofs of `OpenAPIClient`, of `Command` and of
`LeftoversExplained`; proofs of `LocalSources`, of what `SchemaLoading` concludes
and of `FileSearch`.

What could follow: a composition of `OpenAPIClient` and `Validator`, with `gvs` and
the faults of fetches given by the client. The interface is narrow (a set of
group-versions, and per fetch a body or an error) and every outcome of the client
is already among those that `Validator` allows, so it would add states rather than
behaviours.
