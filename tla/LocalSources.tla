------------------------------ MODULE LocalSources ------------------------------
(***************************************************************************)
(* Paths of the two sources of schemas on the local disk.  --local-crds is *)
(* a list of directories of manifests: every file of every directory is    *)
(* read, then every document decoded, and the versions of the              *)
(* CustomResourceDefinitions among them published by group-version.        *)
(* --local-schemas is a tree of OpenAPI documents, of which only the names *)
(* are listed.  Meanwhile files may vanish from the disk.                  *)
(***************************************************************************)
EXTENDS Naturals, Sequences, FiniteSets

CONSTANTS
  Disks,      \* what the two flags may find
  Kind,       \* group, version and kind
  GroupVersion,\* what a file of the tree may stand for
  MaxLosses,  \* bound on the files that vanish while they are looked for
  None

(***************************************************************************)
(* A document is what the decoder of k8s makes of it: the kind it reports, *)
(* if it gets as far as that, and an error ("unregistered": that of a kind *)
(* its scheme does not know).  A CustomResourceDefinition has versions,    *)
(* each the kind it publishes and what becomes of its schema.  The decoder *)
(* reports no kind with any error on YAML, and on JSON without readable    *)
(* type metadata.                                                          *)
(***************************************************************************)
Version == [kind : Kind, schema : {"structural", "notStructural", "absent"}]

Document ==
  {d \in [gvk : {"crd", "other", None}, err : {"none", "unregistered", "invalid"},
          blank : BOOLEAN, versions : Seq(Version)] :
     d.err = "none" => d.gvk # None}

\* The documents of a file, and how many of them the splitter gets to: it stops
\* before a malformed separator, and with it goes what lies between that and the
\* separator before.  A JSON file is one document.
File ==
  {f \in [type : {"directory", "json", "yaml", "otherwise"}, readable : BOOLEAN,
          docs : Seq(Document), reached : Nat] :
     /\ f.reached <= Len(f.docs)
     /\ f.type # "yaml" => f.reached = Len(f.docs)}

Directory == [state : {"present", "missing", "unreadable"}, files : Seq(File)]

(***************************************************************************)
(* A group of the tree has files, in the order of their names: what each   *)
(* name stands for, or None if it is no *.json.  A plain file where a      *)
(* group is expected cannot be listed.                                     *)
(***************************************************************************)
Group == [listable : BOOLEAN, versions : Seq(GroupVersion \cup {None})]

Tree == [root : {"present", "missing", "unreadable"}, groups : Seq(Group)]

ASSUME DisksAssumption ==
  \A d \in Disks :
    d.crds \in Seq(Directory) /\ d.schemas \in Tree

ASSUME NoneAssumption ==
  None \notin {"ok", "error", "panicked", "crd", "other"} /\ None \notin Nat \X Nat \X Nat

VARIABLES
  disk,       \* what was on the disk to begin with
  gone,       \* the files that have vanished from it: directory, file
  pc,         \* where Paths stands
  dirs,       \* the directories or groups still to be listed
  files,      \* the listed files still to be read: directory, file
  documents,  \* where the documents still to be decoded are: directory, file, document
  crds,       \* the kinds published so far, each by the place of its document
  paths,      \* the files of the tree that stand for something: group, file
  outcome     \* what the two Paths returned, by source

localVars == <<disk, gone, pc, dirs, files, documents, crds, paths, outcome>>

Init ==
  /\ disk \in Disks
  /\ gone = {}
  /\ pc = "root"
  /\ dirs = {} /\ files = {} /\ documents = {}
  /\ crds = [k \in Kind |-> None]
  /\ paths = {}
  /\ outcome = [schemas |-> None, crds |-> None]

\* The order in which directories list files, and files documents.
BeforeFile(f, g) == f[1] < g[1] \/ (f[1] = g[1] /\ f[2] < g[2])

Before(p, q) == BeforeFile(p, q) \/ (p[1] = q[1] /\ p[2] = q[2] /\ p[3] < q[3])

Answered(source, result) ==
  /\ outcome' = [outcome EXCEPT ![source] = result]
  /\ pc' = IF result = "panicked" THEN "panicked"
           ELSE IF source = "schemas" THEN "list" ELSE "done"

\* Mutant: a Paths that fails leaves its queues behind.
ReturnAsIs(source, result) ==
  /\ Answered(source, result)
  /\ dirs' = IF source = "schemas" THEN DOMAIN disk.crds ELSE {}
  /\ UNCHANGED <<files, documents>>

\* One Paths returns; the composite calls the other whatever the first returned.
Return(source, result) ==
  /\ Answered(source, result)
  /\ dirs' = IF source = "schemas" THEN DOMAIN disk.crds ELSE {}
  /\ files' = {} /\ documents' = {}

\* A file of the manifests is removed by somebody else.
Vanish(i, j) ==
  /\ Cardinality(gone) < MaxLosses
  /\ <<i, j>> \notin gone
  /\ gone' = gone \cup {<<i, j>>}
  /\ UNCHANGED <<disk, pc, dirs, files, documents, crds, paths, outcome>>

-----------------------------------------------------------------------------
(***************************************************************************)
(* localSchemasClient.                                                     *)
(***************************************************************************)
ListRoot ==
  /\ pc = "root"
  /\ \/ disk.schemas.root = "unreadable" /\ Return("schemas", "error")
     \/ disk.schemas.root = "missing" /\ Return("schemas", "ok")
     \/ /\ disk.schemas.root = "present"
        /\ pc' = "groups"
        /\ dirs' = DOMAIN disk.schemas.groups
        /\ UNCHANGED <<files, documents, outcome>>
  /\ UNCHANGED <<disk, gone, crds, paths>>

\* Mutant: the entries that replace no earlier one.
First(entries) ==
  {i \in DOMAIN entries :
     entries[i] # None /\ \A j \in DOMAIN entries : j < i => entries[j] # entries[i]}

\* The entries that no later one replaces: "v1.json" comes after "v1.JSON".
Last(entries) ==
  {i \in DOMAIN entries :
     entries[i] # None /\ \A j \in DOMAIN entries : j > i => entries[j] # entries[i]}

ListGroup(i) ==
  /\ pc = "groups" /\ i \in dirs /\ \A j \in dirs : i <= j
  /\ LET group == disk.schemas.groups[i]
     IN  \/ ~group.listable /\ Return("schemas", "error") /\ UNCHANGED paths
         \/ /\ group.listable
            /\ paths' = paths \cup {<<i, v>> : v \in Last(group.versions)}
            /\ dirs' = dirs \ {i}
            /\ UNCHANGED <<pc, files, documents, outcome>>
  /\ UNCHANGED <<disk, gone, crds>>

ListedGroups ==
  /\ pc = "groups" /\ dirs = {}
  /\ Return("schemas", "ok")
  /\ UNCHANGED <<disk, gone, crds, paths>>

-----------------------------------------------------------------------------
(***************************************************************************)
(* localCRDsClient.                                                        *)
(***************************************************************************)
\* A directory that does not exist is like an empty one.
ListDirectory(i) ==
  /\ pc = "list" /\ files = {} /\ i \in dirs /\ \A j \in dirs : i <= j
  /\ \/ disk.crds[i].state = "unreadable" /\ Return("crds", "error")
     \/ /\ disk.crds[i].state # "unreadable"
        /\ files' = IF disk.crds[i].state = "missing" THEN {}
                    ELSE {<<i, j>> : j \in DOMAIN disk.crds[i].files} \ gone
        /\ dirs' = dirs \ {i}
        /\ UNCHANGED <<pc, documents, outcome>>
  /\ UNCHANGED <<disk, gone, crds, paths>>

FileAt(f) == disk.crds[f[1]].files[f[2]]

DocumentAt(p) == FileAt(p).docs[p[3]]

Blank(f, n) == FileAt(f).type = "yaml" /\ FileAt(f).docs[n].blank

\* The documents that are made of a file: what the splitter gets to, without what is
\* blank in YAML.
Places(f) == {<<f[1], f[2], n>> : n \in {m \in 1..FileAt(f).reached : ~Blank(f, m)}}

Wanted(f) == FileAt(f).type \in {"json", "yaml"}

Readable(f) == f \notin gone /\ FileAt(f).readable

\* Files are read in the order in which they are listed.
IsNextFile(f) ==
  /\ pc = "list" /\ f \in files
  /\ \A g \in files : ~BeforeFile(g, f)

\* Mutant: a file that cannot be read is passed over.
SkipUnreadable(f) ==
  /\ IsNextFile(f)
  /\ documents' = documents \cup (IF Wanted(f) /\ Readable(f) THEN Places(f) ELSE {})
  /\ files' = files \ {f}
  /\ UNCHANGED <<disk, gone, pc, dirs, crds, paths, outcome>>

\* The splitter returns no error, so a file that does not split is not refused.
ReadFile(f) ==
  /\ IsNextFile(f)
  /\ \/ Wanted(f) /\ ~Readable(f) /\ Return("crds", "error")
     \/ /\ Wanted(f) => Readable(f)
        /\ documents' = documents \cup (IF Wanted(f) THEN Places(f) ELSE {})
        /\ files' = files \ {f}
        /\ UNCHANGED <<pc, dirs, outcome>>
  /\ UNCHANGED <<disk, gone, crds, paths>>

ReadAll ==
  /\ pc = "list" /\ files = {} /\ dirs = {}
  /\ pc' = "decode"
  /\ UNCHANGED <<disk, gone, dirs, files, documents, crds, paths, outcome>>

\* Mutant: what the decoder does not know is not skipped.
SkippedOther(d) == d.gvk = "other"

\* Not a CustomResourceDefinition, as far as the decoder can tell.
Skipped(d) == d.err = "unregistered" \/ d.gvk = "other"

\* The first version whose schema cannot be converted decides what happens.
Fault(versions) ==
  LET bad == {i \in DOMAIN versions : versions[i].schema # "structural"}
  IN  IF bad = {} THEN "structural"
      ELSE versions[CHOOSE i \in bad : \A j \in bad : i <= j].schema

Kinds(d) == {d.versions[i].kind : i \in DOMAIN d.versions}

\* Mutant: what is published first stays.
PublishFirst(p) ==
  crds' = [k \in Kind |-> IF k \in Kinds(DocumentAt(p)) /\ crds[k] = None THEN p ELSE crds[k]]

\* The versions of a document are added, or replace those of the same kind.
Publish(p) ==
  crds' = [k \in Kind |-> IF k \in Kinds(DocumentAt(p)) THEN p ELSE crds[k]]

\* The kind is looked at before the error: without one this is a nil pointer, as
\* is the schema of a version that has none.
DecodeDocument(p) ==
  /\ pc = "decode" /\ p \in documents
  /\ \A q \in documents : ~Before(q, p)
  /\ LET d == DocumentAt(p)
     IN  \/ /\ Skipped(d)
            /\ documents' = documents \ {p}
            /\ UNCHANGED <<pc, dirs, files, crds, outcome>>
         \/ ~Skipped(d) /\ d.gvk = None /\ Return("crds", "panicked") /\ UNCHANGED crds
         \/ /\ ~Skipped(d) /\ d.gvk = "crd" /\ d.err = "invalid"
            /\ Return("crds", "error") /\ UNCHANGED crds
         \/ /\ d.gvk = "crd" /\ d.err = "none" /\ Fault(d.versions) = "notStructural"
            /\ Return("crds", "error") /\ UNCHANGED crds
         \/ /\ d.gvk = "crd" /\ d.err = "none" /\ Fault(d.versions) = "absent"
            /\ Return("crds", "panicked") /\ UNCHANGED crds
         \/ /\ d.gvk = "crd" /\ d.err = "none" /\ Fault(d.versions) = "structural"
            /\ Publish(p)
            /\ documents' = documents \ {p}
            /\ UNCHANGED <<pc, dirs, files, outcome>>
  /\ UNCHANGED <<disk, gone, paths>>

DecodedAll ==
  /\ pc = "decode" /\ documents = {}
  /\ Return("crds", "ok")
  /\ UNCHANGED <<disk, gone, crds, paths>>

Step ==
  \/ ListRoot \/ ListedGroups \/ ReadAll \/ DecodedAll
  \/ \E i \in dirs : ListGroup(i) \/ ListDirectory(i)
  \/ \E f \in files : ReadFile(f)
  \/ \E p \in documents : DecodeDocument(p)

Next ==
  \/ Step
  \/ \E i \in DOMAIN disk.crds : \E j \in DOMAIN disk.crds[i].files : Vanish(i, j)

Spec == Init /\ [][Next]_localVars

-----------------------------------------------------------------------------
\* Everything in the directories, and the manifests in those that exist.
Entries == UNION {{<<i, j>> : j \in DOMAIN disk.crds[i].files} : i \in DOMAIN disk.crds}

Manifests == {f \in Entries : disk.crds[f[1]].state = "present" /\ Wanted(f)}

Publishable(d) == d.gvk = "crd" /\ d.err = "none" /\ Fault(d.versions) = "structural"

\* Variables keep their types, what is queued is on the disk, and a Paths that
\* has returned has left nothing behind for the other.
TypeOK ==
  /\ disk \in Disks
  /\ pc \in {"root", "groups", "list", "decode", "done", "panicked"}
  /\ pc = "groups" => dirs \subseteq DOMAIN disk.schemas.groups
  /\ pc # "groups" => dirs \subseteq DOMAIN disk.crds
  /\ files \subseteq {f \in Entries : f[1] \notin dirs}
  /\ documents \subseteq UNION {Places(f) : f \in Manifests}
  /\ DOMAIN crds = Kind
  /\ outcome \in [{"schemas", "crds"} -> {None, "ok", "error", "panicked"}]
  /\ pc = "root" => dirs = {}
  /\ pc \in {"root", "groups"} => files = {} /\ documents = {}
  /\ pc \in {"done", "panicked"} => dirs = {} /\ files = {} /\ documents = {}
  /\ outcome.schemas = None <=> pc \in {"root", "groups"}
  /\ outcome.crds = None <=> pc \in {"root", "groups", "list", "decode"}

\* Whatever vanishes meanwhile, what is published for a kind comes from the last
\* document, in the order of directories, files and documents, that defines it,
\* among those that the splitter gets to in the files still there, or from a later
\* one.
LastDocumentWins ==
  outcome.crds = "ok" =>
    \A k \in Kind :
      /\ crds[k] # None =>
           /\ \E f \in Manifests : crds[k] \in Places(f)
           /\ Publishable(DocumentAt(crds[k])) /\ k \in Kinds(DocumentAt(crds[k]))
      /\ \A f \in Manifests \ gone : \A p \in Places(f) :
           (Publishable(DocumentAt(p)) /\ k \in Kinds(DocumentAt(p))) =>
             crds[k] # None /\ ~Before(crds[k], p)

\* When Paths succeeds, nothing was passed over but the rest of a file behind a
\* malformed separator: every directory and every manifest still there was read, and
\* every other document of theirs is published, blank, or not to be taken for a
\* CustomResourceDefinition.
OnlyTailsLost ==
  outcome.crds = "ok" =>
    /\ \A i \in DOMAIN disk.crds : disk.crds[i].state # "unreadable"
    /\ \A f \in Manifests \ gone :
         /\ Readable(f)
         /\ \A n \in DOMAIN FileAt(f).docs :
              \/ Publishable(FileAt(f).docs[n])
              \/ Skipped(FileAt(f).docs[n])
              \/ Blank(f, n)
              \/ FileAt(f).type = "yaml" /\ n > FileAt(f).reached

UnreadableSource ==
  \/ \E i \in DOMAIN disk.crds : disk.crds[i].state = "unreadable"
  \/ \E f \in Manifests : ~FileAt(f).readable

\* Some document that the splitter gets to is a CustomResourceDefinition that cannot
\* be used, or may be one for all that the decoder can tell.
UnusableDocument ==
  \E f \in Manifests : \E p \in Places(f) :
    /\ DocumentAt(p).gvk # "other"
    /\ \/ DocumentAt(p).err = "invalid"
       \/ DocumentAt(p).err = "none" /\ Fault(DocumentAt(p).versions) # "structural"

\* Paths is not refused for nothing: some directory or manifest cannot be read, or
\* some document not used.  A document of which the decoder reports another kind, or
\* that it does not know the kind of, never has a say, nor does one behind a
\* malformed separator.  A panic waits until all manifests have been read.
RefusedForCause ==
  /\ outcome.crds \in {"error", "panicked"} =>
       UnreadableSource \/ gone # {} \/ UnusableDocument
  /\ outcome.crds = "panicked" => UnusableDocument /\ (gone = {} => ~UnreadableSource)

\* The tree is listed in full or not at all: each group-version once, by the last
\* name that stands for it.  A tree that does not exist is an empty one.
TreeListed ==
  outcome.schemas = "ok" =>
    IF disk.schemas.root = "missing" THEN paths = {}
    ELSE \A g \in DOMAIN disk.schemas.groups :
           LET versions == disk.schemas.groups[g].versions
           IN  /\ disk.schemas.groups[g].listable
               /\ \A i \in DOMAIN versions : versions[i] # None =>
                    \E j \in DOMAIN versions :
                      /\ j >= i /\ versions[j] = versions[i]
                      /\ {p \in paths : p[1] = g /\ versions[p[2]] = versions[i]} = {<<g, j>>}

-----------------------------------------------------------------------------
\* If the document cannot be decoded, Paths returns the error.
DecodeErrorsReturned ==
  (\A f \in Manifests : \A p \in Places(f) : Fault(DocumentAt(p).versions) # "absent") =>
    outcome.crds # "panicked"

================================================================================
