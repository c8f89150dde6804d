------------------------------ MODULE LocalProofs ------------------------------
(***************************************************************************)
(* Theorems about the local sources, for any directories, manifests, trees *)
(* and number of files that vanish.                                        *)
(***************************************************************************)
EXTENDS LocalSources, WellFoundedInduction, TLAPS

-----------------------------------------------------------------------------
(***************************************************************************)
(* The order of places.                                                    *)
(***************************************************************************)
LEMMA EntryParts ==
  ASSUME disk \in Disks, NEW f \in Entries
  PROVE  /\ f = <<f[1], f[2]>>
         /\ f[1] \in DOMAIN disk.crds /\ f[2] \in DOMAIN disk.crds[f[1]].files
         /\ f[1] \in Nat /\ f[2] \in Nat
<1>1. PICK i \in DOMAIN disk.crds : \E j \in DOMAIN disk.crds[i].files : f = <<i, j>>
  BY DEF Entries
<1>2. PICK j \in DOMAIN disk.crds[i].files : f = <<i, j>>
  BY <1>1
<1>3. disk.crds \in Seq(Directory)
  BY DisksAssumption
<1>4. i \in Nat /\ disk.crds[i] \in Directory
  BY <1>3
<1>5. disk.crds[i].files \in Seq(File)
  BY <1>4 DEF Directory
<1>6. j \in Nat
  BY <1>5
<1> QED
  BY <1>1, <1>2, <1>4, <1>6

LEMMA FileTyped ==
  ASSUME disk \in Disks, NEW f \in Entries
  PROVE  FileAt(f) \in File
<1>1. f[1] \in DOMAIN disk.crds /\ f[2] \in DOMAIN disk.crds[f[1]].files
  BY EntryParts
<1>2. disk.crds \in Seq(Directory)
  BY DisksAssumption
<1>3. disk.crds[f[1]] \in Directory
  BY <1>1, <1>2
<1>4. disk.crds[f[1]].files \in Seq(File)
  BY <1>3 DEF Directory
<1> QED
  BY <1>1, <1>4 DEF FileAt

LEMMA PlaceParts ==
  ASSUME disk \in Disks, NEW f \in Manifests, NEW p \in Places(f)
  PROVE  /\ p = <<p[1], p[2], p[3]>> /\ f = <<p[1], p[2]>>
         /\ p[1] \in Nat /\ p[2] \in Nat /\ p[3] \in Nat
<1>1. f \in Entries /\ f = <<f[1], f[2]>>
      /\ f[1] \in DOMAIN disk.crds /\ f[2] \in DOMAIN disk.crds[f[1]].files
      /\ f[1] \in Nat /\ f[2] \in Nat
  BY EntryParts DEF Manifests
<1>2. PICK n \in 1..FileAt(f).reached : p = <<f[1], f[2], n>>
  BY DEF Places
<1>3. FileAt(f) \in File
  BY <1>1, FileTyped
<1>4. FileAt(f).reached \in Nat
  BY <1>3 DEF File
<1>5. n \in Nat
  BY <1>4
<1> QED
  BY <1>1, <1>2, <1>5

\* Three numbers, as the place of a document is.
Triple(p) == p = <<p[1], p[2], p[3]>> /\ p[1] \in Nat /\ p[2] \in Nat /\ p[3] \in Nat

LEMMA BeforeOrder ==
  ASSUME NEW p, NEW q, NEW r, Triple(p), Triple(q), Triple(r)
  PROVE  /\ ~Before(p, p)
         /\ p # q => Before(p, q) \/ Before(q, p)
         /\ Before(p, q) /\ Before(q, r) => Before(p, r)
<1>1. p[1] = q[1] /\ p[2] = q[2] /\ p[3] = q[3] => p = q
  BY DEF Triple
<1>2. ~Before(p, p)
  BY DEF Triple, Before, BeforeFile
<1>3. p # q => Before(p, q) \/ Before(q, p)
  BY <1>1 DEF Triple, Before, BeforeFile
<1>4. Before(p, q) /\ Before(q, r) => Before(p, r)
  BY DEF Triple, Before, BeforeFile
<1> QED
  BY <1>2, <1>3, <1>4

-----------------------------------------------------------------------------
(***************************************************************************)
(* The two Paths.                                                          *)
(***************************************************************************)
\* The listing of the tree, group by group.
Listed(g) ==
  /\ disk.schemas.groups[g].listable
  /\ {p \in paths : p[1] = g} = {<<g, v>> : v \in Last(disk.schemas.groups[g].versions)}

TreeSoFar ==
  /\ pc = "root" \/ disk.schemas.root = "missing" => paths = {}
  /\ pc = "groups" => disk.schemas.root = "present"
  /\ (pc = "groups" \/ outcome.schemas = "ok") /\ disk.schemas.root # "missing" =>
       \A g \in DOMAIN disk.schemas.groups :
         IF pc = "groups" /\ g \in dirs THEN {p \in paths : p[1] = g} = {} ELSE Listed(g)

\* What has been listed and not been read, and what has been read and not decoded,
\* is in the queues.
ReadSoFar ==
  pc = "list" =>
    /\ \A i \in DOMAIN disk.crds \ dirs : disk.crds[i].state # "unreadable"
    /\ \A f \in files : disk.crds[f[1]].state = "present"
    /\ \A f \in Manifests \ gone :
         f[1] \in dirs \/ f \in files \/ (Readable(f) /\ Places(f) \subseteq documents)

NothingPublished == pc \in {"root", "groups", "list"} => \A k \in Kind : crds[k] = None

Defines(p, k) == Publishable(DocumentAt(p)) /\ k \in Kinds(DocumentAt(p))

\* A document that has been decoded, is published or something else, and nothing
\* published before it is left.
Accounted(p) ==
  /\ Publishable(DocumentAt(p)) \/ Skipped(DocumentAt(p))
  /\ \A k \in Kind : Defines(p, k) => crds[k] # None /\ ~Before(crds[k], p)

DecodedSoFar ==
  pc = "decode" \/ outcome.crds = "ok" =>
    /\ \A i \in DOMAIN disk.crds : disk.crds[i].state # "unreadable"
    /\ \A f \in Manifests \ gone :
         Readable(f) /\ \A p \in Places(f) : p \in documents \/ Accounted(p)
    /\ \A k \in Kind : crds[k] # None =>
         /\ \E f \in Manifests : crds[k] \in Places(f)
         /\ Defines(crds[k], k)
         /\ \A q \in documents : Before(crds[k], q)

LInv ==
  /\ TypeOK
  /\ TreeSoFar
  /\ ReadSoFar
  /\ NothingPublished
  /\ DecodedSoFar
  /\ RefusedForCause

LEMMA TreeTyped ==
  ASSUME disk \in Disks
  PROVE  /\ disk.schemas.root \in {"present", "missing", "unreadable"}
         /\ disk.schemas.groups \in Seq(Group)
         /\ disk.crds \in Seq(Directory)
         /\ \A i \in DOMAIN disk.crds : disk.crds[i].state \in {"present", "missing", "unreadable"}
<1>1. disk.schemas \in Tree /\ disk.crds \in Seq(Directory)
  BY DisksAssumption
<1>2. \A i \in DOMAIN disk.crds : disk.crds[i] \in Directory
  BY <1>1
<1> QED
  BY <1>1, <1>2 DEF Tree, Directory

LEMMA LocalInit == ASSUME Init PROVE LInv
<1>1. disk \in Disks
  BY DEF Init
<1>2. TypeOK
  BY NoneAssumption DEF Init, TypeOK
<1>3. TreeSoFar /\ ReadSoFar /\ NothingPublished
  BY NoneAssumption DEF Init, TreeSoFar, ReadSoFar, NothingPublished
<1>4. DecodedSoFar /\ RefusedForCause
  BY NoneAssumption DEF Init, DecodedSoFar, RefusedForCause
<1> QED
  BY <1>2, <1>3, <1>4 DEF LInv

\* Nothing but removals changes the disk.
LEMMA DiskFixed ==
  ASSUME [Next]_localVars
  PROVE  disk' = disk /\ gone \subseteq gone'
<1>1. ASSUME NEW i, ListGroup(i) \/ ListDirectory(i) PROVE disk' = disk /\ gone' = gone
  BY <1>1 DEF ListGroup, ListDirectory
<1>2. ASSUME NEW f, ReadFile(f) PROVE disk' = disk /\ gone' = gone
  BY <1>2 DEF ReadFile
<1>3. ASSUME NEW p, DecodeDocument(p) PROVE disk' = disk /\ gone' = gone
  BY <1>3 DEF DecodeDocument
<1>4. ASSUME NEW i, NEW j, Vanish(i, j) PROVE disk' = disk /\ gone \subseteq gone'
  BY <1>4 DEF Vanish
<1>5. CASE ListRoot \/ ListedGroups \/ ReadAll \/ DecodedAll \/ UNCHANGED localVars
  BY <1>5 DEF ListRoot, ListedGroups, ReadAll, DecodedAll, localVars
<1> QED
  BY <1>1, <1>2, <1>3, <1>4, <1>5 DEF Next, Step

\* What a Paths that returns does.
LEMMA ReturnSchemas ==
  ASSUME NEW result \in {"ok", "error"}, Return("schemas", result), TypeOK
  PROVE  /\ pc' = "list" /\ dirs' = DOMAIN disk.crds /\ files' = {} /\ documents' = {}
         /\ outcome'.schemas = result /\ outcome'.crds = outcome.crds
         /\ outcome' \in [{"schemas", "crds"} -> {None, "ok", "error", "panicked"}]
  BY DEF Return, Answered, TypeOK

LEMMA ReturnCRDs ==
  ASSUME NEW result \in {"ok", "error", "panicked"}, Return("crds", result), TypeOK
  PROVE  /\ pc' = IF result = "panicked" THEN "panicked" ELSE "done"
         /\ dirs' = {} /\ files' = {} /\ documents' = {}
         /\ outcome'.crds = result /\ outcome'.schemas = outcome.schemas
         /\ outcome' \in [{"schemas", "crds"} -> {None, "ok", "error", "panicked"}]
  BY DEF Return, Answered, TypeOK

LEMMA LocalTypeStep ==
  ASSUME TypeOK, ReadSoFar, [Next]_localVars
  PROVE  TypeOK'
<1>d. disk' = disk
  BY DiskFixed
<1>e. Entries' = Entries /\ Manifests' = Manifests
  BY <1>d DEF Entries, Manifests, Wanted, FileAt
<1>p. \A f : Places(f)' = Places(f)
  BY <1>d DEF Places, Blank, FileAt
<1>n. None \notin {"ok", "error", "panicked"}
  BY NoneAssumption
<1>1. CASE ListRoot
  <2>1. CASE \E r \in {"ok", "error"} : Return("schemas", r)
    BY <1>1, <1>d, <1>n, <2>1, ReturnSchemas DEF ListRoot, TypeOK
  <2>2. CASE pc' = "groups" /\ dirs' = DOMAIN disk.schemas.groups
             /\ UNCHANGED <<files, documents, outcome>>
    BY <1>1, <1>d, <1>n, <2>2 DEF ListRoot, TypeOK
  <2> QED
    BY <1>1, <2>1, <2>2 DEF ListRoot
<1>2. CASE ListedGroups
  BY <1>2, <1>d, <1>n, ReturnSchemas DEF ListedGroups, TypeOK
<1>3. CASE ReadAll
  BY <1>3, <1>d, <1>e, <1>p, <1>n DEF ReadAll, TypeOK
<1>4. CASE DecodedAll
  BY <1>4, <1>d, <1>n, ReturnCRDs DEF DecodedAll, TypeOK
<1>5. ASSUME NEW i \in dirs, ListGroup(i) PROVE TypeOK'
  <2>1. CASE Return("schemas", "error")
    BY <1>5, <1>d, <1>n, <2>1, ReturnSchemas DEF ListGroup, TypeOK
  <2>2. CASE dirs' = dirs \ {i} /\ UNCHANGED <<pc, files, documents, outcome>>
    BY <1>5, <1>d, <1>n, <2>2 DEF ListGroup, TypeOK
  <2> QED
    BY <1>5, <2>1, <2>2 DEF ListGroup
<1>6. ASSUME NEW i \in dirs, ListDirectory(i) PROVE TypeOK'
  <2>1. CASE Return("crds", "error")
    BY <1>6, <1>d, <1>n, <2>1, ReturnCRDs DEF ListDirectory, TypeOK
  <2>2. CASE ~Return("crds", "error")
    <3>1. pc = "list" /\ i \in DOMAIN disk.crds
      BY <1>6 DEF ListDirectory, TypeOK
    <3>2. /\ dirs' = dirs \ {i} /\ UNCHANGED <<pc, documents, outcome, crds>>
          /\ files' \subseteq {<<i, j>> : j \in DOMAIN disk.crds[i].files}
      BY <1>6, <2>2 DEF ListDirectory
    <3>3. files' \subseteq {f \in Entries : f[1] \notin dirs'}
      BY <3>1, <3>2 DEF Entries
    <3> QED
      BY <1>d, <1>e, <1>p, <1>n, <3>1, <3>2, <3>3 DEF TypeOK
  <2> QED
    BY <2>1, <2>2
<1>7. ASSUME NEW f \in files, ReadFile(f) PROVE TypeOK'
  <2>1. CASE Return("crds", "error")
    BY <1>7, <1>d, <1>n, <2>1, ReturnCRDs DEF ReadFile, IsNextFile, TypeOK
  <2>2. CASE ~Return("crds", "error")
    <3>1. /\ pc = "list" /\ files' = files \ {f}
          /\ documents' = documents \cup (IF Wanted(f) THEN Places(f) ELSE {})
          /\ UNCHANGED <<pc, dirs, outcome, crds>>
      BY <1>7, <2>2 DEF ReadFile, IsNextFile
    <3>2. f \in Entries /\ disk.crds[f[1]].state = "present"
      BY <3>1 DEF TypeOK, ReadSoFar
    <3>3. documents' \subseteq UNION {Places(g) : g \in Manifests}
      BY <3>1, <3>2 DEF TypeOK, Manifests
    <3> QED
      BY <1>d, <1>e, <1>p, <1>n, <3>1, <3>3 DEF TypeOK
  <2> QED
    BY <2>1, <2>2
<1>8. ASSUME NEW p \in documents, DecodeDocument(p) PROVE TypeOK'
  <2>1. CASE \E r \in {"error", "panicked"} : Return("crds", r) /\ UNCHANGED crds
    BY <1>8, <1>d, <1>n, <2>1, ReturnCRDs DEF DecodeDocument, TypeOK
  <2>2. CASE documents' = documents \ {p} /\ UNCHANGED <<pc, dirs, files, outcome>>
             /\ (crds' = crds \/ Publish(p))
    BY <1>8, <1>d, <1>e, <1>p, <1>n, <2>2 DEF DecodeDocument, Publish, TypeOK
  <2> QED
    BY <1>8, <2>1, <2>2 DEF DecodeDocument
<1>9. ASSUME NEW i, NEW j, Vanish(i, j) PROVE TypeOK'
  BY <1>9, <1>e, <1>p DEF Vanish, TypeOK
<1>10. CASE UNCHANGED localVars
  BY <1>10, <1>e, <1>p DEF localVars, TypeOK
<1> QED
  BY <1>1, <1>2, <1>3, <1>4, <1>5, <1>6, <1>7, <1>8, <1>9, <1>10 DEF Next, Step

LEMMA TreeStep ==
  ASSUME TypeOK, TreeSoFar, [Next]_localVars
  PROVE  TreeSoFar'
<1>d. disk' = disk
  BY DiskFixed
<1>n. None \notin {"ok", "error", "panicked"}
  BY NoneAssumption
<1>t. disk.schemas.root \in {"present", "missing", "unreadable"}
  BY TreeTyped DEF TypeOK
<1>s. outcome.schemas \in {None, "ok", "error", "panicked"}
      /\ (outcome.schemas = None <=> pc \in {"root", "groups"})
  BY DEF TypeOK
<1>1. CASE ListRoot
  <2>0. paths' = paths /\ paths = {} /\ pc = "root"
    BY <1>1 DEF ListRoot, TreeSoFar
  <2>1. CASE disk.schemas.root = "unreadable" /\ Return("schemas", "error")
    <3>1. pc' = "list" /\ outcome'.schemas = "error"
      BY <2>1, ReturnSchemas
    <3> QED
      BY <1>d, <1>n, <2>0, <3>1 DEF TreeSoFar
  <2>2. CASE disk.schemas.root = "missing" /\ Return("schemas", "ok")
    BY <1>d, <2>0, <2>2, ReturnSchemas DEF TreeSoFar
  <2>3. CASE disk.schemas.root = "present" /\ pc' = "groups"
             /\ dirs' = DOMAIN disk.schemas.groups
    BY <1>d, <2>0, <2>3 DEF TreeSoFar
  <2> QED
    BY <1>1, <2>1, <2>2, <2>3 DEF ListRoot
<1>2. CASE ListedGroups
  <2>1. pc = "groups" /\ dirs = {} /\ paths' = paths
        /\ pc' = "list" /\ outcome'.schemas = "ok"
    BY <1>2, ReturnSchemas DEF ListedGroups
  <2> QED
    BY <1>d, <2>1 DEF TreeSoFar, Listed
<1>3. ASSUME NEW i \in dirs, ListGroup(i) PROVE TreeSoFar'
  <2>1. CASE Return("schemas", "error")
    <3>1. pc' = "list" /\ outcome'.schemas = "error" /\ pc = "groups"
      BY <1>3, <2>1, ReturnSchemas DEF ListGroup
    <3>2. disk.schemas.root = "present"
      BY <3>1 DEF TreeSoFar
    <3> QED
      BY <1>d, <1>n, <3>1, <3>2 DEF TreeSoFar
  <2>2. CASE ~Return("schemas", "error")
    <3>1. /\ pc = "groups" /\ disk.schemas.groups[i].listable
          /\ paths' = paths \cup {<<i, v>> : v \in Last(disk.schemas.groups[i].versions)}
          /\ dirs' = dirs \ {i} /\ UNCHANGED <<pc, outcome>>
      BY <1>3, <2>2 DEF ListGroup
    <3>2. i \in DOMAIN disk.schemas.groups /\ disk.schemas.root = "present"
      BY <3>1 DEF TypeOK, TreeSoFar
    <3>3. {p \in paths : p[1] = i} = {}
      BY <3>1, <3>2 DEF TreeSoFar
    <3>4. ASSUME NEW g \in DOMAIN disk.schemas.groups, g # i
          PROVE  {p \in paths' : p[1] = g} = {p \in paths : p[1] = g}
      BY <3>1, <3>4
    <3>5. {p \in paths' : p[1] = i} = {<<i, v>> : v \in Last(disk.schemas.groups[i].versions)}
      BY <3>1, <3>3
    <3>6. Listed(i)'
      BY <1>d, <3>1, <3>5 DEF Listed
    <3>7. ASSUME NEW g \in DOMAIN disk.schemas.groups
          PROVE  IF g \in dirs' THEN {p \in paths' : p[1] = g} = {} ELSE Listed(g)'
      <4>1. CASE g = i
        BY <3>1, <3>6, <4>1
      <4>2. CASE g # i
        <5>1. IF g \in dirs THEN {p \in paths : p[1] = g} = {} ELSE Listed(g)
          BY <3>1, <3>2 DEF TreeSoFar
        <5> QED
          BY <1>d, <3>1, <3>4, <4>2, <5>1 DEF Listed
      <4> QED
        BY <4>1, <4>2
    <3> QED
      BY <1>d, <3>1, <3>2, <3>7 DEF TreeSoFar
  <2> QED
    BY <2>1, <2>2
<1>4. CASE /\ paths' = paths /\ pc # "root" /\ pc # "groups"
           /\ pc' # "root" /\ pc' # "groups" /\ outcome'.schemas = outcome.schemas
  BY <1>d, <1>4 DEF TreeSoFar, Listed
<1>5. CASE /\ UNCHANGED <<paths, pc, dirs, outcome>>
  BY <1>d, <1>5 DEF TreeSoFar, Listed
<1>6. CASE ReadAll
  BY <1>4, <1>6 DEF ReadAll
<1>7. CASE DecodedAll
  BY <1>4, <1>7, ReturnCRDs DEF DecodedAll
<1>8. ASSUME NEW i, ListDirectory(i) PROVE TreeSoFar'
  <2>1. pc = "list" /\ paths' = paths
    BY <1>8 DEF ListDirectory
  <2>2. pc' \in {"list", "done"} /\ outcome'.schemas = outcome.schemas
    BY <1>8, <2>1, ReturnCRDs DEF ListDirectory
  <2> QED
    BY <1>4, <2>1, <2>2
<1>9. ASSUME NEW f, ReadFile(f) PROVE TreeSoFar'
  <2>1. pc = "list" /\ paths' = paths
    BY <1>9 DEF ReadFile, IsNextFile
  <2>2. pc' \in {"list", "done"} /\ outcome'.schemas = outcome.schemas
    BY <1>9, <2>1, ReturnCRDs DEF ReadFile
  <2> QED
    BY <1>4, <2>1, <2>2
<1>10. ASSUME NEW p, DecodeDocument(p) PROVE TreeSoFar'
  <2>1. pc = "decode" /\ paths' = paths
    BY <1>10 DEF DecodeDocument
  <2>2. pc' \in {"decode", "done", "panicked"} /\ outcome'.schemas = outcome.schemas
    BY <1>10, <2>1, ReturnCRDs DEF DecodeDocument
  <2> QED
    BY <1>4, <2>1, <2>2
<1>11. ASSUME NEW i, NEW j, Vanish(i, j) PROVE TreeSoFar'
  BY <1>5, <1>11 DEF Vanish
<1>12. CASE UNCHANGED localVars
  BY <1>5, <1>12 DEF localVars
<1> QED
  BY <1>1, <1>2, <1>3, <1>6, <1>7, <1>8, <1>9, <1>10, <1>11, <1>12 DEF Next, Step

LEMMA ReadStep ==
  ASSUME TypeOK, ReadSoFar, [Next]_localVars
  PROVE  ReadSoFar'
<1>d. disk' = disk /\ gone \subseteq gone'
  BY DiskFixed
<1>e. Manifests' = Manifests /\ Manifests \subseteq Entries
  BY <1>d DEF Entries, Manifests, Wanted, FileAt
<1>p. \A f : Places(f)' = Places(f)
  BY <1>d DEF Places, Blank, FileAt
<1>r. \A f : f \notin gone' /\ Readable(f) => Readable(f)'
  BY <1>d DEF Readable, FileAt
<1>1. CASE pc' # "list"
  BY <1>1 DEF ReadSoFar
<1>2. ASSUME NEW r \in {"ok", "error"}, Return("schemas", r) PROVE ReadSoFar'
  <2>1. dirs' = DOMAIN disk.crds /\ files' = {}
    BY <1>2, ReturnSchemas
  <2>2. \A f \in Manifests : f[1] \in dirs'
    BY <1>e, <2>1, EntryParts DEF TypeOK
  <2> QED
    BY <1>d, <1>e, <2>1, <2>2 DEF ReadSoFar
<1>3. ASSUME NEW i \in dirs, ListDirectory(i) PROVE ReadSoFar'
  <2>1. CASE Return("crds", "error")
    BY <1>1, <2>1, ReturnCRDs
  <2>2. CASE ~Return("crds", "error")
    <3>1. /\ pc = "list" /\ i \in DOMAIN disk.crds /\ files = {}
          /\ disk.crds[i].state # "unreadable"
          /\ files' = IF disk.crds[i].state = "missing" THEN {}
                      ELSE {<<i, j>> : j \in DOMAIN disk.crds[i].files} \ gone
          /\ dirs' = dirs \ {i} /\ UNCHANGED <<pc, documents, outcome>>
      BY <1>3, <2>2 DEF ListDirectory, TypeOK
    <3>2. disk.crds[i].state \in {"present", "missing"}
      BY <3>1, TreeTyped DEF TypeOK
    <3>3. \A f \in files' : disk.crds[f[1]].state = "present"
      BY <3>1, <3>2
    <3>4. ASSUME NEW f \in Manifests \ gone'
          PROVE f[1] \in dirs' \/ f \in files' \/ (Readable(f)' /\ Places(f) \subseteq documents')
      <4>1. CASE f[1] = i
        <5>1. f = <<f[1], f[2]>> /\ f[2] \in DOMAIN disk.crds[i].files
          BY <1>e, <4>1, EntryParts DEF TypeOK
        <5>2. disk.crds[i].state = "present"
          BY <4>1 DEF Manifests
        <5> QED
          BY <1>d, <3>1, <4>1, <5>1, <5>2
      <4>2. CASE f[1] # i
        BY <1>d, <1>r, <3>1, <4>2 DEF ReadSoFar
      <4> QED
        BY <4>1, <4>2
    <3>5. \A j \in DOMAIN disk.crds \ dirs' : disk.crds[j].state # "unreadable"
      BY <3>1 DEF ReadSoFar
    <3> QED
      BY <1>d, <1>e, <1>p, <3>3, <3>4, <3>5 DEF ReadSoFar
  <2> QED
    BY <2>1, <2>2
<1>4. ASSUME NEW f \in files, ReadFile(f) PROVE ReadSoFar'
  <2>1. CASE Return("crds", "error")
    BY <1>1, <2>1, ReturnCRDs
  <2>2. CASE ~Return("crds", "error")
    <3>1. /\ pc = "list" /\ (Wanted(f) => Readable(f))
          /\ files' = files \ {f}
          /\ documents' = documents \cup (IF Wanted(f) THEN Places(f) ELSE {})
          /\ UNCHANGED <<pc, dirs, outcome>>
      BY <1>4, <2>2 DEF ReadFile, IsNextFile
    <3>2. ASSUME NEW g \in Manifests \ gone'
          PROVE g[1] \in dirs' \/ g \in files' \/ (Readable(g)' /\ Places(g) \subseteq documents')
      BY <1>d, <1>r, <3>1 DEF ReadSoFar, Manifests
    <3> QED
      BY <1>d, <1>e, <1>p, <3>1, <3>2 DEF ReadSoFar
  <2> QED
    BY <2>1, <2>2
<1>5. ASSUME NEW i, NEW j, Vanish(i, j) PROVE ReadSoFar'
  <2>1. UNCHANGED <<disk, pc, dirs, files, documents>>
    BY <1>5 DEF Vanish
  <2> QED
    BY <1>d, <1>e, <1>p, <1>r, <2>1 DEF ReadSoFar
<1>6. CASE UNCHANGED localVars
  BY <1>6, <1>e, <1>p DEF localVars, ReadSoFar, Readable, FileAt
<1>7. CASE ListRoot
  BY <1>1, <1>2, <1>7 DEF ListRoot
<1>8. CASE ListedGroups
  BY <1>2, <1>8 DEF ListedGroups
<1>9. ASSUME NEW i, ListGroup(i) PROVE ReadSoFar'
  BY <1>1, <1>2, <1>9 DEF ListGroup
<1>10. CASE ReadAll
  BY <1>1, <1>10 DEF ReadAll
<1>11. CASE DecodedAll
  BY <1>1, <1>11, ReturnCRDs DEF DecodedAll
<1>12. ASSUME NEW p, DecodeDocument(p) PROVE ReadSoFar'
  BY <1>1, <1>12, ReturnCRDs DEF DecodeDocument
<1> QED
  BY <1>3, <1>4, <1>5, <1>6, <1>7, <1>8, <1>9, <1>10, <1>11, <1>12 DEF Next, Step

LEMMA UnpublishedStep ==
  ASSUME TypeOK, NothingPublished, [Next]_localVars
  PROVE  NothingPublished'
<1>1. CASE pc' = pc /\ crds' = crds
  BY <1>1 DEF NothingPublished
<1>2. CASE pc' \notin {"root", "groups", "list"}
  BY <1>2 DEF NothingPublished
<1>3. CASE pc \in {"root", "groups", "list"} /\ crds' = crds
  BY <1>3 DEF NothingPublished
<1>4. CASE ListRoot \/ ListedGroups
  BY <1>3, <1>4 DEF ListRoot, ListedGroups
<1>5. ASSUME NEW i, ListGroup(i) \/ ListDirectory(i) PROVE NothingPublished'
  BY <1>3, <1>5 DEF ListGroup, ListDirectory
<1>6. ASSUME NEW f, ReadFile(f) PROVE NothingPublished'
  BY <1>3, <1>6 DEF ReadFile, IsNextFile
<1>7. ASSUME NEW p, DecodeDocument(p) PROVE NothingPublished'
  BY <1>2, <1>7, ReturnCRDs DEF DecodeDocument
<1>8. CASE ReadAll \/ UNCHANGED localVars
  BY <1>1, <1>2, <1>8 DEF ReadAll, localVars
<1>9. CASE DecodedAll
  BY <1>2, <1>9, ReturnCRDs DEF DecodedAll
<1>10. ASSUME NEW i, NEW j, Vanish(i, j) PROVE NothingPublished'
  BY <1>1, <1>10 DEF Vanish
<1> QED
  BY <1>4, <1>5, <1>6, <1>7, <1>8, <1>9, <1>10 DEF Next, Step

\* One more document is decoded, the first of those that are left.
LEMMA Decoded ==
  ASSUME TypeOK, DecodedSoFar, pc = "decode", disk' = disk, gone' = gone,
         NEW p \in documents, \A q \in documents : ~Before(q, p),
         documents' = documents \ {p},
         \/ Skipped(DocumentAt(p)) /\ ~Publishable(DocumentAt(p)) /\ crds' = crds
         \/ Publishable(DocumentAt(p)) /\ Publish(p)
  PROVE  DecodedSoFar'
<1>e. Manifests' = Manifests
  BY DEF Entries, Manifests, Wanted, FileAt
<1>p. \A f : Places(f)' = Places(f) /\ Readable(f)' = Readable(f)
  BY DEF Places, Blank, FileAt, Readable
<1>q. \A q : DocumentAt(q)' = DocumentAt(q)
  BY DEF DocumentAt, FileAt
<1>t. \A f \in Manifests : \A q \in Places(f) : Triple(q) /\ q # None
  <2> SUFFICES ASSUME NEW f \in Manifests, NEW q \in Places(f) PROVE Triple(q) /\ q # None
    OBVIOUS
  <2>1. Triple(q)
    BY PlaceParts DEF TypeOK, Triple
  <2> QED
    BY <2>1, NoneAssumption DEF Triple
<1>1. \A q \in documents : \E f \in Manifests : q \in Places(f)
  BY DEF TypeOK
<1>2. Triple(p) /\ p # None /\ \A q \in documents : Triple(q)
  BY <1>1, <1>t
<1>3. \A q \in documents' : Before(p, q)
  BY <1>2, BeforeOrder
<1>4. ASSUME NEW k \in Kind, crds[k] # None
      PROVE  /\ \E f \in Manifests : crds[k] \in Places(f)
             /\ Defines(crds[k], k) /\ Triple(crds[k])
             /\ \A q \in documents : Before(crds[k], q)
  BY <1>4, <1>t DEF DecodedSoFar
<1>5. ASSUME NEW k \in Kind
      PROVE  \/ crds'[k] = crds[k] /\ ~(Publishable(DocumentAt(p)) /\ k \in Kinds(DocumentAt(p)))
             \/ crds'[k] = p /\ Defines(p, k)
  BY <1>5 DEF Publish, Defines, TypeOK
<1>6. ASSUME NEW k \in Kind, crds'[k] # None
      PROVE  /\ \E f \in Manifests : crds'[k] \in Places(f)
             /\ Defines(crds'[k], k)
             /\ \A q \in documents' : Before(crds'[k], q)
  <2>1. CASE crds'[k] = p /\ Defines(p, k)
    BY <1>1, <1>3, <2>1
  <2>2. CASE crds'[k] = crds[k]
    BY <1>4, <1>6, <2>2
  <2> QED
    BY <1>5, <2>1, <2>2
<1>7. ASSUME NEW f \in Manifests, NEW q \in Places(f), Accounted(q) \/ q = p,
             NEW k \in Kind, Defines(q, k)
      PROVE  crds'[k] # None /\ ~Before(crds'[k], q)
  <2>1. CASE crds'[k] = p
    <3>1. CASE q = p
      BY <1>2, <2>1, <3>1, BeforeOrder
    <3>2. CASE Accounted(q)
      <4>1. crds[k] # None /\ ~Before(crds[k], q)
        BY <1>7, <3>2 DEF Accounted
      <4>2. Before(crds[k], p) /\ Triple(crds[k])
        BY <1>4, <4>1
      <4>3. Triple(q)
        BY <1>t
      <4> QED
        BY <1>2, <2>1, <4>1, <4>2, <4>3, BeforeOrder
    <3> QED
      BY <1>7, <3>1, <3>2
  <2>2. CASE crds'[k] = crds[k] /\ ~Defines(p, k)
    <3>1. Accounted(q)
      BY <1>7, <2>2
    <3> QED
      BY <1>7, <2>2, <3>1 DEF Accounted
  <2> QED
    BY <1>5, <2>1, <2>2 DEF Defines
<1>8. ASSUME NEW f \in Manifests \ gone, NEW q \in Places(f), q \notin documents'
      PROVE  Accounted(q)'
  <2>1. Accounted(q) \/ q = p
    BY <1>8 DEF DecodedSoFar
  <2>2. Publishable(DocumentAt(q)) \/ Skipped(DocumentAt(q))
    BY <2>1 DEF Accounted
  <2>3. \A k \in Kind : Defines(q, k) => crds'[k] # None /\ ~Before(crds'[k], q)
    BY <1>7, <2>1
  <2> QED
    BY <1>q, <2>2, <2>3 DEF Accounted, Defines
<1>9. /\ \A i \in DOMAIN disk.crds : disk.crds[i].state # "unreadable"
      /\ \A f \in Manifests \ gone : Readable(f)
  BY DEF DecodedSoFar
<1>10. \A k \in Kind : \A r : Defines(r, k)' <=> Defines(r, k)
  BY <1>q DEF Defines
<1> QED
  BY <1>e, <1>p, <1>6, <1>8, <1>9, <1>10 DEF DecodedSoFar

LEMMA DecodedStep ==
  ASSUME TypeOK, ReadSoFar, NothingPublished, DecodedSoFar, [Next]_localVars
  PROVE  DecodedSoFar'
<1>d. disk' = disk /\ gone \subseteq gone'
  BY DiskFixed
<1>e. Manifests' = Manifests
  BY <1>d DEF Entries, Manifests, Wanted, FileAt
<1>p. \A f : Places(f)' = Places(f)
  BY <1>d DEF Places, Blank, FileAt
<1>q. \A q : DocumentAt(q)' = DocumentAt(q)
  BY <1>d DEF DocumentAt, FileAt
<1>r. \A f : f \notin gone' /\ Readable(f) => Readable(f)'
  BY <1>d DEF Readable, FileAt
<1>n. None \notin {"ok", "error", "panicked"}
  BY NoneAssumption
<1>1. CASE pc' # "decode" /\ outcome'.crds # "ok"
  BY <1>1 DEF DecodedSoFar
<1>2. CASE /\ pc = "decode" \/ outcome.crds = "ok"
           /\ crds' = crds /\ documents' = documents
  <2>1. \A q : Accounted(q)' <=> Accounted(q)
    BY <1>2, <1>q DEF Accounted, Defines
  <2>2. \A k \in Kind : \A q : Defines(q, k)' <=> Defines(q, k)
    BY <1>q DEF Defines
  <2> QED
    BY <1>d, <1>e, <1>p, <1>r, <1>2, <2>1, <2>2 DEF DecodedSoFar
<1>3. CASE ReadAll
  <2>1. /\ pc = "list" /\ files = {} /\ dirs = {}
        /\ UNCHANGED <<gone, documents, crds>>
    BY <1>3 DEF ReadAll
  <2>2. \A i \in DOMAIN disk.crds : disk.crds[i].state # "unreadable"
    BY <2>1 DEF ReadSoFar
  <2>3. \A f \in Manifests \ gone : Readable(f) /\ Places(f) \subseteq documents
    BY <2>1 DEF ReadSoFar
  <2>4. \A k \in Kind : crds'[k] = None
    BY <2>1 DEF NothingPublished
  <2> QED
    BY <1>d, <1>e, <1>p, <1>r, <2>1, <2>2, <2>3, <2>4 DEF DecodedSoFar
<1>4. CASE DecodedAll
  <2>1. pc = "decode" /\ documents = {} /\ crds' = crds /\ documents' = {}
    BY <1>4, ReturnCRDs DEF DecodedAll
  <2> QED
    BY <1>2, <2>1
<1>5. ASSUME NEW p \in documents, DecodeDocument(p) PROVE DecodedSoFar'
  <2>1. CASE \E result \in {"error", "panicked"} : Return("crds", result)
    BY <1>1, <2>1, ReturnCRDs
  <2>2. CASE ~\E result \in {"error", "panicked"} : Return("crds", result)
    <3>1. /\ pc = "decode" /\ \A q \in documents : ~Before(q, p)
          /\ documents' = documents \ {p} /\ gone' = gone
      BY <1>5, <2>2 DEF DecodeDocument
    <3>2. \/ Skipped(DocumentAt(p)) /\ crds' = crds
          \/ Publishable(DocumentAt(p)) /\ Publish(p)
      BY <1>5, <2>2 DEF DecodeDocument, Publishable
    <3>3. Skipped(DocumentAt(p)) => ~Publishable(DocumentAt(p))
      BY DEF Skipped, Publishable
    <3> QED
      BY <1>d, <3>1, <3>2, <3>3, Decoded
  <2> QED
    BY <2>1, <2>2
<1>6. ASSUME NEW i, NEW j, Vanish(i, j) PROVE DecodedSoFar'
  BY <1>1, <1>2, <1>6 DEF Vanish
<1>7. CASE UNCHANGED localVars
  BY <1>1, <1>2, <1>7 DEF localVars
<1>8. CASE ListRoot \/ ListedGroups
  BY <1>1, <1>n, <1>8, ReturnSchemas DEF ListRoot, ListedGroups, TypeOK
<1>9. ASSUME NEW i, ListGroup(i) PROVE DecodedSoFar'
  BY <1>1, <1>n, <1>9, ReturnSchemas DEF ListGroup, TypeOK
<1>10. ASSUME NEW i, ListDirectory(i) PROVE DecodedSoFar'
  BY <1>1, <1>n, <1>10, ReturnCRDs DEF ListDirectory, TypeOK
<1>11. ASSUME NEW f, ReadFile(f) PROVE DecodedSoFar'
  BY <1>1, <1>n, <1>11, ReturnCRDs DEF ReadFile, IsNextFile, TypeOK
<1> QED
  BY <1>3, <1>4, <1>5, <1>6, <1>7, <1>8, <1>9, <1>10, <1>11 DEF Next, Step

LEMMA RefusedStep ==
  ASSUME TypeOK, ReadSoFar, DecodedSoFar, RefusedForCause, [Next]_localVars
  PROVE  RefusedForCause'
<1>d. disk' = disk /\ gone \subseteq gone'
  BY DiskFixed
<1>e. Manifests' = Manifests
  BY <1>d DEF Entries, Manifests, Wanted, FileAt
<1>u. UnreadableSource' = UnreadableSource /\ UnusableDocument' = UnusableDocument
  <2>1. (\A f : FileAt(f)' = FileAt(f) /\ Places(f)' = Places(f))
        /\ \A p : DocumentAt(p)' = DocumentAt(p)
    BY <1>d DEF FileAt, Places, Blank, DocumentAt
  <2> QED
    BY <1>d, <1>e, <2>1 DEF UnreadableSource, UnusableDocument
<1>n. None \notin {"ok", "error", "panicked", "crd", "other"}
  BY NoneAssumption
<1>1. CASE outcome'.crds \notin {"error", "panicked"}
  BY <1>1 DEF RefusedForCause
<1>2. CASE outcome'.crds = outcome.crds
  BY <1>d, <1>u, <1>2 DEF RefusedForCause
<1>3. CASE outcome'.crds = "error" /\ (UnreadableSource \/ gone # {} \/ UnusableDocument)
  BY <1>d, <1>u, <1>3 DEF RefusedForCause
<1>4. CASE ListRoot \/ ListedGroups
  BY <1>2, <1>4, ReturnSchemas DEF ListRoot, ListedGroups
<1>5. ASSUME NEW i, ListGroup(i) PROVE RefusedForCause'
  BY <1>2, <1>5, ReturnSchemas DEF ListGroup
<1>6. ASSUME NEW i \in dirs, ListDirectory(i) PROVE RefusedForCause'
  <2>1. CASE Return("crds", "error") /\ disk.crds[i].state = "unreadable"
    <3>1. i \in DOMAIN disk.crds
      BY <1>6 DEF ListDirectory, TypeOK
    <3>2. UnreadableSource
      BY <2>1, <3>1 DEF UnreadableSource
    <3> QED
      BY <1>3, <2>1, <3>2, ReturnCRDs
  <2> QED
    BY <1>2, <1>6, <2>1 DEF ListDirectory
<1>7. ASSUME NEW f \in files, ReadFile(f) PROVE RefusedForCause'
  <2>1. CASE Return("crds", "error") /\ Wanted(f) /\ ~Readable(f)
    <3>1. f \in Manifests
      BY <1>7, <2>1 DEF ReadFile, IsNextFile, ReadSoFar, TypeOK, Manifests
    <3>2. UnreadableSource \/ gone # {}
      BY <2>1, <3>1 DEF Readable, UnreadableSource
    <3> QED
      BY <1>3, <2>1, <3>2, ReturnCRDs
  <2> QED
    BY <1>2, <1>7, <2>1 DEF ReadFile
<1>8. ASSUME NEW p \in documents, DecodeDocument(p) PROVE RefusedForCause'
  <2>1. pc = "decode" /\ gone' = gone
    BY <1>8 DEF DecodeDocument
  <2>2. PICK f \in Manifests : p \in Places(f)
    BY DEF TypeOK
  <2>3. ASSUME DocumentAt(p).gvk # "other",
               \/ DocumentAt(p).err = "invalid"
               \/ DocumentAt(p).err = "none" /\ Fault(DocumentAt(p).versions) # "structural"
        PROVE  UnusableDocument
    BY <2>2, <2>3 DEF UnusableDocument
  <2>4. CASE Return("crds", "error")
    <3>1. UnusableDocument
      BY <1>n, <1>8, <2>1, <2>3, <2>4, ReturnCRDs DEF DecodeDocument, Skipped
    <3> QED
      BY <1>3, <2>4, <3>1, ReturnCRDs
  <2>5. CASE Return("crds", "panicked")
    <3>1. outcome'.crds = "panicked"
      BY <2>5, ReturnCRDs
    <3>2. UnusableDocument
      <4>2. DocumentAt(p) \in Document
        <5>1. FileAt(f) \in File
          BY FileTyped DEF Manifests, TypeOK
        <5>2. /\ FileAt(f).docs \in Seq(Document)
              /\ FileAt(f).reached \in Nat /\ FileAt(f).reached <= Len(FileAt(f).docs)
          BY <5>1 DEF File
        <5>3. PICK n \in DOMAIN FileAt(f).docs : p = <<f[1], f[2], n>>
          BY <2>2, <5>2 DEF Places
        <5>4. FileAt(p) = FileAt(f) /\ DocumentAt(p) = FileAt(f).docs[n]
          BY <5>3 DEF FileAt, DocumentAt
        <5> QED
          BY <5>2, <5>4
      <4>3. /\ DocumentAt(p).err \in {"none", "unregistered", "invalid"}
            /\ DocumentAt(p).err = "none" => DocumentAt(p).gvk # None
        BY <4>2 DEF Document
      <4> QED
        BY <1>n, <1>8, <2>3, <2>5, <3>1, <4>3, ReturnCRDs DEF DecodeDocument, Skipped
    <3>3. gone = {} => ~UnreadableSource
      <4>1. (\A i \in DOMAIN disk.crds : disk.crds[i].state # "unreadable")
            /\ \A g \in Manifests \ gone : Readable(g)
        BY <2>1 DEF DecodedSoFar
      <4> QED
        BY <4>1 DEF UnreadableSource, Readable
    <3> QED
      BY <1>u, <2>1, <3>1, <3>2, <3>3 DEF RefusedForCause
  <2>6. CASE UNCHANGED outcome
    BY <1>2, <2>6
  <2> QED
    BY <1>8, <2>4, <2>5, <2>6 DEF DecodeDocument
<1>9. CASE DecodedAll
  BY <1>1, <1>9, ReturnCRDs DEF DecodedAll
<1>10. CASE ReadAll \/ UNCHANGED localVars
  BY <1>2, <1>10 DEF ReadAll, localVars
<1>11. ASSUME NEW i, NEW j, Vanish(i, j) PROVE RefusedForCause'
  BY <1>2, <1>11 DEF Vanish
<1> QED
  BY <1>4, <1>5, <1>6, <1>7, <1>8, <1>9, <1>10, <1>11 DEF Next, Step

LEMMA LocalInvariant == Spec => []LInv
<1>1. ASSUME LInv, [Next]_localVars PROVE LInv'
  BY <1>1, LocalTypeStep, TreeStep, ReadStep, UnpublishedStep, DecodedStep, RefusedStep
     DEF LInv
<1> QED
  BY <1>1, LocalInit, PTL DEF Spec

-----------------------------------------------------------------------------
\* Variables keep their types, and a Paths that returned leaves nothing behind for
\* the other.
THEOREM LocalTypes == Spec => []TypeOK
<1>1. LInv => TypeOK
  BY DEF LInv
<1> QED
  BY <1>1, LocalInvariant, PTL

\* What is published for a kind comes from the last document that defines it, of
\* those that the splitter gets to (local_crds.go), whatever vanishes meanwhile.
THEOREM LastDefinitionWins == Spec => []LastDocumentWins
<1>1. LInv => LastDocumentWins
  <2> SUFFICES ASSUME LInv, outcome.crds = "ok" PROVE LastDocumentWins
    BY DEF LastDocumentWins
  <2>1. documents = {}
    BY NoneAssumption DEF LInv, TypeOK
  <2> QED
    BY <2>1 DEF LInv, DecodedSoFar, Accounted, Defines, LastDocumentWins
<1> QED
  BY <1>1, LocalInvariant, PTL

\* Every directory and manifest is read, and every CustomResourceDefinition in them
\* published, except behind a malformed separator, or the Paths of local CRDs fails.
THEOREM NothingElseLost == Spec => []OnlyTailsLost
<1>1. LInv => OnlyTailsLost
  <2> SUFFICES ASSUME LInv, outcome.crds = "ok" PROVE OnlyTailsLost
    BY DEF OnlyTailsLost
  <2>1. documents = {} /\ disk \in Disks
    BY NoneAssumption DEF LInv, TypeOK
  <2>2. \A i \in DOMAIN disk.crds : disk.crds[i].state # "unreadable"
    BY DEF LInv, DecodedSoFar
  <2>3. ASSUME NEW f \in Manifests \ gone
        PROVE  Readable(f) /\ \A p \in Places(f) : Accounted(p)
    BY <2>1 DEF LInv, DecodedSoFar
  <2>4. ASSUME NEW f \in Manifests \ gone, NEW n \in DOMAIN FileAt(f).docs
        PROVE  \/ Publishable(FileAt(f).docs[n])
               \/ Skipped(FileAt(f).docs[n])
               \/ Blank(f, n)
               \/ FileAt(f).type = "yaml" /\ n > FileAt(f).reached
    <3>1. FileAt(f) \in File
      BY <2>1, FileTyped DEF Manifests
    <3>2. /\ n \in 1..Len(FileAt(f).docs) /\ FileAt(f).reached \in Nat
          /\ FileAt(f).type # "yaml" => FileAt(f).reached = Len(FileAt(f).docs)
      BY <3>1 DEF File
    <3>3. CASE n <= FileAt(f).reached /\ ~Blank(f, n)
      <4>1. <<f[1], f[2], n>> \in Places(f)
        BY <3>2, <3>3 DEF Places
      <4>2. DocumentAt(<<f[1], f[2], n>>) = FileAt(f).docs[n]
        BY DEF DocumentAt, FileAt
      <4> QED
        BY <2>3, <4>1, <4>2 DEF Accounted
    <3> QED
      BY <3>2, <3>3
  <2> QED
    BY <2>2, <2>3, <2>4 DEF OnlyTailsLost
<1> QED
  BY <1>1, LocalInvariant, PTL

\* The Paths of local CRDs fails for no other reason than a directory or a file that
\* cannot be read, or a document that is, or may be, a CustomResourceDefinition and
\* cannot be used.
THEOREM RefusalHasCause == Spec => []RefusedForCause
<1>1. LInv => RefusedForCause
  BY DEF LInv
<1> QED
  BY <1>1, LocalInvariant, PTL

-----------------------------------------------------------------------------
\* The numbers are well-founded; the library says it of relations.
Less == {p \in Nat \X Nat : p[1] < p[2]}

LEMMA LeastNatural ==
  ASSUME NEW T \in SUBSET Nat, T # {}
  PROVE  \E n \in T : \A m \in T : n <= m
<1>1. IsWellFoundedOn(Less, Nat)
  BY NatLessThanWellFounded DEF OpToRel, Less
<1>2. PICK n \in T : \A m \in T : <<m, n>> \notin Less
  BY <1>1, WFMin
<1>3. ASSUME NEW m \in T PROVE n <= m
  <2>1. m < n => <<m, n>> \in Less
    BY DEF Less
  <2> QED
    BY <1>2, <2>1
<1> QED
  BY <1>3

\* A sequence has a last element of every kind that it has elements of.
LEMMA LastOfKind ==
  ASSUME NEW S, NEW s \in Seq(S), NEW i \in DOMAIN s
  PROVE  \E j \in DOMAIN s :
           /\ j >= i /\ s[j] = s[i]
           /\ \A k \in DOMAIN s : k > j => s[k] # s[i]
<1> DEFINE T == {m \in Nat : \E j \in DOMAIN s : s[j] = s[i] /\ m = Len(s) - j}
<1>1. DOMAIN s = 1..Len(s) /\ Len(s) \in Nat
  OBVIOUS
<1>2. Len(s) - i \in T
  BY <1>1
<1>3. PICK n \in T : \A m \in T : n <= m
  BY <1>2, LeastNatural
<1>4. PICK j \in DOMAIN s : s[j] = s[i] /\ n = Len(s) - j
  OBVIOUS
<1>5. ASSUME NEW k \in DOMAIN s, s[k] = s[i] PROVE k <= j
  <2>1. Len(s) - k \in T
    BY <1>1, <1>5
  <2>2. n <= Len(s) - k
    BY <1>3, <2>1
  <2> QED
    BY <1>1, <1>4, <2>2
<1>6. j >= i
  BY <1>5
<1>7. \A k \in DOMAIN s : k > j => s[k] # s[i]
  BY <1>1, <1>5
<1> QED
  BY <1>4, <1>6, <1>7

\* The tree of local schemas is listed in full or not at all, each group-version
\* once, by the last name that stands for it (local_schemas.go).
THEOREM TreeListedInFull == Spec => []TreeListed
<1>1. LInv => TreeListed
  <2> SUFFICES ASSUME LInv, outcome.schemas = "ok" PROVE TreeListed
    BY DEF TreeListed
  <2>1. pc # "groups" /\ disk \in Disks
    BY NoneAssumption DEF LInv, TypeOK
  <2>2. CASE disk.schemas.root = "missing"
    BY <2>2 DEF LInv, TreeSoFar, TreeListed
  <2>3. ASSUME disk.schemas.root # "missing",
               NEW g \in DOMAIN disk.schemas.groups,
               NEW i \in DOMAIN disk.schemas.groups[g].versions,
               disk.schemas.groups[g].versions[i] # None
        PROVE  \E j \in DOMAIN disk.schemas.groups[g].versions :
                 /\ j >= i
                 /\ disk.schemas.groups[g].versions[j] = disk.schemas.groups[g].versions[i]
                 /\ {p \in paths : p[1] = g /\ disk.schemas.groups[g].versions[p[2]]
                                             = disk.schemas.groups[g].versions[i]} = {<<g, j>>}
    <3> DEFINE versions == disk.schemas.groups[g].versions
    <3>1. disk.schemas.groups[g] \in Group
      BY <2>1, TreeTyped
    <3>2. versions \in Seq(GroupVersion \cup {None})
      BY <3>1 DEF Group
    <3>3. Listed(g)
      BY <2>1, <2>3 DEF LInv, TreeSoFar
    <3> HIDE DEF versions
    <3>4. PICK j \in DOMAIN versions :
            /\ j >= i /\ versions[j] = versions[i]
            /\ \A k \in DOMAIN versions : k > j => versions[k] # versions[i]
      BY <2>3, <3>2, LastOfKind DEF versions
    <3>5. {p \in paths : p[1] = g} = {<<g, v>> : v \in Last(versions)}
      BY <3>3 DEF Listed, versions
    <3>6. j \in Last(versions)
      BY <2>3, <3>4 DEF Last, versions
    <3>7. ASSUME NEW v \in Last(versions), versions[v] = versions[i]
          PROVE  v = j
      <4>1. v \in DOMAIN versions /\ \A k \in DOMAIN versions : k > v => versions[k] # versions[v]
        BY DEF Last
      <4>2. v \in Nat /\ j \in Nat
        BY <3>2, <4>1
      <4> QED
        BY <3>4, <3>7, <4>1, <4>2
    <3>8. {p \in paths : p[1] = g /\ versions[p[2]] = versions[i]} = {<<g, j>>}
      <4>1. ASSUME NEW p \in paths, p[1] = g, versions[p[2]] = versions[i] PROVE p = <<g, j>>
        <5>1. PICK v \in Last(versions) : p = <<g, v>>
          BY <3>5, <4>1
        <5> QED
          BY <3>7, <4>1, <5>1
      <4>2. <<g, j>> \in paths
        BY <3>5, <3>6
      <4> QED
        BY <3>4, <4>1, <4>2
    <3> QED
      BY <3>4, <3>8 DEF versions
  <2>4. ASSUME disk.schemas.root # "missing", NEW g \in DOMAIN disk.schemas.groups
        PROVE  disk.schemas.groups[g].listable
    BY <2>1, <2>4 DEF LInv, TreeSoFar, Listed
  <2> QED
    BY <2>2, <2>3, <2>4 DEF TreeListed
<1> QED
  BY <1>1, LocalInvariant, PTL

================================================================================
