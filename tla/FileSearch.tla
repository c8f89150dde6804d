------------------------------ MODULE FileSearch ------------------------------
(***************************************************************************)
(* What FindFiles (pkg/utils/files.go) should find, by recursion over the  *)
(* tree, and that the run of Command finds it.                             *)
(***************************************************************************)
EXTENDS Command

Concat == INSTANCE SequencesExt

\* Directories are finitely nested: none of them is inside itself, by way of others
\* or not.  A link to a directory is no directory to ReadDir.
ASSUME NestingAssumption ==
  \A within \in SUBSET Node :
    (\A n \in within : /\ KindOf[n] = "dir"
                       /\ \E i \in 1..Len(Children[n]) : Children[n][i] \in within) =>
      within = {}

\* What FindFiles should find below an entry of a directory, were it to take also
\* what it cannot visit: the definition its stack implements.
Below[n \in Node] ==
  CASE KindOf[n] = "dir" ->
         Concat!FlattenSeq([i \in 1..Len(Children[n]) |-> Below[Children[n][i]]])
    [] KindOf[n] = "file" -> <<>>
    [] OTHER -> <<n>>

\* An argument is also taken if its name does not say YAML or JSON.
Sought(n) == IF KindOf[n] = "file" THEN <<n>> ELSE Below[n]

\* All manifests below the arguments are validated, in the order of the
\* arguments and of the listings, as often as an argument reaches them; and
\* nothing is reported if anything below the arguments cannot be visited.
FilesFound ==
  LET below == Concat!FlattenSeq([i \in 1..Len(args) |-> Sought(args[i])])
  IN  pc = "validate" \/ exit \in {0, 1} \/ Failure => files = below /\ below \in Seq(File)
=============================================================================
