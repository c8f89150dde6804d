------------------------------- MODULE Command -------------------------------
(***************************************************************************)
(* One run of the kubectl-validate command (pkg/cmd, pkg/utils/files.go,   *)
(* main.go): create the validator, find the files of the arguments,        *)
(* validate every document of every file, report in one of two formats,    *)
(* exit.  What the validator says of a document is left open here.         *)
(***************************************************************************)
EXTENDS Naturals, Sequences, FiniteSets

CONSTANTS
  Node,       \* what a path of the file system may name
  KindOf,     \* what each node is
  Children,   \* the entries of a directory, in the order ReadDir lists them
  Documents,  \* what ValidateFile finds in a file
  Args,       \* the command lines: sequences of nodes
  Formats,    \* the output formats
  Running     \* no exit code yet

NodeKinds == {"missing",     \* Stat fails
              "unreadable",  \* a directory that cannot be listed
              "dir",
              "manifest",    \* a file that ends in .yaml, .yml or .json
              "file"}        \* any other file

(***************************************************************************)
(* A file that cannot be read, or the documents it is split into, each     *)
(* empty or an object.                                                     *)
(***************************************************************************)
Contents == [readable : BOOLEAN, documents : Seq({"empty", "object"})]

(***************************************************************************)
(* The errors the validator returns, by what errorToStatus can tell of     *)
(* them: their outermost type, and the types of the errors they join.      *)
(***************************************************************************)
Parts == SUBSET {"field", "yaml", "other"}

Error(shape, parts) == [shape |-> shape, parts |-> parts]

Nil == Error("nil", {})

Errors ==
  {Error("joined", p) : p \in Parts \ {{}}}      \* strict decoding, dangling references
  \cup {Error("aggregate", p) : p \in {{"field"}, {"other"}, {"field", "other"}}}
  \cup {Error("status", {}), Error("field", {}), Error("plain", {})}

ASSUME TreeAssumption ==
  /\ KindOf \in [Node -> NodeKinds]
  /\ Children \in [Node -> Seq(Node)]
  /\ \A n \in Node : KindOf[n] \in {"manifest", "file"} => Documents[n] \in Contents

ASSUME CommandLineAssumption ==
  /\ Args \subseteq Seq(Node)
  /\ Running \notin {0, 1, 2, 3}

VARIABLES
  args, format,
  pc,        \* where Run stands
  todo,      \* what FindFiles has still to visit, with whether it is an argument
  files,     \* the files found
  at,        \* the file being validated
  errs,      \* what its documents have returned so far
  reports,   \* human output: one line per file
  res,       \* JSON output: the statuses by file
  hasError,
  exit       \* the exit code of the process

commandVars == <<args, format, pc, todo, files, at, errs, reports, res, hasError, exit>>

File == {n \in Node : KindOf[n] \in {"manifest", "file"}}

Init ==
  /\ args \in Args /\ format \in Formats
  /\ pc = "flags" /\ todo = <<>> /\ files = <<>> /\ at = 1 /\ errs = <<>>
  /\ reports = <<>> /\ res = [f \in File |-> <<>>]
  /\ hasError = FALSE /\ exit = Running

-----------------------------------------------------------------------------
\* main maps ValidationError, ArgumentError and success to exit codes.
Exit(code) == exit' = code /\ pc' = "exited"

Visit(n, named) == [node |-> n, named |-> named]

\* Cobra parses the flags and wants at least one argument; its errors are of
\* none of the types main knows.
ParseFlags ==
  /\ pc = "flags"
  /\ \/ Len(args) > 0 /\ pc' = "new" /\ UNCHANGED exit
     \/ Exit(3)
  /\ UNCHANGED <<args, format, todo, files, at, errs, reports, res, hasError>>

\* validator.New; without a client there is nothing to validate with.
NewValidator ==
  /\ pc = "new"
  /\ \/ /\ pc' = "find"
        /\ todo' = [i \in 1..Len(args) |-> Visit(args[i], TRUE)]
        /\ UNCHANGED exit
     \/ Exit(2) /\ UNCHANGED todo
  /\ UNCHANGED <<args, format, files, at, errs, reports, res, hasError>>

(***************************************************************************)
(* FindFiles and findFilesInDir: the recursion is a stack of what is still *)
(* to be visited.  An argument is taken whatever its name, an entry of a   *)
(* directory only if its name says YAML or JSON.                           *)
(***************************************************************************)
Finding(kinds) == pc = "find" /\ todo # <<>> /\ KindOf[Head(todo).node] \in kinds

EnterDirectory ==
  /\ Finding({"dir"})
  /\ LET entries == Children[Head(todo).node]
     IN  todo' = [i \in 1..Len(entries) |-> Visit(entries[i], FALSE)] \o Tail(todo)
  /\ UNCHANGED <<args, format, pc, files, at, errs, reports, res, hasError, exit>>

\* Mutant: an argument is only taken if its name says YAML or JSON.
WantedByName(v) == KindOf[v.node] = "manifest"

Wanted(v) == v.named \/ KindOf[v.node] = "manifest"

TakeFile ==
  /\ Finding({"manifest", "file"})
  /\ todo' = Tail(todo)
  /\ files' = IF Wanted(Head(todo)) THEN Append(files, Head(todo).node) ELSE files
  /\ UNCHANGED <<args, format, pc, at, errs, reports, res, hasError, exit>>

FindFails ==
  /\ Finding({"missing", "unreadable"})
  /\ Exit(2)
  /\ UNCHANGED <<args, format, todo, files, at, errs, reports, res, hasError>>

FoundAll ==
  /\ pc = "find" /\ todo = <<>>
  /\ pc' = "validate"
  /\ UNCHANGED <<args, format, todo, files, at, errs, reports, res, hasError, exit>>

-----------------------------------------------------------------------------
Path == files[at]

\* ValidateFile returns one error, nil or not, per document.
Expected(f) ==
  IF Documents[f].readable THEN Len(Documents[f].documents) ELSE 1

\* Mutant: a file that cannot be read is read again.
ReadAgain ==
  /\ pc = "validate" /\ at <= Len(files)
  /\ ~Documents[Path].readable
  /\ errs = <<>>
  /\ UNCHANGED commandVars

ReadFails ==
  /\ pc = "validate" /\ at <= Len(files)
  /\ ~Documents[Path].readable
  /\ errs = <<>>
  /\ errs' = <<Error("plain", {})>>
  /\ UNCHANGED <<args, format, pc, todo, files, at, reports, res, hasError, exit>>

\* The next document of the file is of this kind.
AtDocument(kind) ==
  /\ pc = "validate" /\ at <= Len(files)
  /\ Documents[Path].readable
  /\ Len(errs) < Expected(Path)
  /\ Documents[Path].documents[Len(errs) + 1] = kind

SkipEmptyDocument ==
  /\ AtDocument("empty")
  /\ errs' = Append(errs, Nil)
  /\ UNCHANGED <<args, format, pc, todo, files, at, reports, res, hasError, exit>>

ValidateDocument ==
  /\ AtDocument("object")
  /\ \E e \in Errors \cup {Nil} : errs' = Append(errs, e)
  /\ UNCHANGED <<args, format, pc, todo, files, at, reports, res, hasError, exit>>

-----------------------------------------------------------------------------
\* Mutant: an error is named by its type.
ErrorToShape(e) == e.shape

\* The status of an error in the JSON output: its reason, or "Success".
ErrorToStatus(e) ==
  CASE e.shape = "nil"       -> "Success"
    [] e.shape = "joined"    ->
         IF "other" \in e.parts THEN "InternalError"
         ELSE IF e.parts = {"yaml"} THEN "BadRequest" ELSE "Invalid"
    [] e.shape = "status"    -> "StatusError"
    [] e.shape = "field"     -> "Invalid"
    [] e.shape = "aggregate" -> IF e.parts = {"field"} THEN "Invalid" ELSE "InternalError"
    [] OTHER                 -> "InternalError"

Failing == \E i \in 1..Len(errs) : errs[i] # Nil

\* Mutant: the last file decides.
LastFileOnly(old) == Failing

HasErrorAfter(old) == old \/ Failing

Statuses == [i \in 1..Len(errs) |-> ErrorToStatus(errs[i])]

\* Mutant: the statuses of a file replace those of its last occurrence.
Replaced(old) == Statuses

Reported(old) == old \o Statuses

NextFile ==
  /\ at' = at + 1
  /\ errs' = <<>>
  /\ UNCHANGED <<args, format, pc, todo, files, exit>>

FileDone ==
  pc = "validate" /\ at <= Len(files) /\ Len(errs) = Expected(Path)

ReportHuman ==
  /\ FileDone
  /\ format = "human"
  /\ reports' = Append(reports, [file |-> Path, verdict |-> IF Failing THEN "ERROR" ELSE "OK"])
  /\ hasError' = HasErrorAfter(hasError)
  /\ UNCHANGED res
  /\ NextFile

ReportJSON ==
  /\ FileDone
  /\ format = "json"
  /\ res' = [res EXCEPT ![Path] = Reported(@)]
  /\ hasError' = HasErrorAfter(hasError)
  /\ UNCHANGED reports
  /\ NextFile

Finish ==
  /\ pc = "validate" /\ at > Len(files)
  /\ Exit(IF hasError THEN 1 ELSE 0)
  /\ UNCHANGED <<args, format, todo, files, at, errs, reports, res, hasError>>

\* The validator may take the process down: a Go panic exits with 2.
Panic ==
  /\ AtDocument("object")
  /\ Exit(2)
  /\ UNCHANGED <<args, format, todo, files, at, errs, reports, res, hasError>>

Next ==
  \/ ParseFlags
  \/ NewValidator
  \/ EnterDirectory
  \/ TakeFile
  \/ FindFails
  \/ FoundAll
  \/ ReadFails
  \/ SkipEmptyDocument
  \/ ValidateDocument
  \/ ReportHuman
  \/ ReportJSON
  \/ Finish
  \/ Panic

Spec == Init /\ [][Next]_commandVars

\* What Run does itself is sequential and goes on; the validator and the
\* creation of its client may wait for a network that never answers.
FairSpec ==
  /\ Spec
  /\ WF_commandVars(EnterDirectory)
  /\ WF_commandVars(TakeFile)
  /\ WF_commandVars(FindFails)
  /\ WF_commandVars(FoundAll)
  /\ WF_commandVars(ReadFails)
  /\ WF_commandVars(SkipEmptyDocument)
  /\ WF_commandVars(ReportHuman)
  /\ WF_commandVars(ReportJSON)
  /\ WF_commandVars(Finish)

-----------------------------------------------------------------------------
\* Variables keep their types.
TypeOK ==
  /\ args \in Args /\ format \in Formats
  /\ pc \in {"flags", "new", "find", "validate", "exited"}
  /\ todo \in Seq([node : Node, named : BOOLEAN])
  /\ files \in Seq(File)
  /\ at \in 1..(Len(files) + 1)
  /\ errs \in Seq(Errors \cup {Nil})
  /\ reports \in Seq([file : File, verdict : {"OK", "ERROR"}])
  /\ DOMAIN res = File
  /\ \A f \in File :
       res[f] \in Seq({"Success", "Invalid", "BadRequest", "InternalError", "StatusError"})
  /\ hasError \in BOOLEAN
  /\ exit \in {Running, 0, 1, 2, 3}

Occurrences(f) == Cardinality({i \in 1..(at - 1) : files[i] = f})

\* Every document of every file done is accounted for: in the JSON output as
\* many statuses as documents, times the occurrences of the file; in the human
\* output one line per file, in order.
EveryDocumentReported ==
  /\ format = "json" => \A f \in File : Len(res[f]) = Expected(f) * Occurrences(f)
  /\ format = "human" => /\ Len(reports) = at - 1
                         /\ \A i \in 1..(at - 1) : reports[i].file = files[i]

\* Something that was reported failed.
Failure ==
  \/ \E i \in 1..Len(reports) : reports[i].verdict = "ERROR"
  \/ \E f \in File : \E i \in 1..Len(res[f]) : res[f][i] # "Success"

\* The exit code says what the report says: 0 if nothing reported failed, 1 if
\* something did; and it is neither unless there were arguments and every file
\* that was found is in the report.
ExitMatchesReport ==
  exit \in {0, 1} =>
    /\ (exit = 1) <=> Failure
    /\ args # <<>> /\ todo = <<>> /\ at = Len(files) + 1

\* The documents that the run has still to validate.
Unanswered(i) ==
  {j \in 1..Len(Documents[files[i]].documents) :
     i > at \/ (i = at /\ j > Len(errs))}

\* The search ends, in files or in an error, whatever is in the directories.  A
\* run that has no object left to validate needs nothing but the disk: files
\* that cannot be read, have no documents or empty ones do not keep it from
\* ending.
Finishes ==
  /\ (pc = "find") ~> (pc # "find")
  /\ (/\ pc = "validate"
      /\ \A i \in at..Len(files) : \A j \in Unanswered(i) :
           Documents[files[i]].documents[j] = "empty")
     ~> (pc = "exited")

=============================================================================
