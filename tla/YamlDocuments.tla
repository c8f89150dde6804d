---------------------------- MODULE YamlDocuments ----------------------------
(***************************************************************************)
(* SplitYamlDocuments and IsEmptyYamlDocument of pkg/utils: how a YAML     *)
(* file becomes the documents that are validated one by one.  A line is    *)
(* abstracted to its role.  The buffer of the reader and every document    *)
(* are contiguous ranges of lines, named by their first and last line; a   *)
(* separator that ends a document belongs to none.                         *)
(***************************************************************************)
EXTENDS Naturals, Sequences

CONSTANT Inputs   \* the files: sequences of line roles

Roles == {"content",             \* anything YAML reads
          "ignored",             \* blank, or a comment
          "separator",           \* --- and spaces
          "commentedSeparator",  \* --- # and a comment
          "badSeparator"}        \* a line that starts with --- and goes on

ASSUME InputsAssumption == Inputs \subseteq Seq(Roles)

VARIABLES
  input,      \* the lines of the file
  next,       \* the line the reader reads next
  start,      \* the first line of its buffer, empty when start = next
  documents,  \* the documents split off so far
  result      \* "none" while reading, then what SplitYamlDocuments returns

yamlVars == <<input, next, start, documents, result>>

Document == [first : Nat, last : Nat]

Init ==
  /\ input \in Inputs
  /\ next = 1
  /\ start = 1
  /\ documents = <<>>
  /\ result = "none"

-----------------------------------------------------------------------------
(***************************************************************************)
(* YAMLReader.Read, one line at a time.                                    *)
(***************************************************************************)
Separates(l) == input[l] \in {"separator", "commentedSeparator"}

Reading == result = "none" /\ next <= Len(input)

\* Mutant: the document is returned with its separator, and one line more.
EmitThrough == documents' = Append(documents, [first |-> start, last |-> next])

Emit == documents' = Append(documents, [first |-> start, last |-> next - 1])

\* Mutant: a separator in the middle of a document is taken for content.
KeepAnyLine ==
  /\ Reading
  /\ input[next] # "badSeparator"
  /\ next' = next + 1
  /\ UNCHANGED <<input, start, documents, result>>

\* Every line but a separator is buffered, and so is a separator that has
\* nothing to end.
KeepLine ==
  /\ Reading
  /\ input[next] # "badSeparator"
  /\ Separates(next) => start = next
  /\ next' = next + 1
  /\ UNCHANGED <<input, start, documents, result>>

\* Mutant: the line of the separator is handed to no one, nor the line after it.
EndDocumentSkips ==
  /\ Reading
  /\ Separates(next)
  /\ start < next
  /\ Emit
  /\ next' = IF next < Len(input) THEN next + 2 ELSE next + 1
  /\ start' = next'
  /\ UNCHANGED <<input, result>>

EndDocument ==
  /\ Reading
  /\ Separates(next)
  /\ start < next
  /\ Emit
  /\ next' = next + 1
  /\ start' = next + 1
  /\ UNCHANGED <<input, result>>

\* Mutant: the loop reads on after an error, at the same place.
RetryBadSeparator ==
  /\ Reading
  /\ input[next] = "badSeparator"
  /\ UNCHANGED yamlVars

\* Read returns an error and no bytes.  SplitYamlDocuments looks at the number
\* of bytes before it looks at the error: the loop ends as at the end of the
\* file, and the buffer is gone.
StopAtBadSeparator ==
  /\ Reading
  /\ input[next] = "badSeparator"
  /\ result' = "documents"
  /\ UNCHANGED <<input, next, start, documents>>

\* Mutant: the last document is dropped unless a separator ends it.
EndOfFileDrops ==
  /\ result = "none"
  /\ next > Len(input)
  /\ result' = "documents"
  /\ UNCHANGED <<input, next, start, documents>>

\* At the end of the file the buffer is the last document.
EndOfFile ==
  /\ result = "none"
  /\ next > Len(input)
  /\ \/ /\ start < next
        /\ Emit
        /\ start' = next
        /\ UNCHANGED <<input, next, result>>
     \/ /\ start = next
        /\ result' = "documents"
        /\ UNCHANGED <<input, next, start, documents>>

Next == KeepLine \/ EndDocument \/ StopAtBadSeparator \/ EndOfFile

Spec == Init /\ [][Next]_yamlVars

\* The loop is sequential code over a buffer in memory: it keeps running.
FairSpec == Spec /\ WF_yamlVars(Next)

-----------------------------------------------------------------------------
Lines(d) == d.first..d.last

\* ValidateFile skips the documents of which this holds: blank, comment and
\* bare separator lines only.  A separator with a comment is kept as a line of the
\* document it begins, and is none of these, although no content either.
IsEmptyYamlDocument(d) == \A l \in Lines(d) : input[l] \in {"ignored", "separator"}

-----------------------------------------------------------------------------
\* Some document boundary is due between line a and a later line b.
BoundaryBetween(a, b) == \E s \in (a + 1)..b : Separates(s)

\* The documents, and then the buffer, follow one another in the file.
TypeOK ==
  /\ input \in Inputs
  /\ next \in 1..(Len(input) + 1)
  /\ start \in 1..next
  /\ documents \in Seq(Document)
  /\ result \in {"none", "documents"}
  /\ \A i \in 1..Len(documents) :
       /\ 1 <= documents[i].first
       /\ documents[i].first <= documents[i].last
       /\ documents[i].last < start

\* No line that has been split off is lost: it is in a document, or it is the
\* separator that ended one.
NoLineLost ==
  \A l \in 1..(start - 1) :
    Separates(l) \/ \E i \in 1..Len(documents) : l \in Lines(documents[i])

\* Two lines share a document exactly when no separator comes between them, and
\* documents keep the order of the file.
SplitAtSeparators ==
  \A i, j \in 1..Len(documents) :
    \A a \in Lines(documents[i]), b \in Lines(documents[j]) :
      a < b => (i = j <=> ~BoundaryBetween(a, b)) /\ i <= j

\* A file without a malformed separator is split completely, and what has content
\* is validated: it comes into a document that ValidateFile does not skip.
Complete ==
  (result = "documents" /\ \A l \in 1..Len(input) : input[l] # "badSeparator") =>
    \A l \in 1..Len(input) :
      \/ Separates(l)
      \/ \E i \in 1..Len(documents) :
           /\ l \in Lines(documents[i])
           /\ input[l] = "content" => ~IsEmptyYamlDocument(documents[i])

\* The loop ends, on every file.
Terminates == <>(result # "none")

\* A malformed separator makes SplitYamlDocuments return the reader's error, as
\* its second branch says.
ReaderErrorsReported ==
  (result = "documents") => \A l \in 1..Len(input) : input[l] # "badSeparator"
=============================================================================
