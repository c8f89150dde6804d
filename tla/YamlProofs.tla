----------------------------- MODULE YamlProofs ------------------------------
(***************************************************************************)
(* SplitYamlDocuments, for files of every length.  The inductive invariant *)
(* says where the separators are: never inside a document or inside the    *)
(* buffer other than on its first line, and always between two documents.  *)
(***************************************************************************)
EXTENDS YamlDocuments, TLAPS

\* Inside a document, and inside the buffer, only the first line separates.
Unbroken ==
  /\ \A i \in 1..Len(documents) :
       \A l \in (documents[i].first + 1)..documents[i].last : ~Separates(l)
  /\ \A l \in (start + 1)..(next - 1) : ~Separates(l)

\* Between two documents, and before a buffer that may still grow, a line does.
Apart ==
  /\ \A i, j \in 1..Len(documents) :
       i < j => BoundaryBetween(documents[i].last, documents[j].first)
  /\ \A i \in 1..Len(documents) :
       start <= Len(input) => BoundaryBetween(documents[i].last, start)

\* Why reading stops.
Stopped ==
  result = "documents" =>
    \/ start = next /\ next = Len(input) + 1
    \/ next <= Len(input) /\ input[next] = "badSeparator"

YInv == TypeOK /\ NoLineLost /\ Unbroken /\ Apart /\ Stopped

\* The document a step appends is the last, and nothing else moves.
LEMMA EmitFacts ==
  ASSUME TypeOK, start < next, Emit
  PROVE  /\ documents' \in Seq(Document)
         /\ Len(documents) \in Nat
         /\ Len(documents') = Len(documents) + 1
         /\ \A i \in 1..Len(documents) : documents'[i] = documents[i]
         /\ documents'[Len(documents) + 1].first = start
         /\ documents'[Len(documents) + 1].last = next - 1
<1> DEFINE d == [first |-> start, last |-> next - 1]
<1>1. input \in Seq(Roles) /\ Len(input) \in Nat
  BY InputsAssumption DEF TypeOK
<1>2. d \in Document
  BY <1>1 DEF TypeOK, Document
<1>3. documents' = Append(documents, d)
  BY DEF Emit
<1> HIDE DEF d
<1>4. /\ documents' \in Seq(Document)
      /\ Len(documents) \in Nat
      /\ Len(documents') = Len(documents) + 1
      /\ \A i \in 1..Len(documents) : documents'[i] = documents[i]
      /\ documents'[Len(documents) + 1] = d
  BY <1>2, <1>3 DEF TypeOK
<1> QED BY <1>4 DEF d

\* Emitting the buffer, and starting the next one behind line next - 1 or
\* behind the separator at next, keeps the documents in order and complete.
LEMMA EmitStep ==
  ASSUME YInv, start < next, Emit, UNCHANGED <<input, result>>, result = "none",
         \/ /\ next <= Len(input) /\ Separates(next)
            /\ next' = next + 1 /\ start' = next + 1
         \/ next > Len(input) /\ next' = next /\ start' = next
  PROVE  YInv'
<1>0. TypeOK /\ NoLineLost /\ Unbroken /\ Apart
  BY DEF YInv
<1>1. input \in Seq(Roles) /\ Len(input) \in Nat
  BY <1>0, InputsAssumption DEF TypeOK
<1>2. start \in Nat /\ next \in Nat /\ 1 <= start /\ next <= Len(input) + 1
  BY <1>0, <1>1 DEF TypeOK
<1> DEFINE n == Len(documents)
<1>3. /\ n \in Nat /\ Len(documents') = n + 1
      /\ \A i \in 1..n : documents'[i] = documents[i] /\ documents[i] \in Document
      /\ documents'[n + 1].first = start /\ documents'[n + 1].last = next - 1
      /\ documents' \in Seq(Document)
  BY <1>0, EmitFacts DEF TypeOK
<1>4. \A i \in 1..n : documents[i].first \in Nat /\ documents[i].last \in Nat
  BY <1>3 DEF Document
<1> HIDE DEF n
<1>5. TypeOK'
  <2>1. ASSUME NEW i \in 1..(n + 1)
        PROVE  /\ 1 <= documents'[i].first
               /\ documents'[i].first <= documents'[i].last
               /\ documents'[i].last < start'
    <3>1. CASE i \in 1..n
      <4>1. /\ 1 <= documents[i].first /\ documents[i].first <= documents[i].last
            /\ documents[i].last < start
        BY <1>0, <3>1 DEF TypeOK, n
      <4>2. documents'[i] = documents[i] /\ start < start'
        BY <1>2, <1>3, <3>1
      <4> QED BY <1>2, <1>4, <3>1, <4>1, <4>2
    <3>2. CASE i = n + 1
      BY <1>2, <1>3, <3>2
    <3> QED BY <1>3, <3>1, <3>2
  <2>2. next' \in 1..(Len(input) + 1) /\ start' \in 1..next'
    BY <1>1, <1>2
  <2>3. input' \in Inputs /\ result' \in {"none", "documents"} /\ Len(input') = Len(input)
    BY <1>0 DEF TypeOK
  <2> QED BY <1>3, <2>1, <2>2, <2>3 DEF TypeOK
<1>6. NoLineLost'
  <2> SUFFICES ASSUME NEW l \in 1..(start' - 1), ~Separates(l)
               PROVE  \E i \in 1..(n + 1) : l \in documents'[i].first..documents'[i].last
    BY <1>3 DEF NoLineLost, Lines, Separates
  <2>1. CASE l <= start - 1
    <3>1. PICK i \in 1..n : l \in documents[i].first..documents[i].last
      BY <1>0, <1>2, <2>1 DEF NoLineLost, Lines, n
    <3> QED BY <1>3, <3>1
  <2>2. CASE l >= start
    <3>1. l # next
      BY <1>2
    <3>2. l \in start..(next - 1)
      BY <1>2, <2>2, <3>1
    <3> QED BY <1>3, <3>2
  <2> QED BY <1>2, <2>1, <2>2
<1>7. Unbroken'
  <2>1. ASSUME NEW i \in 1..(n + 1),
               NEW l \in (documents'[i].first + 1)..documents'[i].last
        PROVE  ~Separates(l)
    BY <1>0, <1>2, <1>3 DEF Unbroken, n
  <2>2. \A l \in (start' + 1)..(next' - 1) : FALSE
    BY <1>2
  <2> QED BY <1>3, <2>1, <2>2 DEF Unbroken, Separates
<1>8. Apart'
  <2>1. ASSUME NEW i \in 1..(n + 1), NEW j \in 1..(n + 1), i < j
        PROVE  BoundaryBetween(documents'[i].last, documents'[j].first)
    <3>1. i \in 1..n
      BY <1>3, <2>1
    <3>2. CASE j \in 1..n
      BY <1>0, <1>3, <2>1, <3>1, <3>2 DEF Apart, n
    <3>3. CASE j = n + 1
      <4>1. BoundaryBetween(documents[i].last, start)
        BY <1>0, <1>1, <1>2, <3>1 DEF Apart, n
      <4> QED BY <1>3, <3>1, <3>3, <4>1
    <3> QED BY <1>3, <3>2, <3>3
  <2>2. ASSUME NEW i \in 1..(n + 1), start' <= Len(input)
        PROVE  BoundaryBetween(documents'[i].last, start')
    <3>1. Separates(next) /\ start' = next + 1
      BY <1>1, <1>2, <2>2
    <3>2. documents'[i].last \in Nat /\ documents'[i].last < next
      BY <1>0, <1>2, <1>3, <1>4 DEF TypeOK, n
    <3>3. next \in (documents'[i].last + 1)..start'
      BY <1>2, <3>1, <3>2
    <3> QED BY <3>1, <3>3 DEF BoundaryBetween
  <2> QED BY <1>3, <2>1, <2>2 DEF Apart, BoundaryBetween, Separates
<1>9. Stopped'
  BY DEF Stopped
<1> QED BY <1>5, <1>6, <1>7, <1>8, <1>9 DEF YInv

\* Steps that emit nothing.
LEMMA QuietStep ==
  ASSUME YInv, KeepLine \/ StopAtBadSeparator \/ UNCHANGED yamlVars
         \/ (/\ result = "none" /\ next > Len(input) /\ start = next
             /\ result' = "documents" /\ UNCHANGED <<input, next, start, documents>>)
  PROVE  YInv'
<1>0. TypeOK /\ NoLineLost /\ Unbroken /\ Apart /\ Stopped
  BY DEF YInv
<1>1. input \in Seq(Roles) /\ Len(input) \in Nat
  BY <1>0, InputsAssumption DEF TypeOK
<1>2. start \in Nat /\ next \in Nat /\ 1 <= start /\ start <= next /\ next <= Len(input) + 1
  BY <1>0, <1>1 DEF TypeOK
<1>3. /\ UNCHANGED <<input, start, documents>> /\ result' \in {"none", "documents"}
      /\ \/ next' = next
         \/ next' = next + 1 /\ next <= Len(input) /\ (Separates(next) => start = next)
  BY <1>0 DEF KeepLine, Reading, StopAtBadSeparator, yamlVars, TypeOK
<1>4. TypeOK'
  BY <1>0, <1>1, <1>2, <1>3 DEF TypeOK
<1>5. NoLineLost'
  BY <1>0, <1>3 DEF NoLineLost, Lines, Separates
<1>6. Unbroken'
  <2>1. ASSUME NEW l \in (start + 1)..(next' - 1) PROVE ~Separates(l)
    <3>1. CASE l \in (start + 1)..(next - 1)
      BY <1>0, <3>1 DEF Unbroken
    <3>2. CASE l = next /\ next' = next + 1
      BY <1>2, <1>3, <3>2
    <3> QED BY <1>2, <1>3, <3>1, <3>2
  <2> QED BY <1>0, <1>3, <2>1 DEF Unbroken, Separates
<1>7. Apart'
  BY <1>0, <1>3 DEF Apart, BoundaryBetween, Separates
<1>8. Stopped'
  BY <1>0, <1>1, <1>2, <1>3 DEF Stopped, KeepLine, Reading, StopAtBadSeparator, yamlVars
<1> QED BY <1>4, <1>5, <1>6, <1>7, <1>8 DEF YInv

\* The invariant holds while any file is split.
THEOREM YamlInvariance == Spec => []YInv
<1>1. Init => YInv
  <2> SUFFICES ASSUME Init PROVE YInv
    OBVIOUS
  <2>1. input \in Seq(Roles) /\ Len(input) \in Nat
    BY InputsAssumption DEF Init
  <2>2. documents = <<>> /\ Len(documents) = 0 /\ start = 1 /\ next = 1
    BY DEF Init
  <2>3. TypeOK
    BY <2>1, <2>2 DEF Init, TypeOK
  <2>4. NoLineLost /\ Unbroken /\ Apart /\ Stopped
    BY <2>2 DEF Init, NoLineLost, Unbroken, Apart, Stopped
  <2> QED BY <2>3, <2>4 DEF YInv
<1>2. YInv /\ [Next]_yamlVars => YInv'
  <2> SUFFICES ASSUME YInv, [Next]_yamlVars PROVE YInv'
    OBVIOUS
  <2>1. CASE EndDocument
    BY <2>1, EmitStep DEF EndDocument, Reading
  <2>2. CASE EndOfFile
    BY <2>2, EmitStep, QuietStep DEF EndOfFile
  <2>3. CASE KeepLine \/ StopAtBadSeparator \/ UNCHANGED yamlVars
    BY <2>3, QuietStep
  <2> QED BY <2>1, <2>2, <2>3 DEF Next
<1> QED BY <1>1, <1>2, PTL DEF Spec

\* The reader keeps its types, on files of every length.
THEOREM YamlTypeCorrect == Spec => []TypeOK
BY YamlInvariance, PTL DEF YInv

\* No line is lost on the way.
THEOREM YamlNoLineLost == Spec => []NoLineLost
BY YamlInvariance, PTL DEF YInv

\* Lines are separated by separators, and by nothing else.
THEOREM YamlSplitAtSeparators == Spec => []SplitAtSeparators
<1>1. YInv => SplitAtSeparators
  <2> SUFFICES ASSUME YInv,
                      NEW i \in 1..Len(documents), NEW j \in 1..Len(documents),
                      NEW a \in Lines(documents[i]), NEW b \in Lines(documents[j]),
                      a < b
               PROVE  (i = j <=> ~BoundaryBetween(a, b)) /\ i <= j
    BY DEF SplitAtSeparators
  <2>1. /\ documents[i].first \in Nat /\ documents[i].last \in Nat
        /\ documents[j].first \in Nat /\ documents[j].last \in Nat
        /\ Len(documents) \in Nat
    <3>1. documents \in Seq(Document)
      BY DEF YInv, TypeOK
    <3>2. documents[i] \in Document /\ documents[j] \in Document /\ Len(documents) \in Nat
      BY <3>1
    <3> QED BY <3>2 DEF Document
  <2>2. /\ a \in documents[i].first..documents[i].last
        /\ b \in documents[j].first..documents[j].last
    BY DEF Lines
  <2>3. CASE i = j
    <3>1. \A l \in (a + 1)..b : ~Separates(l)
      BY <2>1, <2>2, <2>3 DEF YInv, Unbroken
    <3> QED BY <2>3, <3>1 DEF BoundaryBetween
  <2>4. CASE i < j
    <3>1. PICK s \in (documents[i].last + 1)..documents[j].first : Separates(s)
      BY <2>4 DEF YInv, Apart, BoundaryBetween
    <3>2. s \in (a + 1)..b
      BY <2>1, <2>2, <3>1
    <3> QED BY <2>4, <3>1, <3>2 DEF BoundaryBetween
  <2>5. CASE j < i
    <3>1. PICK s \in (documents[j].last + 1)..documents[i].first : Separates(s)
      BY <2>5 DEF YInv, Apart, BoundaryBetween
    <3> QED BY <2>1, <2>2, <3>1
  <2> QED BY <2>1, <2>3, <2>4, <2>5
<1> QED BY <1>1, YamlInvariance, PTL

\* A file without a malformed separator is split to its end, and no document with
\* content is skipped.
THEOREM YamlComplete == Spec => []Complete
<1>1. YInv => Complete
  <2> SUFFICES ASSUME YInv, result = "documents",
                      \A l \in 1..Len(input) : input[l] # "badSeparator",
                      NEW l \in 1..Len(input), ~Separates(l)
               PROVE  \E i \in 1..Len(documents) :
                        /\ l \in Lines(documents[i])
                        /\ input[l] = "content" => ~IsEmptyYamlDocument(documents[i])
    BY DEF Complete
  <2>1. Len(input) \in Nat /\ next \in Nat /\ 1 <= next
    BY InputsAssumption DEF YInv, TypeOK
  <2>2. start = Len(input) + 1
    BY <2>1 DEF YInv, Stopped
  <2>3. PICK i \in 1..Len(documents) : l \in Lines(documents[i])
    BY <2>1, <2>2 DEF YInv, NoLineLost
  <2>4. input[l] = "content" => ~IsEmptyYamlDocument(documents[i])
    BY <2>3 DEF IsEmptyYamlDocument
  <2> QED BY <2>3, <2>4
<1> QED BY <1>1, YamlInvariance, PTL
=============================================================================
