---------------------------- MODULE CommandProofs ----------------------------
(***************************************************************************)
(* Theorems about one run of the command, for any tree of files, any       *)
(* documents in them, any command line, and any verdicts.                  *)
(***************************************************************************)
EXTENDS FileSearch, FiniteSetTheorems, SequenceTheorems, WellFoundedInduction,
        NaturalsInduction, TLAPS

Status == {"Success", "Invalid", "BadRequest", "InternalError", "StatusError"}

\* How far the run is.
Progress ==
  /\ pc \in {"flags", "new", "find"} => at = 1
  /\ pc \in {"new", "find", "validate"} => args # <<>>
  /\ pc = "validate" => todo = <<>>
  /\ pc # "exited" => exit = Running

CInv ==
  /\ TypeOK
  /\ Progress
  /\ EveryDocumentReported
  /\ hasError <=> Failure
  /\ ExitMatchesReport

-----------------------------------------------------------------------------
\* Only what is no error is a success.
LEMMA StatusOfError ==
  ASSUME NEW e \in Errors \cup {Nil}
  PROVE  /\ ErrorToStatus(e) \in Status
         /\ ErrorToStatus(e) = "Success" <=> e = Nil
<1>1. CASE e = Nil
  BY <1>1 DEF ErrorToStatus, Nil, Error, Status
<1>2. CASE e \in Errors
  <2>1. e.shape \in {"joined", "aggregate", "status", "field", "plain"}
    BY <1>2 DEF Errors, Error
  <2>2. e # Nil
    BY <2>1 DEF Nil, Error
  <2> QED
    BY <2>1, <2>2 DEF ErrorToStatus, Status
<1> QED
  BY <1>1, <1>2

LEMMA StatusesTyped ==
  ASSUME TypeOK
  PROVE  /\ Statuses \in Seq(Status) /\ Len(Statuses) = Len(errs)
         /\ \A i \in 1..Len(errs) : Statuses[i] = ErrorToStatus(errs[i])
         /\ \A i \in 1..Len(errs) : Statuses[i] # "Success" <=> errs[i] # Nil
<1>1. errs \in Seq(Errors \cup {Nil}) /\ Len(errs) \in Nat
  BY DEF TypeOK
<1>2. \A i \in 1..Len(errs) :
        /\ ErrorToStatus(errs[i]) \in Status
        /\ ErrorToStatus(errs[i]) = "Success" <=> errs[i] = Nil
  BY <1>1, StatusOfError
<1> QED
  BY <1>1, <1>2 DEF Statuses

\* What is at hand is a file, and its documents have been read.
LEMMA CurrentFile ==
  ASSUME TypeOK, at <= Len(files)
  PROVE  /\ at \in 1..Len(files) /\ at + 1 \in 1..(Len(files) + 1)
         /\ Path \in File /\ Expected(Path) \in Nat
<1>1. at \in 1..Len(files) /\ at + 1 \in 1..(Len(files) + 1) /\ Path \in File
  BY DEF TypeOK, Path
<1>2. Documents[Path] \in Contents
  BY <1>1, TreeAssumption DEF File
<1> QED
  BY <1>1, <1>2 DEF Expected, Contents

-----------------------------------------------------------------------------
\* A function over the first numbers is a sequence.
LEMMA FunctionIsSeq ==
  ASSUME NEW S, NEW n \in Nat, NEW f \in [1..n -> S]
  PROVE  f \in Seq(S) /\ Len(f) = n
OBVIOUS

Visits == [node : Node, named : BOOLEAN]

LEMMA CTypeInit == Init => TypeOK
<1> SUFFICES ASSUME Init PROVE TypeOK
  OBVIOUS
<1>1. \A f \in File : res[f] = <<>>
  BY DEF Init
<1>2. \A S : <<>> \in Seq(S)
  BY EmptySeq
<1>3. DOMAIN res = File
  BY DEF Init
<1>4. at \in 1..(Len(files) + 1)
  BY DEF Init
<1> QED
  BY <1>1, <1>2, <1>3, <1>4 DEF Init, TypeOK

LEMMA CTypeStep ==
  ASSUME TypeOK, Progress, [Next]_commandVars
  PROVE  TypeOK'
<1>1. CASE ParseFlags
  BY <1>1 DEF TypeOK, ParseFlags, Exit
<1>2. CASE NewValidator
  <2>1. args \in Seq(Node)
    BY CommandLineAssumption DEF TypeOK
  <2>2. ASSUME NEW i \in 1..Len(args)
        PROVE  Visit(args[i], TRUE) \in Visits
    BY <2>1 DEF Visit, Visits
  <2>3. Len(args) \in Nat
    BY <2>1
  <2>4. [i \in 1..Len(args) |-> Visit(args[i], TRUE)] \in [1..Len(args) -> Visits]
    BY <2>2
  <2>5. [i \in 1..Len(args) |-> Visit(args[i], TRUE)] \in Seq(Visits)
    BY <2>3, <2>4, FunctionIsSeq
  <2> QED
    BY <1>2, <2>5 DEF TypeOK, NewValidator, Exit, Visits
<1>3. CASE EnterDirectory
  <2> DEFINE entries == Children[Head(todo).node]
             visits == [i \in 1..Len(entries) |-> Visit(entries[i], FALSE)]
  <2>1. Head(todo) \in Visits /\ Tail(todo) \in Seq(Visits)
    BY <1>3, HeadTailProperties DEF TypeOK, EnterDirectory, Finding, Visits
  <2>2. entries \in Seq(Node) /\ Len(entries) \in Nat
    BY <2>1, TreeAssumption DEF Visits
  <2>3. \A i \in 1..Len(entries) : Visit(entries[i], FALSE) \in Visits
    BY <2>2 DEF Visit, Visits
  <2>4. visits \in [1..Len(entries) -> Visits]
    BY <2>3
  <2>5. visits \in Seq(Visits)
    BY <2>2, <2>4, FunctionIsSeq
  <2>6. visits \o Tail(todo) \in Seq(Visits)
    BY <2>1, <2>5, ConcatProperties
  <2> QED
    BY <1>3, <2>6 DEF TypeOK, EnterDirectory, Visits
<1>4. CASE TakeFile
  <2>0. Head(todo) \in Visits /\ Tail(todo) \in Seq(Visits)
    BY <1>4, HeadTailProperties DEF TypeOK, TakeFile, Finding, Visits
  <2>1. /\ Head(todo).node \in File
        /\ Tail(todo) \in Seq([node : Node, named : BOOLEAN])
    BY <1>4, <2>0 DEF TakeFile, Finding, File, Visits
  <2>2. files' \in Seq(File)
    BY <1>4, <2>1 DEF TypeOK, TakeFile
  <2>3. at' = 1 /\ at' \in 1..(Len(files') + 1)
    BY <1>4, <2>2 DEF TakeFile, Finding, Progress
  <2> QED
    BY <1>4, <2>1, <2>2, <2>3 DEF TypeOK, TakeFile
<1>5. CASE FindFails
  BY <1>5 DEF TypeOK, FindFails, Exit
<1>6. CASE FoundAll
  BY <1>6 DEF TypeOK, FoundAll
<1>7. CASE ReadFails
  <2>1. Error("plain", {}) \in Errors
    BY DEF Errors
  <2>2. errs' \in Seq(Errors \cup {Nil})
    BY <1>7, <2>1 DEF ReadFails
  <2> QED
    BY <1>7, <2>2 DEF TypeOK, ReadFails
<1>8. CASE SkipEmptyDocument
  <2>1. errs' \in Seq(Errors \cup {Nil})
    BY <1>8 DEF TypeOK, SkipEmptyDocument
  <2> QED
    BY <1>8, <2>1 DEF TypeOK, SkipEmptyDocument
<1>9. CASE ValidateDocument
  <2>1. errs' \in Seq(Errors \cup {Nil})
    BY <1>9 DEF TypeOK, ValidateDocument
  <2> QED
    BY <1>9, <2>1 DEF TypeOK, ValidateDocument
<1>10. CASE ReportHuman
  <2>1. Path \in File /\ at' \in 1..(Len(files) + 1)
    BY <1>10, CurrentFile DEF ReportHuman, FileDone, NextFile
  <2>2. reports' \in Seq([file : File, verdict : {"OK", "ERROR"}])
    <3>1. [file |-> Path, verdict |-> IF Failing THEN "ERROR" ELSE "OK"]
            \in [file : File, verdict : {"OK", "ERROR"}]
      BY <2>1
    <3> QED
      BY <1>10, <3>1 DEF TypeOK, ReportHuman
  <2>3. hasError' \in BOOLEAN
    BY <1>10 DEF ReportHuman, HasErrorAfter, Failing, TypeOK
  <2>4. errs' \in Seq(Errors \cup {Nil})
    BY <1>10 DEF ReportHuman, NextFile
  <2> QED
    BY <1>10, <2>1, <2>2, <2>3, <2>4 DEF TypeOK, ReportHuman, NextFile
<1>11. CASE ReportJSON
  <2>1. Path \in File /\ at' \in 1..(Len(files) + 1)
    BY <1>11, CurrentFile DEF ReportJSON, FileDone, NextFile
  <2>2. /\ DOMAIN res' = File
        /\ \A f \in File : res'[f] \in Seq(Status)
    <3>1. res[Path] \in Seq(Status) /\ Statuses \in Seq(Status)
      BY <2>1, StatusesTyped DEF TypeOK, Status
    <3>2. Reported(res[Path]) \in Seq(Status)
      BY <3>1 DEF Reported
    <3>3. res' = [res EXCEPT ![Path] = Reported(res[Path])]
      BY <1>11 DEF ReportJSON
    <3> QED
      BY <2>1, <3>2, <3>3 DEF TypeOK, Status
  <2>3. hasError' \in BOOLEAN
    BY <1>11 DEF ReportJSON, HasErrorAfter, Failing, TypeOK
  <2>4. errs' \in Seq(Errors \cup {Nil})
    BY <1>11 DEF ReportJSON, NextFile
  <2> QED
    BY <1>11, <2>1, <2>2, <2>3, <2>4 DEF TypeOK, ReportJSON, NextFile, Status
<1>12. CASE Finish
  BY <1>12 DEF TypeOK, Finish, Exit
<1>13. CASE Panic
  BY <1>13 DEF TypeOK, Panic, Exit
<1>14. CASE UNCHANGED commandVars
  BY <1>14 DEF commandVars, TypeOK
<1> QED
  BY <1>1, <1>2, <1>3, <1>4, <1>5, <1>6, <1>7,
     <1>8, <1>9, <1>10, <1>11, <1>12, <1>13, <1>14 DEF Next

-----------------------------------------------------------------------------
LEMMA ProgressStep ==
  ASSUME TypeOK, Progress, [Next]_commandVars
  PROVE  Progress'
<1> USE DEF Progress
<1>1. CASE ParseFlags
  <2>1. args \in Seq(Node)
    BY CommandLineAssumption DEF TypeOK
  <2> QED
    BY <1>1, <2>1 DEF ParseFlags, Exit
<1>2. CASE NewValidator
  BY <1>2 DEF NewValidator, Exit
<1>3. CASE EnterDirectory
  BY <1>3 DEF EnterDirectory, Finding
<1>4. CASE TakeFile
  BY <1>4 DEF TakeFile, Finding
<1>5. CASE FindFails
  BY <1>5 DEF FindFails, Finding, Exit
<1>6. CASE FoundAll
  BY <1>6 DEF FoundAll
<1>7. CASE ReadFails
  BY <1>7 DEF ReadFails
<1>8. CASE SkipEmptyDocument
  BY <1>8 DEF SkipEmptyDocument, AtDocument
<1>9. CASE ValidateDocument
  BY <1>9 DEF ValidateDocument, AtDocument
<1>10. CASE ReportHuman
  BY <1>10 DEF ReportHuman, NextFile, FileDone
<1>11. CASE ReportJSON
  BY <1>11 DEF ReportJSON, NextFile, FileDone
<1>12. CASE Finish
  BY <1>12 DEF Finish, Exit
<1>13. CASE Panic
  BY <1>13 DEF Panic, Exit
<1>14. CASE UNCHANGED commandVars
  BY <1>14 DEF commandVars
<1> QED
  BY <1>1, <1>2, <1>3, <1>4, <1>5, <1>6, <1>7,
     <1>8, <1>9, <1>10, <1>11, <1>12, <1>13, <1>14 DEF Next

\* A step that reports nothing finds files only before the first report.
LEMMA NothingReported ==
  ASSUME TypeOK, Progress, [Next]_commandVars, ~ReportHuman, ~ReportJSON
  PROVE  /\ UNCHANGED <<args, format, at, reports, res, hasError>>
         /\ \A i \in 1..(at - 1) : files'[i] = files[i]
<1>1. UNCHANGED <<args, format, at, reports, res, hasError>>
  BY DEF Next, commandVars, ParseFlags, NewValidator, EnterDirectory, TakeFile, FindFails,
    FoundAll, ReadFails, SkipEmptyDocument, ValidateDocument, Finish, Panic
<1>2. CASE TakeFile
  <2>1. at = 1
    BY <1>2 DEF TakeFile, Finding, Progress
  <2> QED
    BY <1>1, <2>1
<1>3. CASE ~TakeFile
  <2>1. files' = files
    BY <1>3 DEF Next, commandVars, ParseFlags, NewValidator, EnterDirectory, FindFails,
      FoundAll, ReadFails, SkipEmptyDocument, ValidateDocument, Finish, Panic
  <2> QED
    BY <1>1, <2>1
<1> QED
  BY <1>2, <1>3

\* The file that is done has occurred once more.
LEMMA OneMoreOccurrence ==
  ASSUME TypeOK, at <= Len(files), at' = at + 1, files' = files, NEW f \in File
  PROVE  /\ Occurrences(f) \in Nat
         /\ Occurrences(f)' = IF f = Path THEN Occurrences(f) + 1 ELSE Occurrences(f)
<1> DEFINE before == {i \in 1..(at - 1) : files[i] = f}
           after == {i \in 1..at : files[i] = f}
<1>1. at \in 1..Len(files) /\ Len(files) \in Nat
  BY CurrentFile DEF TypeOK
<1>2. IsFiniteSet(1..(at - 1))
  BY <1>1, FS_Interval
<1>3. IsFiniteSet(before)
  BY <1>2, FS_Subset
<1>4. Cardinality(before) \in Nat
  BY <1>3, FS_CardinalityType
<1>5. after = IF f = Path THEN before \cup {at} ELSE before
  <2>1. \A i \in 1..at : i \in 1..(at - 1) \/ i = at
    BY <1>1
  <2>2. at \in 1..at /\ \A i \in 1..(at - 1) : i \in 1..at
    BY <1>1
  <2> QED
    BY <2>1, <2>2 DEF Path
<1>6. at \notin before
  BY <1>1
<1>7. Cardinality(before \cup {at}) = Cardinality(before) + 1
  BY <1>3, <1>6, FS_AddElement
<1>8. Occurrences(f) = Cardinality(before)
  BY DEF Occurrences
<1>9. Occurrences(f)' = Cardinality(after)
  <2>1. at' - 1 = at
    BY <1>1
  <2> QED
    BY <2>1 DEF Occurrences
<1> QED
  BY <1>4, <1>5, <1>7, <1>8, <1>9

LEMMA ReportedStep ==
  ASSUME TypeOK, Progress, EveryDocumentReported, [Next]_commandVars
  PROVE  EveryDocumentReported'
<1>1. CASE ReportHuman
  <2>1. /\ format = "human" /\ UNCHANGED <<format, files, res>> /\ at' = at + 1
        /\ at <= Len(files)
        /\ reports' = Append(reports, [file |-> Path,
                                       verdict |-> IF Failing THEN "ERROR" ELSE "OK"])
    BY <1>1 DEF ReportHuman, NextFile, FileDone
  <2>2. at \in 1..Len(files) /\ Len(files) \in Nat
    BY <2>1, CurrentFile DEF TypeOK
  <2>3. /\ reports \in Seq([file : File, verdict : {"OK", "ERROR"}])
        /\ Len(reports) = at - 1
        /\ \A i \in 1..(at - 1) : reports[i].file = files[i]
    BY <2>1 DEF TypeOK, EveryDocumentReported
  <2>4. /\ Len(reports') = at
        /\ \A i \in 1..(at - 1) : reports'[i] = reports[i]
        /\ reports'[at].file = Path
    BY <2>1, <2>2, <2>3
  <2>5. \A i \in 1..at : i \in 1..(at - 1) \/ i = at
    BY <2>2
  <2>6. \A i \in 1..at : reports'[i].file = files[i]
    BY <2>3, <2>4, <2>5 DEF Path
  <2>7. at' - 1 = at
    BY <2>1, <2>2
  <2> QED
    BY <2>1, <2>4, <2>6, <2>7 DEF EveryDocumentReported
<1>2. CASE ReportJSON
  <2>1. /\ format = "json" /\ UNCHANGED <<format, files>> /\ at' = at + 1
        /\ at <= Len(files) /\ Len(errs) = Expected(Path)
        /\ res' = [res EXCEPT ![Path] = res[Path] \o Statuses]
    BY <1>2 DEF ReportJSON, NextFile, FileDone, Reported
  <2>2. Path \in File /\ Expected(Path) \in Nat
    BY <2>1, CurrentFile
  <2>3. DOMAIN res = File /\ res[Path] \in Seq(Status)
    BY <2>2 DEF TypeOK, Status
  <2>4. Statuses \in Seq(Status) /\ Len(Statuses) = Expected(Path)
    BY <2>1, StatusesTyped
  <2>5. Len(res[Path] \o Statuses) = Len(res[Path]) + Expected(Path)
    <3>1. Len(res[Path] \o Statuses) = Len(res[Path]) + Len(Statuses)
      BY <2>3, <2>4, ConcatProperties, Zenon
    <3> QED
      BY <2>4, <3>1, Zenon
  <2>6. ASSUME NEW f \in File
        PROVE  Len(res'[f]) = Expected(f) * Occurrences(f)'
    <3>1. Len(res[f]) = Expected(f) * Occurrences(f)
      BY <2>1 DEF EveryDocumentReported
    <3>2. /\ Occurrences(f) \in Nat
          /\ Occurrences(f)' = IF f = Path THEN Occurrences(f) + 1 ELSE Occurrences(f)
      BY <2>1, OneMoreOccurrence
    <3>3. CASE f = Path
      <4>1. Len(res'[f]) = Expected(f) * Occurrences(f) + Expected(f)
        BY <2>1, <2>3, <2>5, <3>1, <3>3
      <4>2. Expected(f) \in Nat
        BY <2>2, <3>3
      <4>3. \A x, y \in Nat : x * y + x = x * (y + 1)
        OBVIOUS
      <4> QED
        BY <3>2, <3>3, <4>1, <4>2, <4>3
    <3>4. CASE f # Path
      BY <2>1, <2>3, <3>1, <3>2, <3>4
    <3> QED
      BY <3>3, <3>4
  <2> QED
    BY <2>1, <2>6 DEF EveryDocumentReported, Expected
<1>3. CASE ~ReportHuman /\ ~ReportJSON
  <2>1. /\ UNCHANGED <<format, at, reports, res>>
        /\ \A i \in 1..(at - 1) : files'[i] = files[i]
    BY <1>3, NothingReported
  <2>2. \A f \in File : Occurrences(f)' = Occurrences(f)
    BY <2>1 DEF Occurrences
  <2> QED
    BY <2>1, <2>2 DEF EveryDocumentReported, Expected
<1> QED
  BY <1>1, <1>2, <1>3

\* What is remembered of errors is what is reported.
LEMMA FailureStep ==
  ASSUME TypeOK, Progress, hasError <=> Failure, [Next]_commandVars
  PROVE  (hasError <=> Failure)'
<1>1. CASE ReportHuman
  <2> DEFINE line == [file |-> Path, verdict |-> IF Failing THEN "ERROR" ELSE "OK"]
  <2>1. /\ UNCHANGED res /\ reports' = Append(reports, line)
        /\ hasError' = (hasError \/ Failing)
    BY <1>1 DEF ReportHuman, HasErrorAfter
  <2>2. reports \in Seq([file : File, verdict : {"OK", "ERROR"}]) /\ Len(reports) \in Nat
    BY DEF TypeOK
  <2>3. /\ Len(reports') = Len(reports) + 1
        /\ \A i \in 1..Len(reports) : reports'[i] = reports[i]
        /\ reports'[Len(reports) + 1] = line
    BY <2>1, <2>2
  <2>4. line.verdict = "ERROR" <=> Failing
    OBVIOUS
  <2>5. \A i : i \in 1..(Len(reports) + 1) <=> i \in 1..Len(reports) \/ i = Len(reports) + 1
    BY <2>2
  <2>6. (\E i \in 1..Len(reports') : reports'[i].verdict = "ERROR")
          <=> (\E i \in 1..Len(reports) : reports[i].verdict = "ERROR") \/ Failing
    <3>1. ASSUME NEW i \in 1..Len(reports'), reports'[i].verdict = "ERROR"
          PROVE  (\E j \in 1..Len(reports) : reports[j].verdict = "ERROR") \/ Failing
      BY <2>3, <2>4, <2>5, <3>1
    <3>2. ASSUME NEW j \in 1..Len(reports), reports[j].verdict = "ERROR"
          PROVE  \E i \in 1..Len(reports') : reports'[i].verdict = "ERROR"
      BY <2>3, <2>5, <3>2
    <3>3. ASSUME Failing
          PROVE  \E i \in 1..Len(reports') : reports'[i].verdict = "ERROR"
      BY <2>3, <2>4, <2>5, <3>3
    <3> QED
      BY <3>1, <3>2, <3>3
  <2> QED
    BY <2>1, <2>6 DEF Failure
<1>2. CASE ReportJSON
  <2>1. /\ UNCHANGED reports /\ at <= Len(files)
        /\ res' = [res EXCEPT ![Path] = res[Path] \o Statuses]
        /\ hasError' = (hasError \/ Failing)
    BY <1>2 DEF ReportJSON, FileDone, HasErrorAfter, Reported
  <2>2. Path \in File /\ DOMAIN res = File /\ res[Path] \in Seq(Status)
    BY <2>1, CurrentFile DEF TypeOK, Status
  <2>3. /\ Statuses \in Seq(Status) /\ Len(Statuses) = Len(errs) /\ Len(errs) \in Nat
        /\ Len(res[Path]) \in Nat
        /\ \A i \in 1..Len(errs) : Statuses[i] # "Success" <=> errs[i] # Nil
    BY <2>2, StatusesTyped DEF TypeOK
  <2>4. /\ Len(res'[Path]) = Len(res[Path]) + Len(errs)
        /\ \A i \in 1..(Len(res[Path]) + Len(errs)) :
             res'[Path][i] = IF i <= Len(res[Path]) THEN res[Path][i]
                             ELSE Statuses[i - Len(res[Path])]
    <3>1. res'[Path] = res[Path] \o Statuses
      BY <2>1, <2>2
    <3>2. res[Path] \in Seq(Status) /\ Statuses \in Seq(Status)
      BY <2>2, <2>3
    <3>3. /\ Len(res[Path] \o Statuses) = Len(res[Path]) + Len(Statuses)
          /\ \A i \in 1..(Len(res[Path]) + Len(Statuses)) :
               (res[Path] \o Statuses)[i] = IF i <= Len(res[Path]) THEN res[Path][i]
                                           ELSE Statuses[i - Len(res[Path])]
      BY <3>2, ConcatProperties, Zenon
    <3>4. Len(Statuses) = Len(errs)
      BY <2>3
    <3> QED
      BY <3>1, <3>3, <3>4, Zenon
  <2>5. (\E i \in 1..Len(res'[Path]) : res'[Path][i] # "Success")
          <=> (\E i \in 1..Len(res[Path]) : res[Path][i] # "Success") \/ Failing
    <3>1. ASSUME NEW i \in 1..Len(res'[Path]), res'[Path][i] # "Success"
          PROVE  (\E j \in 1..Len(res[Path]) : res[Path][j] # "Success") \/ Failing
      <4>1. CASE i <= Len(res[Path])
        BY <2>3, <2>4, <3>1, <4>1
      <4>2. CASE ~(i <= Len(res[Path]))
        <5>1. i - Len(res[Path]) \in 1..Len(errs)
          BY <2>3, <2>4, <4>2
        <5> QED
          BY <2>3, <2>4, <3>1, <4>2, <5>1 DEF Failing
      <4> QED
        BY <4>1, <4>2
    <3>2. ASSUME NEW j \in 1..Len(res[Path]), res[Path][j] # "Success"
          PROVE  \E i \in 1..Len(res'[Path]) : res'[Path][i] # "Success"
      <4>1. j \in 1..(Len(res[Path]) + Len(errs)) /\ j <= Len(res[Path])
        BY <2>3
      <4> QED
        BY <2>4, <3>2, <4>1
    <3>3. ASSUME NEW j \in 1..Len(errs), errs[j] # Nil
          PROVE  \E i \in 1..Len(res'[Path]) : res'[Path][i] # "Success"
      <4>1. /\ Len(res[Path]) + j \in 1..(Len(res[Path]) + Len(errs))
            /\ ~(Len(res[Path]) + j <= Len(res[Path]))
            /\ Len(res[Path]) + j - Len(res[Path]) = j
        BY <2>3
      <4>2. res'[Path][Len(res[Path]) + j] = Statuses[j]
        BY <2>4, <4>1
      <4> QED
        BY <2>3, <2>4, <3>3, <4>1, <4>2
    <3> QED
      BY <3>1, <3>2, <3>3 DEF Failing
  <2>6. \A f \in File \ {Path} : res'[f] = res[f]
    BY <2>1, <2>2
  <2>7. (\E f \in File : \E i \in 1..Len(res'[f]) : res'[f][i] # "Success")
          <=> (\E f \in File : \E i \in 1..Len(res[f]) : res[f][i] # "Success") \/ Failing
    BY <2>2, <2>5, <2>6
  <2> QED
    BY <2>1, <2>7 DEF Failure
<1>3. CASE ~ReportHuman /\ ~ReportJSON
  BY <1>3, NothingReported DEF Failure
<1> QED
  BY <1>1, <1>2, <1>3

\* Only Finish exits with 0 or 1.
LEMMA ExitStep ==
  ASSUME CInv, [Next]_commandVars
  PROVE  ExitMatchesReport'
<1>0. TypeOK /\ Progress /\ ExitMatchesReport /\ (hasError <=> Failure)
  BY DEF CInv
<1>1. CASE Finish
  <2>1. /\ UNCHANGED <<args, todo, files, at, reports, res, hasError>>
        /\ exit' = IF hasError THEN 1 ELSE 0
        /\ at > Len(files) /\ args # <<>> /\ todo = <<>>
    BY <1>0, <1>1 DEF Finish, Exit, Progress
  <2>2. at = Len(files) + 1
    BY <1>0, <2>1 DEF TypeOK
  <2> QED
    BY <1>0, <2>1, <2>2 DEF ExitMatchesReport, Failure
<1>2. CASE UNCHANGED commandVars
  BY <1>0, <1>2 DEF commandVars, ExitMatchesReport, Failure
<1>3. CASE Next /\ ~Finish
  <2>1. exit' \in {2, 3, exit} /\ pc # "exited"
    BY <1>3 DEF Next, ParseFlags, NewValidator, EnterDirectory, TakeFile, FindFails, FoundAll,
      ReadFails, SkipEmptyDocument, ValidateDocument, ReportHuman, ReportJSON, Panic,
      Finding, AtDocument, FileDone, NextFile, Exit
  <2>2. exit = Running
    BY <1>0, <2>1 DEF Progress
  <2> QED
    BY <2>1, <2>2, CommandLineAssumption DEF ExitMatchesReport
<1> QED
  BY <1>1, <1>2, <1>3

LEMMA CommandInvariant == Spec => []CInv
<1>1. ASSUME Init PROVE CInv
  <2>1. TypeOK
    BY <1>1, CTypeInit
  <2>2. Progress
    BY <1>1 DEF Init, Progress
  <2>3. EveryDocumentReported
    <3>1. at - 1 = 0 /\ Len(reports) = 0 /\ \A f \in File : Len(res[f]) = 0
      BY <1>1 DEF Init
    <3>2. ASSUME NEW f \in File PROVE Expected(f) * Occurrences(f) = 0
      <4>1. Documents[f] \in Contents
        BY TreeAssumption DEF File
      <4>2. Expected(f) \in Nat
        BY <4>1 DEF Expected, Contents
      <4>3. Occurrences(f) = 0
        BY <3>1, FS_EmptySet DEF Occurrences
      <4> QED
        BY <4>2, <4>3
    <3> QED
      BY <3>1, <3>2 DEF EveryDocumentReported
  <2>4. hasError <=> Failure
    BY <1>1 DEF Init, Failure
  <2>5. ExitMatchesReport
    BY <1>1, CommandLineAssumption DEF Init, ExitMatchesReport
  <2> QED
    BY <2>1, <2>2, <2>3, <2>4, <2>5 DEF CInv
<1>2. CInv /\ [Next]_commandVars => CInv'
  BY CTypeStep, ProgressStep, ReportedStep, FailureStep, ExitStep DEF CInv
<1> QED
  BY <1>1, <1>2, PTL DEF Spec

\* Variables keep their types.
THEOREM CommandTypes == Spec => []TypeOK
<1>1. CInv => TypeOK
  BY DEF CInv
<1> QED
  BY <1>1, CommandInvariant, PTL

\* Every document of every file is in the report exactly as often as the file
\* occurs among those found (Run, ValidateFile).
THEOREM NoDocumentLost == Spec => []EveryDocumentReported
<1>1. CInv => EveryDocumentReported
  BY DEF CInv
<1> QED
  BY <1>1, CommandInvariant, PTL

\* The exit code is 0 or 1 only when everything was validated, and says what the
\* report does (Run, main).
THEOREM ExitCodeIsHonest == Spec => []ExitMatchesReport
<1>1. CInv => ExitMatchesReport
  BY DEF CInv
<1> QED
  BY <1>1, CommandInvariant, PTL
-----------------------------------------------------------------------------
(***************************************************************************)
(* The sequences that the definition of the search puts together.          *)
(***************************************************************************)
Less == {p \in Nat \X Nat : p[1] < p[2]}

\* Natural numbers have a least one among them.
LEMMA LeastNumber ==
  ASSUME NEW T \in SUBSET Nat, T # {}
  PROVE  \E n \in T : \A m \in T : n <= m
<1>1. IsWellFoundedOn(Less, Nat)
  BY NatLessThanWellFounded DEF OpToRel, Less
<1>2. PICK n \in T : \A m \in T : <<m, n>> \notin Less
  BY <1>1, WFMin
<1>3. ASSUME NEW m \in T PROVE n <= m
  <2>1. m < n => <<m, n>> \in Less
    BY DEF Less
  <2> QED
    BY <1>2, <2>1
<1> QED
  BY <1>3

\* g[i] is the first i sequences of ss one after another.
Sums(ss, g) ==
  g = [i \in 1..Len(ss) |-> IF i = 1 THEN ss[i] ELSE g[i - 1] \o ss[i]]

LEMMA SumsUnique ==
  ASSUME NEW ss, Len(ss) \in Nat, NEW g, Sums(ss, g), NEW h, Sums(ss, h)
  PROVE  g = h
<1> DEFINE T == {i \in 1..Len(ss) : g[i] # h[i]}
<1>1. ASSUME T # {} PROVE FALSE
  <2>1. T \in SUBSET Nat
    OBVIOUS
  <2>2. PICK n \in T : \A m \in T : n <= m
    BY <1>1, <2>1, LeastNumber
  <2>3. /\ g[n] = IF n = 1 THEN ss[n] ELSE g[n - 1] \o ss[n]
        /\ h[n] = IF n = 1 THEN ss[n] ELSE h[n - 1] \o ss[n]
    BY DEF Sums
  <2>4. n # 1 => n - 1 \in 1..Len(ss) /\ n - 1 \notin T
    BY <2>2
  <2> QED
    BY <2>2, <2>3, <2>4
<1>2. \A i \in 1..Len(ss) : g[i] = h[i]
  BY <1>1
<1>3. /\ g = [i \in 1..Len(ss) |-> g[i]]
      /\ h = [i \in 1..Len(ss) |-> h[i]]
  BY DEF Sums
<1> QED
  BY <1>2, <1>3

LEMMA SumsExist ==
  ASSUME NEW A, NEW ss \in Seq(Seq(A))
  PROVE  \E g \in [1..Len(ss) -> Seq(A)] : Sums(ss, g)
<1> DEFINE Upto(n, g) ==
      g = [i \in 1..n |-> IF i = 1 THEN ss[i] ELSE g[i - 1] \o ss[i]]
    T == {n \in Nat : n <= Len(ss) /\ ~ \E g \in [1..n -> Seq(A)] : Upto(n, g)}
<1>0. Len(ss) \in Nat /\ \A i \in 1..Len(ss) : ss[i] \in Seq(A)
  OBVIOUS
<1>1. ASSUME T # {} PROVE FALSE
  <2>1. PICK n \in T : \A m \in T : n <= m
    BY <1>1, LeastNumber
  <2>2. n # 0
    <3>1. Upto(0, [i \in 1..0 |-> {}]) /\ [i \in 1..0 |-> {}] \in [1..0 -> Seq(A)]
      OBVIOUS
    <3> QED
      BY <3>1
  <2>3. n - 1 \in Nat /\ n - 1 <= Len(ss) /\ n - 1 \notin T
    <3>1. n \in Nat /\ n <= Len(ss)
      BY <2>1
    <3>2. n - 1 \in Nat /\ n - 1 <= Len(ss) /\ ~(n <= n - 1)
      BY <1>0, <2>2, <3>1
    <3> HIDE DEF T
    <3> QED
      BY <2>1, <3>2
  <2>4. PICK g \in [1..(n - 1) -> Seq(A)] : Upto(n - 1, g)
    BY <2>3
  <2>5. /\ n \in 1..Len(ss) /\ n \in Nat /\ ss[n] \in Seq(A)
        /\ 1..n = 1..(n - 1) \cup {n}
        /\ n # 1 => n - 1 \in 1..(n - 1)
    BY <1>0, <2>1, <2>2
  <2> DEFINE last == IF n = 1 THEN ss[n] ELSE g[n - 1] \o ss[n]
             h == [i \in 1..n |-> IF i = n THEN last ELSE g[i]]
  <2>6. last \in Seq(A)
    <3>1. n # 1 => g[n - 1] \in Seq(A)
      BY <2>4, <2>5
    <3> QED
      BY <2>5, <3>1, ConcatProperties
  <2> HIDE DEF last
  <2>7. h \in [1..n -> Seq(A)]
    BY <2>5, <2>6
  <2>8. ASSUME NEW i \in 1..n PROVE h[i] = IF i = 1 THEN ss[i] ELSE h[i - 1] \o ss[i]
    <3>1. CASE i = n
      <4>1. n # 1 => h[n - 1] = g[n - 1]
        BY <2>5
      <4> QED
        BY <3>1, <4>1 DEF last
    <3>2. CASE i # n
      <4>1. i \in 1..(n - 1) /\ h[i] = g[i]
        BY <2>5, <3>2
      <4>2. g[i] = IF i = 1 THEN ss[i] ELSE g[i - 1] \o ss[i]
        BY <2>4, <4>1
      <4>3. i # 1 => i - 1 \in 1..n /\ i - 1 # n /\ h[i - 1] = g[i - 1]
        BY <2>5, <4>1
      <4> QED
        BY <4>1, <4>2, <4>3
    <3> QED
      BY <3>1, <3>2
  <2>9. Upto(n, h)
    BY <2>7, <2>8
  <2> HIDE DEF h
  <2> QED
    BY <2>1, <2>7, <2>9
<1>2. Len(ss) \notin T
  BY <1>1
<1>3. PICK g \in [1..Len(ss) -> Seq(A)] : Upto(Len(ss), g)
  <2>1. Len(ss) <= Len(ss)
    BY <1>0
  <2> QED
    BY <1>0, <1>2, <2>1, Zenon
<1>4. Sums(ss, g)
  BY <1>3 DEF Sums
<1> QED
  BY <1>4

\* What FlattenSeq returns.
LEMMA FlattenIs ==
  ASSUME NEW ss, Len(ss) \in Nat \ {0}, NEW g, Sums(ss, g)
  PROVE  Concat!FlattenSeq(ss) = g[Len(ss)]
<1> DEFINE f == CHOOSE h : h = [i \in 1..Len(ss) |-> IF i = 1 THEN ss[i] ELSE h[i - 1] \o ss[i]]
<1>1. f = [i \in 1..Len(ss) |-> IF i = 1 THEN ss[i] ELSE f[i - 1] \o ss[i]]
  <2>1. \E h : h = [i \in 1..Len(ss) |-> IF i = 1 THEN ss[i] ELSE h[i - 1] \o ss[i]]
    BY Zenon DEF Sums
  <2> QED
    BY <2>1, Zenon
<1>2. Concat!FlattenSeq(ss) = f[Len(ss)]
  BY DEF Concat!FlattenSeq
<1> HIDE DEF f
<1>3. Sums(ss, f)
  BY <1>1 DEF Sums
<1>4. f = g
  BY <1>3, SumsUnique
<1> QED
  BY <1>2, <1>4

\* One sequence more adds its elements at the end; no sequences have none.
LEMMA FlattenAppend ==
  ASSUME NEW A, NEW ss \in Seq(Seq(A)), NEW x \in Seq(A)
  PROVE  /\ Concat!FlattenSeq(<<>>) = <<>>
         /\ Concat!FlattenSeq(ss) \in Seq(A)
         /\ Concat!FlattenSeq(Append(ss, x)) = Concat!FlattenSeq(ss) \o x
<1>1. Concat!FlattenSeq(<<>>) = <<>>
  BY DEF Concat!FlattenSeq
<1>2. Len(ss) \in Nat /\ (Len(ss) = 0 => ss = <<>>)
  BY EmptySeq
<1>3. PICK g \in [1..Len(ss) -> Seq(A)] : Sums(ss, g)
  BY SumsExist
<1>4. Concat!FlattenSeq(ss) \in Seq(A)
        /\ (Len(ss) # 0 => Concat!FlattenSeq(ss) = g[Len(ss)] /\ g[Len(ss)] \in Seq(A))
  <2>1. CASE Len(ss) = 0
    BY <1>1, <1>2, <2>1, EmptySeq
  <2>2. CASE Len(ss) # 0
    <3>1. Concat!FlattenSeq(ss) = g[Len(ss)]
      BY <1>2, <1>3, <2>2, FlattenIs
    <3>2. Len(ss) \in 1..Len(ss)
      BY <1>2, <2>2
    <3>3. g[Len(ss)] \in Seq(A)
      BY <3>2
    <3> QED
      BY <2>2, <3>1, <3>3
  <2> QED
    BY <2>1, <2>2
<1>5. /\ Append(ss, x) \in Seq(Seq(A)) /\ Len(Append(ss, x)) = Len(ss) + 1
      /\ \A i \in 1..Len(ss) : Append(ss, x)[i] = ss[i]
      /\ Append(ss, x)[Len(ss) + 1] = x
  BY AppendProperties
<1>6. PICK h \in [1..Len(Append(ss, x)) -> Seq(A)] : Sums(Append(ss, x), h)
  BY <1>5, SumsExist
<1>7. Concat!FlattenSeq(Append(ss, x)) = h[Len(ss) + 1]
  <2>1. Len(Append(ss, x)) \in Nat \ {0}
    BY <1>2, <1>5
  <2> QED
    BY <1>5, <1>6, <2>1, FlattenIs
<1>8. \A i \in 1..(Len(ss) + 1) :
        h[i] = IF i = 1 THEN Append(ss, x)[i] ELSE h[i - 1] \o Append(ss, x)[i]
  BY <1>5, <1>6, Zenon DEF Sums
<1>9. CASE Len(ss) = 0
  <2>1. h[1] = x
    BY <1>5, <1>8, <1>9
  <2>2. <<>> \o x = x
    BY ConcatEmptySeq
  <2> QED
    BY <1>1, <1>2, <1>4, <1>7, <1>9, <2>1, <2>2
<1>10. CASE Len(ss) # 0
  <2> DEFINE k == [i \in 1..Len(ss) |-> h[i]]
  <2>1. \A i \in 1..Len(ss) : k[i] = IF i = 1 THEN ss[i] ELSE k[i - 1] \o ss[i]
    <3> SUFFICES ASSUME NEW i \in 1..Len(ss)
                 PROVE  k[i] = IF i = 1 THEN ss[i] ELSE k[i - 1] \o ss[i]
      OBVIOUS
    <3>1. h[i] = IF i = 1 THEN ss[i] ELSE h[i - 1] \o ss[i]
      <4>1. i \in 1..(Len(ss) + 1) /\ Append(ss, x)[i] = ss[i]
        BY <1>2, <1>5
      <4>2. h[i] = IF i = 1 THEN Append(ss, x)[i] ELSE h[i - 1] \o Append(ss, x)[i]
        BY <1>8, <4>1, Zenon
      <4> QED
        BY <4>1, <4>2
    <3>2. i # 1 => i - 1 \in 1..Len(ss)
      BY <1>2
    <3> QED
      BY <3>1, <3>2
  <2>2. Sums(ss, k)
    BY <2>1 DEF Sums
  <2>3. k = g
    BY <1>2, <1>3, <2>2, SumsUnique
  <2>4. Len(ss) \in 1..Len(ss)
    BY <1>2, <1>10
  <2>5. h[Len(ss)] = g[Len(ss)]
    BY <2>3, <2>4
  <2>6. h[Len(ss) + 1] = h[Len(ss)] \o x
    <3>1. Len(ss) + 1 \in 1..(Len(ss) + 1) /\ Len(ss) + 1 # 1 /\ (Len(ss) + 1) - 1 = Len(ss)
      BY <1>2, <1>10
    <3> QED
      BY <1>5, <1>8, <3>1
  <2> QED
    BY <1>1, <1>4, <1>7, <1>10, <2>5, <2>6
<1> QED
  BY <1>9, <1>10

\* Concatenation is associative.
LEMMA Associates ==
  ASSUME NEW B
  PROVE  \A s \in Seq(B), t \in Seq(B), u \in Seq(B) : (s \o t) \o u = s \o (t \o u)
OBVIOUS

\* Flattening goes part by part.
LEMMA FlattenConcat ==
  ASSUME NEW A, NEW ss \in Seq(Seq(A)), NEW tt \in Seq(Seq(A))
  PROVE  Concat!FlattenSeq(ss \o tt) = Concat!FlattenSeq(ss) \o Concat!FlattenSeq(tt)
<1>0. \A r \in Seq(A), s \in Seq(A), w \in Seq(A) : (r \o s) \o w = r \o (s \o w)
  BY Associates
<1> DEFINE Whole(t) == Concat!FlattenSeq(ss \o t) = Concat!FlattenSeq(ss) \o Concat!FlattenSeq(t)
           T == {n \in Nat : \E t \in Seq(Seq(A)) : Len(t) = n /\ ~Whole(t)}
<1>1. ASSUME T # {} PROVE FALSE
  <2>1. PICK n \in T : \A m \in T : n <= m
    BY <1>1, LeastNumber
  <2>2. PICK t \in Seq(Seq(A)) : Len(t) = n /\ ~Whole(t)
    OBVIOUS
  <2>3. t # <<>>
    <3>1. ss \o <<>> = ss
      BY ConcatEmptySeq
    <3>2. Concat!FlattenSeq(<<>>) = <<>> /\ Concat!FlattenSeq(ss) \in Seq(A)
      BY FlattenAppend, EmptySeq
    <3>3. Concat!FlattenSeq(ss) \o <<>> = Concat!FlattenSeq(ss)
      BY <3>2, ConcatEmptySeq
    <3>4. Whole(<<>>)
      BY <3>1, <3>2, <3>3
    <3> QED
      BY <2>2, <3>4
  <2>4. PICK u \in Seq(Seq(A)), x \in Seq(A) : t = Append(u, x)
    BY <2>3, SequenceEmptyOrAppend
  <2>5. Len(t) = Len(u) + 1 /\ Len(u) \in Nat
    BY <2>4, AppendProperties
  <2>6. Whole(u)
    <3>1. Len(u) \notin T
      <4> HIDE DEF T
      <4> QED
        BY <2>1, <2>2, <2>5
    <3> QED
      BY <2>5, <3>1
  <2>7. ss \o t = Append(ss \o u, x) /\ ss \o u \in Seq(Seq(A))
    <3>1. <<x>> \in Seq(Seq(A)) /\ ss \o u \in Seq(Seq(A))
      BY ConcatProperties
    <3>2. t = u \o <<x>> /\ Append(ss \o u, x) = (ss \o u) \o <<x>>
      BY <2>4, <3>1, AppendIsConcat
    <3>3. (ss \o u) \o <<x>> = ss \o (u \o <<x>>)
      <4> DEFINE w == <<x>>
      <4>1. w \in Seq(Seq(A))
        BY <3>1
      <4> HIDE DEF w
      <4>2. (ss \o u) \o w = ss \o (u \o w)
        BY <4>1
      <4> QED
        BY <4>2 DEF w
    <3> QED
      BY <3>1, <3>2, <3>3
  <2>8. /\ Concat!FlattenSeq(ss \o t) = Concat!FlattenSeq(ss \o u) \o x
        /\ Concat!FlattenSeq(t) = Concat!FlattenSeq(u) \o x
        /\ Concat!FlattenSeq(ss) \in Seq(A) /\ Concat!FlattenSeq(u) \in Seq(A)
    BY <2>4, <2>7, FlattenAppend
  <2>9. (Concat!FlattenSeq(ss) \o Concat!FlattenSeq(u)) \o x
          = Concat!FlattenSeq(ss) \o (Concat!FlattenSeq(u) \o x)
    <3>1. x \in Seq(A)
      BY <2>4
    <3> QED
      BY <1>0, <2>8, <3>1, Zenon
  <2> QED
    BY <2>2, <2>6, <2>8, <2>9
<1>2. Len(tt) \in Nat
  OBVIOUS
<1>3. Len(tt) \notin T
  BY <1>1
<1> QED
  BY <1>2, <1>3

\* One sequence is put in front of the others.
LEMMA FlattenCons ==
  ASSUME NEW A, NEW x \in Seq(A), NEW tt \in Seq(Seq(A))
  PROVE  Concat!FlattenSeq(<<x>> \o tt) = x \o Concat!FlattenSeq(tt)
<1>1. <<x>> = Append(<<>>, x) /\ <<x>> \in Seq(Seq(A)) /\ <<>> \in Seq(Seq(A))
  OBVIOUS
<1>2. Concat!FlattenSeq(<<x>>) = <<>> \o x
  BY <1>1, FlattenAppend
<1>3. <<>> \o x = x
  BY ConcatEmptySeq
<1> QED
  BY <1>1, <1>2, <1>3, FlattenConcat

-----------------------------------------------------------------------------
(***************************************************************************)
(* The recursion over the tree is well-founded, so Below is what its       *)
(* definition says.                                                        *)
(***************************************************************************)
EntriesOf(n) == {Children[n][i] : i \in 1..Len(Children[n])}

Beneath(n, g) ==
  CASE KindOf[n] = "dir" ->
         Concat!FlattenSeq([i \in 1..Len(Children[n]) |-> g[Children[n][i]]])
    [] KindOf[n] = "file" -> <<>>
    [] OTHER -> <<n>>

\* What is in a directory depends on its entries only.
LEMMA BeneathLocal ==
  ASSUME NEW n, NEW g, NEW h, KindOf[n] = "dir" => \A m \in EntriesOf(n) : g[m] = h[m]
  PROVE  Beneath(n, g) = Beneath(n, h)
<1>1. CASE KindOf[n] = "dir"
  <2>1. \A i \in 1..Len(Children[n]) : g[Children[n][i]] = h[Children[n][i]]
    BY <1>1 DEF EntriesOf
  <2>2. [i \in 1..Len(Children[n]) |-> g[Children[n][i]]]
          = [i \in 1..Len(Children[n]) |-> h[Children[n][i]]]
    BY <2>1, Zenon
  <2> QED
    BY <1>1, <2>2 DEF Beneath
<1>2. CASE KindOf[n] # "dir"
  BY <1>2 DEF Beneath
<1> QED
  BY <1>1, <1>2

LEMMA BeneathTyped ==
  ASSUME NEW n \in Node, NEW g,
         KindOf[n] = "dir" => \A m \in EntriesOf(n) : g[m] \in Seq(Node)
  PROVE  Beneath(n, g) \in Seq(Node)
<1>1. CASE KindOf[n] = "dir"
  <2> DEFINE ss == [i \in 1..Len(Children[n]) |-> g[Children[n][i]]]
  <2>1. Len(Children[n]) \in Nat
    BY TreeAssumption
  <2>2. \A i \in 1..Len(Children[n]) : g[Children[n][i]] \in Seq(Node)
    BY <1>1 DEF EntriesOf
  <2>3. ss \in [1..Len(Children[n]) -> Seq(Node)]
    BY <2>2
  <2>4. ss \in Seq(Seq(Node))
    BY <2>1, <2>3, FunctionIsSeq
  <2>5. Beneath(n, g) = Concat!FlattenSeq(ss)
    BY <1>1 DEF Beneath
  <2> HIDE DEF ss
  <2>6. <<>> \in Seq(Node)
    BY EmptySeq
  <2> QED
    BY <2>4, <2>5, <2>6, FlattenAppend
<1>2. CASE KindOf[n] # "dir"
  BY <1>2, EmptySeq DEF Beneath
<1> QED
  BY <1>1, <1>2

\* g is right for the nodes of S, which has all that is in them.
Partial(S, g) ==
  /\ S \in SUBSET Node
  /\ \A n \in S : KindOf[n] = "dir" => EntriesOf(n) \subseteq S
  /\ g = [n \in S |-> Beneath(n, g)]

LEMMA PartialAgree ==
  ASSUME NEW S, NEW g, Partial(S, g), NEW T, NEW h, Partial(T, h), NEW n \in S \cap T
  PROVE  g[n] = h[n]
<1> DEFINE within == {m \in S \cap T : g[m] # h[m]}
<1>1. within \in SUBSET Node
  BY DEF Partial
<1>2. ASSUME NEW m \in within
      PROVE  KindOf[m] = "dir" /\ \E i \in 1..Len(Children[m]) : Children[m][i] \in within
  <2>1. g[m] = Beneath(m, g) /\ h[m] = Beneath(m, h)
    BY DEF Partial
  <2>2. KindOf[m] = "dir" /\ \E e \in EntriesOf(m) : g[e] # h[e]
    BY <2>1, BeneathLocal
  <2>3. EntriesOf(m) \subseteq S \cap T
    BY <2>2 DEF Partial
  <2> QED
    BY <2>2, <2>3 DEF EntriesOf
<1>3. within = {}
  BY <1>1, <1>2, NestingAssumption
<1> QED
  BY <1>3

LEMMA PartialTyped ==
  ASSUME NEW S, NEW g, Partial(S, g), NEW n \in S
  PROVE  g[n] \in Seq(Node)
<1> DEFINE within == {m \in S : g[m] \notin Seq(Node)}
<1>1. within \in SUBSET Node
  BY DEF Partial
<1>2. ASSUME NEW m \in within
      PROVE  KindOf[m] = "dir" /\ \E i \in 1..Len(Children[m]) : Children[m][i] \in within
  <2>1. g[m] = Beneath(m, g) /\ m \in Node
    BY DEF Partial
  <2>2. KindOf[m] = "dir" /\ \E e \in EntriesOf(m) : g[e] \notin Seq(Node)
    BY <2>1, BeneathTyped
  <2>3. EntriesOf(m) \subseteq S
    BY <2>2 DEF Partial
  <2> QED
    BY <2>2, <2>3 DEF EntriesOf
<1>3. within = {}
  BY <1>1, <1>2, NestingAssumption
<1> QED
  BY <1>3

LEMMA SomethingTotal == \E g : Partial(Node, g)
<1> DEFINE D == {n \in Node : \E S, g : Partial(S, g) /\ n \in S}
           Value(n) == CHOOSE v : \E S, g : Partial(S, g) /\ n \in S /\ v = g[n]
           F == [n \in D |-> Value(n)]
<1>1. ASSUME NEW S, NEW g, Partial(S, g) PROVE S \subseteq D /\ \A n \in S : F[n] = g[n]
  <2>1. S \subseteq D
    BY <1>1 DEF Partial
  <2>2. ASSUME NEW n \in S PROVE Value(n) = g[n]
    <3>1. \E v : \E T, h : Partial(T, h) /\ n \in T /\ v = h[n]
      BY <1>1
    <3>2. \E T, h : Partial(T, h) /\ n \in T /\ Value(n) = h[n]
      BY <3>1, Zenon
    <3> HIDE DEF Value
    <3>3. PICK T, h : Partial(T, h) /\ n \in T /\ Value(n) = h[n]
      BY <3>2
    <3>4. n \in S \cap T
      BY <3>3
    <3> QED
      BY <1>1, <3>3, <3>4, PartialAgree
  <2> HIDE DEF Value
  <2> QED
    BY <2>1, <2>2
<1> HIDE DEF Value
<1>2. ASSUME NEW n \in D
      PROVE  F[n] = Beneath(n, F) /\ (KindOf[n] = "dir" => EntriesOf(n) \subseteq D)
  <2>1. PICK S, g : Partial(S, g) /\ n \in S
    OBVIOUS
  <2>2. S \subseteq D /\ \A m \in S : F[m] = g[m]
    BY <1>1, <2>1
  <2> HIDE DEF F, D
  <2>3. g[n] = Beneath(n, g) /\ (KindOf[n] = "dir" => EntriesOf(n) \subseteq S)
    BY <2>1 DEF Partial
  <2>4. Beneath(n, g) = Beneath(n, F)
    <3>1. KindOf[n] = "dir" => \A m \in EntriesOf(n) : g[m] = F[m]
      BY <2>2, <2>3
    <3> QED
      BY <3>1, BeneathLocal
  <2> QED
    BY <2>1, <2>2, <2>3, <2>4
<1>3. ASSUME NEW n \in Node \ D
      PROVE  KindOf[n] = "dir" /\ \E i \in 1..Len(Children[n]) : Children[n][i] \in Node \ D
  <2> SUFFICES ASSUME KindOf[n] = "dir" => EntriesOf(n) \subseteq D
               PROVE  FALSE
    <3>1. \A i \in 1..Len(Children[n]) : Children[n][i] \in Node
      BY TreeAssumption
    <3> HIDE DEF D
    <3> QED
      BY <3>1 DEF EntriesOf
  <2> DEFINE G == [m \in D \cup {n} |-> IF m = n THEN Beneath(n, F) ELSE F[m]]
  <2>1. D \subseteq Node
    OBVIOUS
  <2>2. ASSUME NEW m \in D \cup {n}
        PROVE  /\ KindOf[m] = "dir" => EntriesOf(m) \subseteq D
               /\ G[m] = Beneath(m, F)
    BY <1>2
  <2>3. \A m \in D : G[m] = F[m]
    OBVIOUS
  <2> HIDE DEF D
  <2>4. DOMAIN G = D \cup {n}
    OBVIOUS
  <2> HIDE DEF G, F
  <2>5. ASSUME NEW m \in D \cup {n} PROVE G[m] = Beneath(m, G)
    <3>1. Beneath(m, F) = Beneath(m, G)
      <4>1. KindOf[m] = "dir" => \A e \in EntriesOf(m) : F[e] = G[e]
        BY <2>2, <2>3
      <4> QED
        BY <4>1, BeneathLocal
    <3> QED
      BY <2>2, <3>1
  <2>6. G = [m \in D \cup {n} |-> Beneath(m, G)]
    <3>1. G = [m \in D \cup {n} |-> G[m]]
      BY <2>4 DEF G
    <3> QED
      BY <2>5, <3>1
  <2>7. Partial(D \cup {n}, G)
    BY <2>1, <2>2, <2>6 DEF Partial
  <2> QED
    BY <2>7 DEF D
<1>4. D = Node
  <2>1. Node \ D \in SUBSET Node
    OBVIOUS
  <2> HIDE DEF D
  <2>2. Node \ D = {}
    BY <1>3, <2>1, NestingAssumption
  <2> QED
    BY <2>2 DEF D
<1>5. F = [n \in Node |-> Beneath(n, F)]
  <2>1. F = [n \in Node |-> F[n]]
    BY <1>4
  <2> HIDE DEF F, D
  <2> QED
    BY <1>2, <1>4, <2>1
<1> HIDE DEF F, D
<1>6. Partial(Node, F)
  BY <1>2, <1>4, <1>5 DEF Partial
<1> QED
  BY <1>6

LEMMA BelowIs ==
  /\ Below = [n \in Node |-> Beneath(n, Below)]
  /\ Below \in [Node -> Seq(Node)]
<1>1. PICK g : Partial(Node, g)
  BY SomethingTotal
<1>2. \E h : h = [n \in Node |-> Beneath(n, h)]
  BY <1>1 DEF Partial
<1>3. Below = [n \in Node |-> Beneath(n, Below)]
  BY <1>2, Zenon DEF Below, Beneath
<1>4. Partial(Node, Below)
  <2>1. \A n \in Node : EntriesOf(n) \subseteq Node
    BY TreeAssumption DEF EntriesOf
  <2> QED
    BY <1>3, <2>1 DEF Partial
<1>5. \A n \in Node : Below[n] \in Seq(Node)
  BY <1>4, PartialTyped
<1> QED
  BY <1>3, <1>5
-----------------------------------------------------------------------------
(***************************************************************************)
(* The stack holds, in order, what is left to find.                        *)
(***************************************************************************)
Due(v) == IF v.named THEN Sought(v.node) ELSE Below[v.node]

Left(t) == [i \in 1..Len(t) |-> Due(t[i])]

AllSought == Concat!FlattenSeq([i \in 1..Len(args) |-> Sought(args[i])])

Searching ==
  /\ pc \in {"flags", "new"} => files = <<>>
  /\ pc \in {"flags", "new", "find"} => ~hasError
  /\ pc = "find" => files \o Concat!FlattenSeq(Left(todo)) = AllSought

FInv == CInv /\ Searching /\ FilesFound

LEMMA SoughtTyped ==
  ASSUME NEW n \in Node
  PROVE  Sought(n) \in Seq(Node) /\ Below[n] \in Seq(Node)
<1>1. <<n>> \in Seq(Node) /\ Below[n] \in Seq(Node)
  BY BelowIs
<1> QED
  BY <1>1 DEF Sought

LEMMA LeftTyped ==
  ASSUME NEW t \in Seq(Visits)
  PROVE  Left(t) \in Seq(Seq(Node)) /\ Len(Left(t)) = Len(t)
<1>1. Len(t) \in Nat
  OBVIOUS
<1>2. ASSUME NEW i \in 1..Len(t) PROVE Due(t[i]) \in Seq(Node)
  <2>1. t[i] \in Visits
    OBVIOUS
  <2>2. t[i].node \in Node
    BY <2>1 DEF Visits
  <2> QED
    BY <2>2, SoughtTyped DEF Due
<1>3. Left(t) \in [1..Len(t) -> Seq(Node)]
  BY <1>2 DEF Left
<1> QED
  BY <1>1, <1>3, FunctionIsSeq

\* What is left of two stacks, one on the other, is what is left of each.
LEMMA LeftConcat ==
  ASSUME NEW s \in Seq(Visits), NEW t \in Seq(Visits)
  PROVE  Left(s \o t) = Left(s) \o Left(t)
<1>1. /\ s \o t \in Seq(Visits) /\ Len(s \o t) = Len(s) + Len(t)
      /\ Len(s) \in Nat /\ Len(t) \in Nat
      /\ \A i \in 1..(Len(s) + Len(t)) :
           (s \o t)[i] = IF i <= Len(s) THEN s[i] ELSE t[i - Len(s)]
  BY ConcatProperties
<1>2. /\ Left(s) \in Seq(Seq(Node)) /\ Len(Left(s)) = Len(s)
      /\ Left(t) \in Seq(Seq(Node)) /\ Len(Left(t)) = Len(t)
      /\ Left(s \o t) \in Seq(Seq(Node)) /\ Len(Left(s \o t)) = Len(s) + Len(t)
  BY <1>1, LeftTyped
<1>3. /\ Left(s) \o Left(t) \in Seq(Seq(Node))
      /\ Len(Left(s) \o Left(t)) = Len(s) + Len(t)
      /\ \A i \in 1..(Len(s) + Len(t)) :
           (Left(s) \o Left(t))[i] = IF i <= Len(s) THEN Left(s)[i] ELSE Left(t)[i - Len(s)]
  <2> DEFINE ls == Left(s)
             lt == Left(t)
  <2> HIDE DEF ls, lt
  <2>1. ls \in Seq(Seq(Node)) /\ Len(ls) = Len(s) /\ lt \in Seq(Seq(Node)) /\ Len(lt) = Len(t)
    BY <1>2 DEF ls, lt
  <2>2. /\ ls \o lt \in Seq(Seq(Node))
        /\ Len(ls \o lt) = Len(ls) + Len(lt)
        /\ \A i \in 1..(Len(ls) + Len(lt)) :
             (ls \o lt)[i] = IF i <= Len(ls) THEN ls[i] ELSE lt[i - Len(ls)]
    BY <2>1, ConcatProperties, Zenon
  <2> QED
    BY <2>1, <2>2 DEF ls, lt
<1>4. ASSUME NEW i \in 1..(Len(s) + Len(t))
      PROVE  Left(s \o t)[i] = (Left(s) \o Left(t))[i]
  <2>1. Left(s \o t)[i] = Due((s \o t)[i])
    BY <1>1 DEF Left
  <2>2. CASE i <= Len(s)
    <3>1. i \in 1..Len(s)
      BY <1>1, <2>2
    <3>2. Left(s)[i] = Due(s[i])
      BY <3>1 DEF Left
    <3> QED
      BY <1>1, <1>3, <2>1, <2>2, <3>2
  <2>3. CASE ~(i <= Len(s))
    <3>1. i - Len(s) \in 1..Len(t)
      BY <1>1, <2>3
    <3>2. Left(t)[i - Len(s)] = Due(t[i - Len(s)])
      BY <3>1 DEF Left
    <3> QED
      BY <1>1, <1>3, <2>1, <2>3, <3>2
  <2> QED
    BY <2>2, <2>3
<1> QED
  BY <1>2, <1>3, <1>4, SeqEqual

\* The top of the stack is what is found next.
LEMMA LeftOnTop ==
  ASSUME NEW t \in Seq(Visits), t # <<>>
  PROVE  /\ Head(t) \in Visits /\ Tail(t) \in Seq(Visits)
         /\ Due(Head(t)) \in Seq(Node)
         /\ Left(Tail(t)) \in Seq(Seq(Node))
         /\ Concat!FlattenSeq(Left(Tail(t))) \in Seq(Node)
         /\ Concat!FlattenSeq(Left(t))
              = Due(Head(t)) \o Concat!FlattenSeq(Left(Tail(t)))
<1>1. Head(t) \in Visits /\ Tail(t) \in Seq(Visits)
  BY HeadTailProperties
<1>2. t = <<Head(t)>> \o Tail(t) /\ <<Head(t)>> \in Seq(Visits)
  BY <1>1
<1>3. Left(t) = Left(<<Head(t)>>) \o Left(Tail(t))
  BY <1>1, <1>2, LeftConcat
<1>4. Left(<<Head(t)>>) = <<Due(Head(t))>>
  BY DEF Left
<1>5. Due(Head(t)) \in Seq(Node)
  BY <1>1, SoughtTyped DEF Due, Visits
<1>6. Left(Tail(t)) \in Seq(Seq(Node))
  BY <1>1, LeftTyped
<1>7. Concat!FlattenSeq(Left(Tail(t))) \in Seq(Node)
  <2>1. <<>> \in Seq(Node)
    BY EmptySeq
  <2> QED
    BY <1>6, <2>1, FlattenAppend
<1>8. Concat!FlattenSeq(Left(t)) = Due(Head(t)) \o Concat!FlattenSeq(Left(Tail(t)))
  BY <1>3, <1>4, <1>5, <1>6, FlattenCons
<1> QED
  BY <1>1, <1>5, <1>6, <1>7, <1>8

LEMMA AllTyped ==
  ASSUME TypeOK
  PROVE  /\ [i \in 1..Len(args) |-> Sought(args[i])] \in Seq(Seq(Node))
         /\ AllSought \in Seq(Node)
<1>1. args \in Seq(Node) /\ Len(args) \in Nat
  BY CommandLineAssumption DEF TypeOK
<1>2. \A i \in 1..Len(args) : Sought(args[i]) \in Seq(Node)
  BY <1>1, SoughtTyped
<1>3. [i \in 1..Len(args) |-> Sought(args[i])] \in [1..Len(args) -> Seq(Node)]
  BY <1>2
<1>4. [i \in 1..Len(args) |-> Sought(args[i])] \in Seq(Seq(Node))
  BY <1>1, <1>3, FunctionIsSeq
<1>5. <<>> \in Seq(Node)
  BY EmptySeq
<1> QED
  BY <1>4, <1>5, FlattenAppend DEF AllSought

\* No step of the search changes what is found and what is left, taken together.
LEMMA SearchingStep ==
  ASSUME TypeOK, Progress, Searching, [Next]_commandVars
  PROVE  Searching'
<1>0. todo \in Seq(Visits) /\ files \in Seq(Node) /\ AllSought \in Seq(Node)
  <2>1. files \in Seq(File) /\ \A s \in Seq(File) : s \in Seq(Node)
    BY DEF TypeOK, File
  <2> QED
    BY <2>1, AllTyped DEF TypeOK, Visits
<1>1. CASE NewValidator
  <2>1. CASE pc' = "find"
    <3> DEFINE visits == [i \in 1..Len(args) |-> Visit(args[i], TRUE)]
    <3>1. todo' = visits /\ UNCHANGED <<args, files, hasError>> /\ pc = "new"
      BY <1>1, <2>1 DEF NewValidator, Exit
    <3>2. args \in Seq(Node) /\ Len(args) \in Nat
      BY CommandLineAssumption DEF TypeOK
    <3>3. Len(visits) = Len(args)
      BY <3>2
    <3>4. \A i \in 1..Len(args) : Due(visits[i]) = Sought(args[i])
      BY DEF Due, Visit
    <3> HIDE DEF visits
    <3>5. Left(visits) = [i \in 1..Len(args) |-> Sought(args[i])]
      BY <3>3, <3>4 DEF Left
    <3>6. Concat!FlattenSeq(Left(todo)') = AllSought
      BY <3>1, <3>5 DEF AllSought, Left
    <3>7. <<>> \o AllSought = AllSought
      BY <1>0, ConcatEmptySeq
    <3> QED
      BY <2>1, <3>1, <3>6, <3>7 DEF Searching, AllSought
  <2>2. CASE pc' # "find"
    BY <1>1, <2>2 DEF NewValidator, Exit, Searching
  <2> QED
    BY <2>1, <2>2
<1>2. CASE EnterDirectory
  <2> DEFINE n == Head(todo).node
             entries == Children[n]
             visits == [i \in 1..Len(entries) |-> Visit(entries[i], FALSE)]
  <2>1. /\ pc = "find" /\ todo # <<>> /\ KindOf[n] = "dir"
        /\ todo' = visits \o Tail(todo)
        /\ UNCHANGED <<args, pc, files, hasError>>
    BY <1>2 DEF EnterDirectory, Finding
  <2>2. /\ Head(todo) \in Visits /\ Tail(todo) \in Seq(Visits)
        /\ Left(Tail(todo)) \in Seq(Seq(Node))
        /\ Concat!FlattenSeq(Left(todo))
             = Due(Head(todo)) \o Concat!FlattenSeq(Left(Tail(todo)))
    BY <1>0, <2>1, LeftOnTop
  <2>3. n \in Node /\ entries \in Seq(Node) /\ Len(entries) \in Nat
    BY <2>2, TreeAssumption DEF Visits
  <2>4. visits \in Seq(Visits) /\ Len(visits) = Len(entries)
    <3>1. \A i \in 1..Len(entries) : Visit(entries[i], FALSE) \in Visits
      BY <2>3 DEF Visit, Visits
    <3>2. visits \in [1..Len(entries) -> Visits]
      BY <3>1
    <3>3. visits \in Seq(Visits)
      BY <2>3, <3>2, FunctionIsSeq
    <3>4. Len(visits) = Len(entries)
      BY <2>3
    <3> HIDE DEF visits
    <3> QED
      BY <3>3, <3>4
  <2>5. Due(Head(todo)) = Concat!FlattenSeq(Left(visits))
    <3>1. Due(Head(todo)) = Below[n]
      BY <2>1 DEF Due, Sought
    <3>2. Below[n] = Concat!FlattenSeq([i \in 1..Len(entries) |-> Below[entries[i]]])
      <4>1. Below[n] = Beneath(n, Below)
        BY <2>3, BelowIs
      <4> QED
        BY <2>1, <4>1 DEF Beneath
    <3>3. \A i \in 1..Len(entries) : Due(visits[i]) = Below[entries[i]]
      BY DEF Due, Visit
    <3> HIDE DEF visits
    <3>4. Left(visits) = [i \in 1..Len(entries) |-> Below[entries[i]]]
      BY <2>4, <3>3 DEF Left
    <3> QED
      BY <3>1, <3>2, <3>4
  <2> HIDE DEF visits
  <2>6. Left(visits \o Tail(todo)) = Left(visits) \o Left(Tail(todo))
    BY <2>2, <2>4, LeftConcat
  <2>7. Left(visits) \in Seq(Seq(Node))
    BY <2>4, LeftTyped
  <2>8. Concat!FlattenSeq(Left(visits \o Tail(todo))) = Concat!FlattenSeq(Left(todo))
    BY <2>2, <2>5, <2>6, <2>7, FlattenConcat
  <2>9. Concat!FlattenSeq(Left(todo)') = Concat!FlattenSeq(Left(todo))
    BY <2>1, <2>8 DEF Left
  <2> QED
    BY <2>1, <2>9 DEF Searching, AllSought
<1>3. CASE TakeFile
  <2> DEFINE v == Head(todo)
             rest == Concat!FlattenSeq(Left(Tail(todo)))
  <2>1. /\ pc = "find" /\ todo # <<>> /\ KindOf[v.node] \in {"manifest", "file"}
        /\ todo' = Tail(todo)
        /\ files' = IF Wanted(v) THEN Append(files, v.node) ELSE files
        /\ UNCHANGED <<args, pc, hasError>>
    BY <1>3 DEF TakeFile, Finding
  <2>2. /\ v \in Visits /\ Due(v) \in Seq(Node) /\ rest \in Seq(Node)
        /\ Concat!FlattenSeq(Left(todo)) = Due(v) \o rest
    BY <1>0, <2>1, LeftOnTop
  <2>3. files' = files \o Due(v)
    <3>1. v.node \in Node /\ v.named \in BOOLEAN
      BY <2>2 DEF Visits
    <3>2. Below[v.node] = IF KindOf[v.node] = "file" THEN <<>> ELSE <<v.node>>
      <4>1. Below[v.node] = Beneath(v.node, Below)
        BY <3>1, BelowIs
      <4> QED
        BY <2>1, <4>1 DEF Beneath
    <3>3. Due(v) = IF Wanted(v) THEN <<v.node>> ELSE <<>>
      BY <2>1, <3>1, <3>2 DEF Due, Sought, Wanted
    <3>4. Append(files, v.node) = files \o <<v.node>> /\ files \o <<>> = files
      BY <1>0, <3>1, AppendIsConcat, ConcatEmptySeq
    <3> QED
      BY <2>1, <3>3, <3>4
  <2> HIDE DEF v, rest
  <2>4. (files \o Due(v)) \o rest = files \o (Due(v) \o rest)
    <3>1. \A r \in Seq(Node), s \in Seq(Node), w \in Seq(Node) : (r \o s) \o w = r \o (s \o w)
      BY Associates
    <3> QED
      BY <1>0, <2>2, <3>1, Zenon
  <2>5. files \o Concat!FlattenSeq(Left(todo)) = AllSought /\ ~hasError
    BY <2>1 DEF Searching
  <2>6. files' \o rest = AllSought
    BY <2>2, <2>3, <2>4, <2>5
  <2>7. Concat!FlattenSeq(Left(todo)') = rest
    BY <2>1 DEF Left, rest
  <2> QED
    BY <2>1, <2>5, <2>6, <2>7 DEF Searching, AllSought
<1>4. CASE ~NewValidator /\ ~EnterDirectory /\ ~TakeFile
  <2>1. CASE pc' \in {"flags", "new", "find"}
    <3>1. UNCHANGED <<args, todo, files, hasError>>
          /\ (pc = pc' \/ (pc = "flags" /\ pc' = "new"))
      BY <1>4, <2>1 DEF Next, commandVars, ParseFlags, FindFails, FoundAll,
        ReadFails, SkipEmptyDocument, ValidateDocument, ReportHuman, ReportJSON, Finish, Panic,
        AtDocument, FileDone, NextFile, Exit
    <3> QED
      BY <2>1, <3>1 DEF Searching, Left, AllSought
  <2>2. CASE pc' \notin {"flags", "new", "find"}
    BY <2>2 DEF Searching
  <2> QED
    BY <2>1, <2>2
<1> QED
  BY <1>1, <1>2, <1>3, <1>4

\* When the search has ended without an error, nothing is left.
LEMMA FoundStep ==
  ASSUME FInv, [Next]_commandVars
  PROVE  FilesFound'
<1>0. TypeOK /\ Progress /\ (hasError <=> Failure) /\ Searching /\ FilesFound /\ CInv
  BY DEF FInv, CInv
<1>1. TypeOK' /\ AllSought' = AllSought
  <2>1. args' = args
    BY DEF Next, commandVars, ParseFlags, NewValidator, EnterDirectory, TakeFile, FindFails,
      FoundAll, ReadFails, SkipEmptyDocument, ValidateDocument, ReportHuman, ReportJSON,
      Finish, Panic, NextFile
  <2> QED
    BY <1>0, <2>1, CTypeStep DEF AllSought
<1>2. SUFFICES ASSUME (pc = "validate" \/ exit \in {0, 1} \/ Failure)'
               PROVE  files' = AllSought
  BY <1>1 DEF FilesFound, AllSought, TypeOK
<1>3. CASE FoundAll
  <2>1. pc = "find" /\ todo = <<>> /\ files' = files
    BY <1>3 DEF FoundAll
  <2>2. Left(<<>>) = <<>>
    BY DEF Left
  <2>3. Concat!FlattenSeq(Left(todo)) = <<>>
    <3>1. <<>> \in Seq(Seq(Node)) /\ <<>> \in Seq(Node)
      BY EmptySeq
    <3> QED
      BY <2>1, <2>2, <3>1, FlattenAppend
  <2>4. files \o <<>> = files
    BY <1>0, ConcatEmptySeq DEF TypeOK
  <2> QED
    BY <1>0, <2>1, <2>3, <2>4 DEF Searching
<1>4. CASE ~FoundAll
  <2>1. pc = "validate" \/ exit \in {0, 1} \/ Failure
    <3>1. CASE ReportHuman \/ ReportJSON
      BY <3>1 DEF ReportHuman, ReportJSON, FileDone
    <3>2. CASE ~ReportHuman /\ ~ReportJSON
      <4>1. UNCHANGED hasError /\ Failure' = Failure
        BY <1>0, <3>2, NothingReported DEF Failure
      <4>2. CASE UNCHANGED commandVars
        BY <1>2, <4>1, <4>2 DEF commandVars
      <4>3. CASE Next
        <5>1. \/ pc = "validate"
              \/ pc' # "validate" /\ exit' \in {2, 3, exit}
          BY <1>4, <3>2, <4>3 DEF Next, ParseFlags, NewValidator, EnterDirectory, TakeFile,
            FindFails, ReadFails, SkipEmptyDocument, ValidateDocument, Finish, Panic,
            Exit, Finding, AtDocument
        <5> QED
          BY <1>2, <4>1, <5>1
      <4> QED
        BY <4>2, <4>3
    <3> QED
      BY <3>1, <3>2
  <2>2. pc # "find"
    BY <1>0, <2>1, CommandLineAssumption DEF Searching, Progress
  <2>3. files' = files
    BY <2>2 DEF Next, commandVars, ParseFlags, NewValidator, EnterDirectory, TakeFile, FindFails,
      FoundAll, ReadFails, SkipEmptyDocument, ValidateDocument, ReportHuman, ReportJSON,
      Finish, Panic, NextFile, Finding
  <2> QED
    BY <1>0, <2>1, <2>3 DEF FilesFound, AllSought
<1> QED
  BY <1>3, <1>4

\* The search finds what the recursion over the tree would, each file as often and
\* in that order, or the run reports nothing (FindFiles, findFilesInDir).
THEOREM EveryFileFound == Spec => []FilesFound
<1>1. ASSUME Init PROVE Searching /\ FilesFound
  <2>1. pc = "flags" /\ files = <<>> /\ hasError = FALSE /\ exit = Running /\ ~Failure
    BY <1>1 DEF Init, Failure
  <2> QED
    BY <2>1, CommandLineAssumption DEF Searching, FilesFound
<1>2. Searching /\ FilesFound /\ CInv /\ CInv' /\ [Next]_commandVars
        => Searching' /\ FilesFound'
  <2>1. CInv => TypeOK /\ Progress
    BY DEF CInv
  <2> QED
    BY <2>1, SearchingStep, FoundStep DEF FInv
<1> QED
  BY <1>1, <1>2, CommandInvariant, PTL DEF Spec
=============================================================================
