---------------------------- MODULE FallbackProofs ----------------------------
(***************************************************************************)
(* For any number of clients, goroutines and calls: a fallback keeps its   *)
(* types, picks the first client that does not refuse, and its choice is   *)
(* final once all searches are over.                                       *)
(***************************************************************************)
EXTENDS Fallback, TLAPS

FInv == TypeOK /\ FirstThatAnswers

USE NAssumption, NamesAssumption

\* Client names are positive numbers up to N, and neither 0 nor None is one.
LEMMA ClientFacts ==
  /\ 1 \in Client
  /\ \A i \in Client : i \in Nat /\ i # 0 /\ i # None
  /\ \A i \in Client : i # N => i + 1 \in Client /\ 1..i = 1..(i - 1) \cup {i}
  /\ 1..N = 1..(N - 1) \cup {N} /\ 1..(1 - 1) = {} /\ N \in Client
  BY DEF Client

\* The initial states satisfy the invariant.
LEMMA FInit == Init => FInv
  BY ClientFacts DEF Init, FInv, TypeOK, FirstThatAnswers, Searching, Client

\* Every step keeps the types.
LEMMA FTypeStep == TypeOK /\ [Next]_fallbackVars => TypeOK'
<1> SUFFICES ASSUME TypeOK, [Next]_fallbackVars PROVE TypeOK'
  OBVIOUS
<1> USE ClientFacts DEF TypeOK
<1>1. CASE OutageOrRecovery
  BY <1>1 DEF OutageOrRecovery
<1>2. ASSUME NEW c \in Caller, Load(c) PROVE TypeOK'
  BY <1>2 DEF Load, Goto, StartSearch, Chosen
<1>3. ASSUME NEW c \in Caller, Forward(c) PROVE TypeOK'
  BY <1>3 DEF Forward, Goto, Return
<1>4. ASSUME NEW c \in Caller, Search(c) PROVE TypeOK'
  <2>1. CASE at[c] \in up
    BY <1>4, <2>1 DEF Search, Goto
  <2>2. CASE at[c] \notin up /\ Exhausted(c)
    BY <1>4, <2>2 DEF Search, Goto, Return
  <2>3. CASE at[c] \notin up /\ ~Exhausted(c)
    <3>1. at[c] + 1 \in Client
      BY <2>3 DEF Exhausted
    <3> QED
      BY <1>4, <2>3, <3>1 DEF Search
  <2> QED
    BY <2>1, <2>2, <2>3
<1>5. ASSUME NEW c \in Caller, Store(c) PROVE TypeOK'
  BY <1>5 DEF Store, Goto, Return
<1>6. CASE UNCHANGED fallbackVars
  BY <1>6 DEF fallbackVars
<1> QED
  BY <1>1, <1>2, <1>3, <1>4, <1>5, <1>6 DEF Next, Step

\* What FirstThatAnswers says of one goroutine.
First(c) ==
  /\ Searching(c) => refused[c] = 1..(at[c] - 1)
  /\ (pc[c] = "idle" /\ refused[c] # {}) =>
       \/ result[c] = 0 /\ refused[c] = Client
       \/ result[c] \in Client /\ refused[c] = 1..(result[c] - 1)
  /\ pc[c] = "forward" => chosenClient # None /\ refused[c] = {}

\* A step of one goroutine leaves what the others are at.
Others(c) ==
  \A d \in Caller \ {c} :
    /\ pc'[d] = pc[d] /\ at'[d] = at[d]
    /\ result'[d] = result[d] /\ refused'[d] = refused[d]

LEMMA FFirstStep == FInv /\ [Next]_fallbackVars => FirstThatAnswers'
<1> SUFFICES ASSUME FInv, [Next]_fallbackVars PROVE FirstThatAnswers'
  OBVIOUS
<1> USE ClientFacts
<1>a. TypeOK /\ TypeOK' /\ \A c \in Caller : First(c)
  BY FTypeStep DEF FInv, FirstThatAnswers, First
<1>b. (\A c \in Caller : First(c)') => FirstThatAnswers'
  BY DEF FirstThatAnswers, First
<1>c. ASSUME NEW c \in Caller, Others(c), First(c)',
             chosenClient # None => chosenClient' # None
      PROVE FirstThatAnswers'
  <2> SUFFICES ASSUME NEW d \in Caller \ {c} PROVE First(d)'
    BY <1>b, <1>c
  <2> QED
    BY <1>a, <1>c DEF First, Others, Searching
<1>1. CASE OutageOrRecovery
  BY <1>1, <1>a, <1>b DEF OutageOrRecovery, First, Searching
<1>2. ASSUME NEW c \in Caller, Load(c) PROVE FirstThatAnswers'
  <2>1. Others(c) /\ chosenClient' = chosenClient
    BY <1>2, <1>a DEF Load, Others, Goto, StartSearch, Chosen, TypeOK
  <2>2. First(c)'
    BY <1>2, <1>a DEF Load, First, Goto, StartSearch, Chosen, TypeOK, Searching
  <2> QED
    BY <2>1, <2>2, <1>c
<1>3. ASSUME NEW c \in Caller, Forward(c) PROVE FirstThatAnswers'
  <2>1. Others(c) /\ chosenClient' = chosenClient
    BY <1>3, <1>a DEF Forward, Others, Goto, Return, TypeOK
  <2>2. First(c)'
    BY <1>3, <1>a DEF Forward, First, Goto, Return, TypeOK, Searching
  <2> QED
    BY <2>1, <2>2, <1>c
<1>4. ASSUME NEW c \in Caller, Search(c) PROVE FirstThatAnswers'
  <2>1. Others(c) /\ chosenClient' = chosenClient
    BY <1>4, <1>a DEF Search, Others, Goto, Return, Exhausted, TypeOK
  <2>a. pc[c] = "search" /\ refused[c] = 1..(at[c] - 1) /\ at[c] \in Client
    BY <1>4, <1>a DEF Search, First, Searching, TypeOK
  <2>2. CASE at[c] \in up
    <3>1. pc'[c] = "store" /\ at' = at /\ refused' = refused
      BY <1>4, <1>a, <2>2 DEF Search, Goto, TypeOK
    <3>2. First(c)'
      BY <3>1, <2>a DEF First, Searching
    <3> QED
      BY <3>2, <2>1, <1>c
  <2>3. CASE at[c] \notin up /\ ~Exhausted(c)
    <3>1. pc' = pc /\ at'[c] = at[c] + 1 /\ refused'[c] = refused[c] \cup {at[c]}
      BY <1>4, <1>a, <2>3 DEF Search, TypeOK
    <3>2. refused'[c] = 1..(at'[c] - 1)
      <4>1. at[c] \in Nat
        BY <2>a
      <4>2. at[c] # N
        BY <2>3 DEF Exhausted
      <4>3. at'[c] - 1 = at[c]
        BY <4>1, <3>1
      <4>4. 1..at[c] = 1..(at[c] - 1) \cup {at[c]}
        BY <2>a, <4>2
      <4> QED
        BY <4>3, <4>4, <3>1, <2>a
    <3>3. First(c)'
      BY <3>1, <3>2, <2>a DEF First, Searching
    <3> QED
      BY <3>3, <2>1, <1>c
  <2>4. CASE at[c] \notin up /\ Exhausted(c)
    <3>1. /\ pc'[c] = "idle" /\ result'[c] = 0
          /\ refused'[c] = refused[c] \cup {at[c]}
      BY <1>4, <1>a, <2>4 DEF Search, Goto, Return, TypeOK
    <3>2. refused'[c] = Client
      BY <3>1, <2>a, <2>4 DEF Exhausted, Client
    <3>3. First(c)'
      BY <3>1, <3>2 DEF First, Searching
    <3> QED
      BY <3>3, <2>1, <1>c
  <2> QED
    BY <2>2, <2>3, <2>4
<1>5. ASSUME NEW c \in Caller, Store(c) PROVE FirstThatAnswers'
  <2>1. Others(c) /\ chosenClient' # None
    BY <1>5, <1>a DEF Store, Others, Goto, Return, TypeOK
  <2>2. First(c)'
    BY <1>5, <1>a DEF Store, First, Goto, Return, TypeOK, Searching
  <2> QED
    BY <2>1, <2>2, <1>c
<1>6. CASE UNCHANGED fallbackVars
  BY <1>6, <1>a, <1>b DEF fallbackVars, First, Searching
<1> QED
  BY <1>1, <1>2, <1>3, <1>4, <1>5, <1>6 DEF Next, Step

\* The inductive invariant.
THEOREM FallbackInvariance == Spec => []FInv
<1>1. FInv /\ [Next]_fallbackVars => FInv'
  BY FTypeStep, FFirstStep DEF FInv
<1> QED
  BY FInit, <1>1, PTL DEF Spec

\* Variables keep their types: an atomic pointer that is set points to a client.
THEOREM FallbackTypeCorrect == Spec => []TypeOK
<1>1. FInv => TypeOK
  BY DEF FInv
<1> QED
  BY FallbackInvariance, <1>1, PTL

\* Every search stores, or returns, the first client that did not refuse it.
THEOREM FirstAnswerWins == Spec => []FirstThatAnswers
<1>1. FInv => FirstThatAnswers
  BY DEF FInv
<1> QED
  BY FallbackInvariance, <1>1, PTL

\* A choice is final once the searches that had not seen one are over.
THEOREM SettledChoiceIsFinal == Spec => SettledForGood
<1>1. TypeOK /\ [Next]_fallbackVars =>
        [Settled => Settled' /\ chosenClient' = chosenClient]_fallbackVars
  <2> SUFFICES ASSUME TypeOK, Next, Settled
               PROVE Settled' /\ chosenClient' = chosenClient
    OBVIOUS
  <2>1. CASE OutageOrRecovery
    BY <2>1 DEF OutageOrRecovery, Settled, Searching
  <2>2. ASSUME NEW c \in Caller, Load(c)
        PROVE Settled' /\ chosenClient' = chosenClient
    BY <2>2 DEF Load, Settled, Searching, Chosen, Goto, TypeOK
  <2>3. ASSUME NEW c \in Caller, Forward(c)
        PROVE Settled' /\ chosenClient' = chosenClient
    BY <2>3 DEF Forward, Settled, Searching, Return, Goto, TypeOK
  <2>4. ASSUME NEW c \in Caller, Search(c) \/ Store(c) PROVE FALSE
    BY <2>4 DEF Search, Store, Settled, Searching
  <2> QED
    BY <2>1, <2>2, <2>3, <2>4 DEF Next, Step
<1> QED
  BY FallbackTypeCorrect, <1>1, PTL DEF Spec, SettledForGood
=============================================================================
