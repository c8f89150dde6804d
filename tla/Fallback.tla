------------------------------- MODULE Fallback -------------------------------
(***************************************************************************)
(* fallbackClient of pkg/openapiclient, called by several goroutines: it   *)
(* keeps the client it chose in an atomic pointer and takes no lock.  A    *)
(* call loads the pointer; if it is nil, the call asks the clients in      *)
(* order and stores the first that answers.  Loads, stores and answers of  *)
(* concurrent calls interleave, and clients go down and come back.         *)
(***************************************************************************)
EXTENDS Naturals

CONSTANTS
  N,           \* the number of clients, named 1..N by priority
  Caller,      \* the goroutines
  Responsive,  \* those whose requests are all answered, at last
  MaxCalls,    \* bound on the calls of each
  None

Client == 1..N

ASSUME NAssumption == N \in Nat \ {0} /\ MaxCalls \in Nat

ASSUME NamesAssumption == None \notin Nat /\ Responsive \subseteq Caller

VARIABLES
  up,            \* the clients that answer
  chosenClient,
  pc,            \* where the call of each goroutine stands
  at,            \* the client it asks
  result,        \* what its last call returned: a client's paths, 0 for an error
  calls,         \* how often it called
  refused        \* the clients that refused its current or last search

fallbackVars == <<up, chosenClient, pc, at, result, calls, refused>>

Init ==
  /\ up \in SUBSET Client
  /\ chosenClient = None
  /\ pc = [c \in Caller |-> "idle"]
  /\ at = [c \in Caller |-> 1]
  /\ result = [c \in Caller |-> None]
  /\ calls = [c \in Caller |-> 0]
  /\ refused = [c \in Caller |-> {}]

\* Clients go down and come back.
OutageOrRecovery ==
  /\ up' \in (SUBSET Client) \ {up}
  /\ UNCHANGED <<chosenClient, pc, at, result, calls, refused>>

-----------------------------------------------------------------------------
Goto(c, label) == pc' = [pc EXCEPT ![c] = label]

Return(c, value) ==
  /\ result' = [result EXCEPT ![c] = value]
  /\ Goto(c, "idle")

\* Mutant: the choice is not consulted.
NeverChosen == FALSE

Chosen == chosenClient # None

\* Mutant: the search starts at the second client.
StartSecond(c) == at' = [at EXCEPT ![c] = IF N > 1 THEN 2 ELSE 1]

StartSearch(c) == at' = [at EXCEPT ![c] = 1]

Load(c) ==
  /\ pc[c] = "idle"
  /\ calls[c] < MaxCalls
  /\ calls' = [calls EXCEPT ![c] = @ + 1]
  /\ refused' = [refused EXCEPT ![c] = {}]
  /\ \/ /\ Chosen
        /\ at' = [at EXCEPT ![c] = chosenClient]
        /\ Goto(c, "forward")
     \/ /\ ~Chosen
        /\ StartSearch(c)
        /\ Goto(c, "search")
  /\ UNCHANGED <<up, chosenClient, result>>

\* The chosen client alone is asked.
Forward(c) ==
  /\ pc[c] = "forward"
  /\ Return(c, IF at[c] \in up THEN at[c] ELSE 0)
  /\ UNCHANGED <<up, chosenClient, at, calls, refused>>

\* Mutant: one client too many.
ExhaustedLate(c) == at[c] > N

Exhausted(c) == at[c] = N

\* A client answers, or refuses and the next is asked.
Search(c) ==
  /\ pc[c] = "search"
  /\ \/ /\ at[c] \in up
        /\ Goto(c, "store")
        /\ UNCHANGED <<at, result, refused>>
     \/ /\ at[c] \notin up
        /\ refused' = [refused EXCEPT ![c] = @ \cup {at[c]}]
        /\ \/ /\ ~Exhausted(c)
              /\ at' = [at EXCEPT ![c] = @ + 1]
              /\ UNCHANGED <<pc, result>>
           \/ /\ Exhausted(c)
              /\ Return(c, 0)
              /\ UNCHANGED at
  /\ UNCHANGED <<up, chosenClient, calls>>

\* Mutant: a store waits for the searches of the others.
StoreAlone(c) ==
  /\ pc[c] = "store"
  /\ \A d \in Caller \ {c} : pc[d] # "search"
  /\ chosenClient' = at[c]
  /\ Return(c, at[c])
  /\ UNCHANGED <<up, at, calls, refused>>

\* The store does not look whether another call has chosen meanwhile.
Store(c) ==
  /\ pc[c] = "store"
  /\ chosenClient' = at[c]
  /\ Return(c, at[c])
  /\ UNCHANGED <<up, at, calls, refused>>

Step(c) == Load(c) \/ Forward(c) \/ Search(c) \/ Store(c)

Next == OutageOrRecovery \/ \E c \in Caller : Step(c)

Spec == Init /\ [][Next]_fallbackVars

\* A request has no timeout, so only the calls whose requests are answered go
\* on; the scheduler runs them whatever the others wait for.  Nobody has to call.
Continue(c) == Forward(c) \/ Search(c) \/ Store(c)

FairSpec == Spec /\ \A c \in Responsive : WF_fallbackVars(Continue(c))

-----------------------------------------------------------------------------
\* Variables keep their types; what has been chosen is a client.
TypeOK ==
  /\ up \subseteq Client
  /\ chosenClient \in Client \cup {None}
  /\ pc \in [Caller -> {"idle", "forward", "search", "store"}]
  /\ at \in [Caller -> Client]
  /\ result \in [Caller -> Client \cup {0, None}]
  /\ calls \in [Caller -> 0..MaxCalls]
  /\ refused \in [Caller -> SUBSET Client]

\* A search is in progress: it has seen no choice, and may make one.
Searching(c) == pc[c] \in {"search", "store"}

\* A search asks the clients in order, so what it stores or returns is the first
\* that did not refuse this very call; it fails only if all refused, and a call
\* that is forwarded asks nobody else.
FirstThatAnswers ==
  \A c \in Caller :
    /\ Searching(c) => refused[c] = 1..(at[c] - 1)
    /\ (pc[c] = "idle" /\ refused[c] # {}) =>
         \/ result[c] = 0 /\ refused[c] = Client
         \/ result[c] \in Client /\ refused[c] = 1..(result[c] - 1)
    /\ pc[c] = "forward" => chosenClient # None /\ refused[c] = {}

\* Calls race to choose, and one that is late replaces the choice of another.
\* Once a choice is made and all calls that had not seen one are over, it is
\* final: all later calls are forwarded to one client.
Settled == chosenClient # None /\ \A c \in Caller : ~Searching(c)

SettledForGood == [][Settled => Settled' /\ chosenClient' = chosenClient]_fallbackVars

\* A goroutine that waits for a client for ever, before it has chosen or after,
\* does not keep the others from their answers.
NobodyBlocks == \A c \in Responsive : (pc[c] # "idle") ~> (pc[c] = "idle")
=============================================================================
