------------------------- MODULE MutationCoordinator -------------------------
(***************************************************************************)
(* A client names each change it asks for, and may ask again: it hears the *)
(* answer recorded for that name, or waits for the run in progress.        *)
(*                                                                         *)
(* The handler commits its change at once, then awaits the dispatch of the *)
(* effects, and only then is its answer recorded: a failed dispatch or the *)
(* end of the process between the two leaves a change nobody recorded.     *)
(* The answer of a run is the change it made, known by its number.  A name *)
(* used again for another path is refused and changes nothing: left out.   *)
(***************************************************************************)
EXTENDS Integers, FiniteSets

CONSTANTS
  Attempt,       \* requests of the clients; one is never used twice
  Mutation,      \* names of changes
  MaxRestarts,   \* bound: ends of the process
  MaxFailures,   \* bound: dispatches that fail
  NoMutation

VARIABLES
  attempt, asks, heard,     \* of each request: how it stands, its mutation, its answer
  running,                  \* inFlight: the change of the run in progress, or 0
  processed,                \* processed_mutations: the change answered, or 0
  changes,                  \* changes committed for each mutation
  restarts, failures

requests == <<attempt, asks, heard>>
durable == <<processed, changes>>
coordinatorVars == <<requests, running, durable, restarts, failures>>

ASSUME CoordinatorAssumption ==
  /\ NoMutation \notin Mutation
  /\ MaxRestarts \in Nat /\ MaxFailures \in Nat

CoordinatorInit ==
  /\ attempt = [a \in Attempt |-> "NEW"]
  /\ asks = [a \in Attempt |-> NoMutation] /\ heard = [a \in Attempt |-> 0]
  /\ running = [m \in Mutation |-> 0]
  /\ processed = [m \in Mutation |-> 0] /\ changes = [m \in Mutation |-> 0]
  /\ restarts = 0 /\ failures = 0

-----------------------------------------------------------------------------
Asking(a, m) ==
  /\ attempt[a] = "NEW"
  /\ asks' = [asks EXCEPT ![a] = m]

\* The change was made before: its recorded answer is given again.
AnswerFromRecord(a, m) ==
  /\ Asking(a, m) /\ processed[m] # 0
  /\ attempt' = [attempt EXCEPT ![a] = "ANSWERED"]
  /\ heard' = [heard EXCEPT ![a] = processed[m]]
  /\ UNCHANGED <<running, durable, restarts, failures>>

\* Mutant: the record is asked, the run in progress is not.
MayRun(m) == processed[m] = 0

\* Nobody made the change or is making it.
IsFirst(m) == processed[m] = 0 /\ running[m] = 0

\* The handler commits the change, and the request waits for its end.
RunHandler(a, m) ==
  /\ Asking(a, m) /\ IsFirst(m)
  /\ changes' = [changes EXCEPT ![m] = @ + 1]
  /\ running' = [running EXCEPT ![m] = changes'[m]]
  /\ attempt' = [attempt EXCEPT ![a] = "WAITING"]
  /\ UNCHANGED <<heard, processed, restarts, failures>>

\* The handler refuses before it commits; nothing is recorded.
RefuseRequest(a, m) ==
  /\ Asking(a, m) /\ IsFirst(m)
  /\ attempt' = [attempt EXCEPT ![a] = "FAILED"]
  /\ UNCHANGED <<heard, running, durable, restarts, failures>>

JoinRun(a, m) ==
  /\ Asking(a, m) /\ processed[m] = 0 /\ running[m] # 0
  /\ attempt' = [attempt EXCEPT ![a] = "WAITING"]
  /\ UNCHANGED <<heard, running, durable, restarts, failures>>

Waiting(m) == {a \in Attempt : attempt[a] = "WAITING" /\ asks[a] = m}

\* Everyone who waits for the run of m hears how it ended, and m runs no more.
EndRun(m, outcome, answer) ==
  /\ running[m] # 0
  /\ running' = [running EXCEPT ![m] = 0]
  /\ attempt' = [a \in Attempt |-> IF a \in Waiting(m) THEN outcome ELSE attempt[a]]
  /\ heard' = [a \in Attempt |-> IF a \in Waiting(m) THEN answer ELSE heard[a]]

\* The dispatch is over: the answer is recorded, then given.
FinishRun(m) ==
  /\ EndRun(m, "ANSWERED", running[m])
  /\ processed' = [processed EXCEPT ![m] = running[m]]
  /\ UNCHANGED <<asks, changes, restarts, failures>>

\* The dispatch, or the recording, throws: the change stays, unrecorded.
FailRun(m) ==
  /\ failures < MaxFailures /\ failures' = failures + 1
  /\ EndRun(m, "FAILED", 0)
  /\ UNCHANGED <<asks, durable, restarts>>

\* The client stops waiting; the server goes on.
LoseAnswer(a) ==
  /\ attempt[a] = "WAITING"
  /\ attempt' = [attempt EXCEPT ![a] = "LOST"]
  /\ UNCHANGED <<asks, heard, running, durable, restarts, failures>>

\* The process ends: runs in progress and those who wait for them are gone.
RestartServer ==
  /\ restarts < MaxRestarts /\ restarts' = restarts + 1
  /\ running' = [m \in Mutation |-> 0]
  /\ attempt' = [a \in Attempt |-> IF attempt[a] = "WAITING" THEN "LOST" ELSE attempt[a]]
  /\ UNCHANGED <<asks, heard, durable, failures>>

CoordinatorNext ==
  \/ \E a \in Attempt, m \in Mutation :
       \/ AnswerFromRecord(a, m) \/ RunHandler(a, m)
       \/ RefuseRequest(a, m) \/ JoinRun(a, m)
  \/ \E m \in Mutation : FinishRun(m) \/ FailRun(m)
  \/ \E a \in Attempt : LoseAnswer(a)
  \/ RestartServer

CoordinatorSpec == CoordinatorInit /\ [][CoordinatorNext]_coordinatorVars

-----------------------------------------------------------------------------
(* Type invariant: every number a request may hear is one of a change.     *)
CoordinatorTypeOK ==
  /\ attempt \in [Attempt -> {"NEW", "WAITING", "ANSWERED", "FAILED", "LOST"}]
  /\ asks \in [Attempt -> Mutation \union {NoMutation}]
  /\ heard \in [Attempt -> Nat]
  /\ running \in [Mutation -> Nat] /\ processed \in [Mutation -> Nat]
  /\ changes \in [Mutation -> Nat]
  /\ \A m \in Mutation : running[m] <= changes[m] /\ processed[m] <= changes[m]
  /\ restarts \in 0..MaxRestarts /\ failures \in 0..MaxFailures

\* Whoever is answered hears the recorded change, before and after a restart.
AnswersAgree ==
  \A a \in Attempt : attempt[a] = "ANSWERED" => heard[a] = processed[asks[a]]

\* Each change beyond the first has a failed dispatch or a restart of its own.
ChangesAreExplained ==
  \A m \in Mutation : changes[m] <= 1 + restarts + failures

(* A request may be repeated: however it is lost, joined or asked again,   *)
(* two answers for one mutation are the same answer, and the change is     *)
(* made again only where a run was cut before it was recorded.             *)
RetriesAreSafe == AnswersAgree /\ ChangesAreExplained

=============================================================================
