------------------------------ MODULE Recurrences ------------------------------
(***************************************************************************)
(* A recurring payable or receivable: the due dates its rule goes through, *)
(* the entry made for each, and the two commits of each occurrence, between *)
(* which the process may stop.                                             *)
(*                                                                         *)
(* A date is 100 * month + day, so that the order of dates is that of the  *)
(* numbers; months are counted from the first one modelled.  generateDue   *)
(* may be asked for any day, so nothing has to say which day it is; a call *)
(* that makes several occurrences is as many steps.                        *)
(***************************************************************************)
EXTENDS Integers, Sequences, FiniteSets

CONSTANTS
  MonthLength,      \* days of each month, one after the other
  StartDate,        \* dates a rule may start from
  DueDay,           \* days of the month it may ask for
  Interval,         \* months it may leave between two due dates
  MaxOccurrences,   \* occurrences it may be limited to
  NoLimit,          \* ... or not
  LastDate,         \* dates it may end at
  MaxCuts           \* bound: ends of the process between the two commits

VARIABLES
  rule,             \* what finance_recurring_rules never changes of the rule
  ruleIs,           \* ... its status
  generated,        \* ... its generated_count
  nextDue,          \* ... its next_due_at
  occurrences,      \* finance_recurrence_occurrences: the due dates
  entriesDue,       \* due dates of the entries made from the rule, with the copies of each
  cuts

progress == <<generated, nextDue>>
produced == <<occurrences, entriesDue>>
recurrenceVars == <<rule, ruleIs, progress, produced, cuts>>

Month == DOMAIN MonthLength

MonthOf(date) == date \div 100

\* The month a rule starts in, and the one after it, are among those modelled.
ASSUME RecurrenceAssumption ==
  /\ MonthLength \in Seq(28..31)
  /\ StartDate \subseteq Nat
  /\ \A start \in StartDate : {MonthOf(start), MonthOf(start) + 1} \subseteq Month
  /\ DueDay \subseteq 1..31
  /\ Interval \subseteq 1..12
  /\ MaxOccurrences \subseteq Nat \ {0}
  /\ NoLimit \notin Nat
  /\ LastDate \subseteq Nat
  /\ MaxCuts \in Nat

-----------------------------------------------------------------------------
\* dueFor: the day asked for, or the last one of a shorter month.
DueFor(month, day) ==
  100 * month + (IF day <= MonthLength[month] THEN day ELSE MonthLength[month])

NextMonthDue(date, day, months) == DueFor(MonthOf(date) + months, day)

FirstDue(start, day) ==
  LET current == DueFor(MonthOf(start), day)
  IN IF current >= start THEN current ELSE NextMonthDue(current, day, 1)

Reached(count) == rule.limit # NoLimit /\ count >= rule.limit
Past(date) == date > rule.last

\* The months the next due date would need are among those modelled.
Within(date) == MonthOf(date) + rule.interval \in Month

-----------------------------------------------------------------------------
\* createRule refuses an end before the start.
RecurrenceInit ==
  /\ rule \in [start : StartDate, day : DueDay, interval : Interval,
               limit : MaxOccurrences \cup {NoLimit}, last : LastDate]
  /\ rule.last >= rule.start
  /\ nextDue = FirstDue(rule.start, rule.day)
  /\ ruleIs = "ACTIVE" /\ generated = 0
  /\ occurrences = {} /\ entriesDue = [date \in {} |-> 0]
  /\ cuts = 0

SetRuleStatus(status) ==
  /\ ruleIs' = status
  /\ UNCHANGED <<rule, progress, produced, cuts>>

\* A rule that was made ACTIVE again after its end is ended when it comes up.
EndRule ==
  /\ ruleIs = "ACTIVE" /\ (Past(nextDue) \/ Reached(generated))
  /\ ruleIs' = "ENDED"
  /\ UNCHANGED <<rule, progress, produced, cuts>>

Due == ruleIs = "ACTIVE" /\ ~Past(nextDue) /\ ~Reached(generated) /\ Within(nextDue)

Copies(date) == IF date \in DOMAIN entriesDue THEN entriesDue[date] ELSE 0

\* Mutant: the occurrence is not looked for before its entry is made.
MakeAgain(date) ==
  /\ occurrences' = occurrences \cup {date}
  /\ entriesDue' =
       [d \in DOMAIN entriesDue \cup {date} |-> Copies(d) + (IF d = date THEN 1 ELSE 0)]

\* The entry and its occurrence in one transaction, unless there is one already.
Make(date) ==
  IF date \in occurrences THEN UNCHANGED produced
  ELSE /\ occurrences' = occurrences \cup {date}
       /\ entriesDue' = [d \in DOMAIN entriesDue \cup {date} |-> IF d = date THEN 1 ELSE entriesDue[d]]

\* Then the rule, in a commit of its own.
GenerateDue ==
  LET next == NextMonthDue(nextDue, rule.day, rule.interval)
  IN /\ Due /\ Make(nextDue)
     /\ generated' = generated + 1 /\ nextDue' = next
     /\ ruleIs' = IF Reached(generated + 1) \/ Past(next) THEN "ENDED" ELSE "ACTIVE"
     /\ UNCHANGED <<rule, cuts>>

CutInGenerate ==
  /\ Due /\ cuts < MaxCuts /\ Make(nextDue)
  /\ cuts' = cuts + 1
  /\ UNCHANGED <<rule, ruleIs, progress>>

RecurrenceNext ==
  \/ \E status \in {"ACTIVE", "PAUSED", "ENDED"} : SetRuleStatus(status)
  \/ EndRule
  \/ GenerateDue \/ CutInGenerate

RecurrenceSpec == RecurrenceInit /\ [][RecurrenceNext]_recurrenceVars

-----------------------------------------------------------------------------
RecurrenceTypeOK ==
  /\ ruleIs \in {"ACTIVE", "PAUSED", "ENDED"}
  /\ generated \in Nat /\ nextDue \in Nat /\ cuts \in 0..MaxCuts
  /\ DOMAIN entriesDue = occurrences

\* The dates a rule asks for, from its words alone: the day of every so many
\* months, the last one of a shorter month, from the first that is not before
\* the start to the last that is not after the end.
Asked ==
  LET late == IF DueFor(MonthOf(rule.start), rule.day) < rule.start THEN 1 ELSE 0
      first == MonthOf(rule.start) + late
      months == {m \in Month : m >= first /\ (m - first) % rule.interval = 0}
  IN {DueFor(m, rule.day) : m \in {m \in months : ~Past(DueFor(m, rule.day))}}

\* Whatever is paused, ended, taken up again or cut between its two commits, a
\* rule has one entry for each of the first of the dates it asks for, none
\* twice and none skipped, and no more than it was limited to.
OccurrencesAreExact ==
  /\ \A date \in occurrences : entriesDue[date] = 1
  /\ occurrences \subseteq Asked
  /\ \A date \in Asked : (\E later \in occurrences : date < later) => date \in occurrences
  /\ rule.limit # NoLimit => Cardinality(occurrences) <= rule.limit

=============================================================================
