----------------------------- MODULE CashSessions -----------------------------
(***************************************************************************)
(* The cash sessions of the terminals and the movements of cash in them.   *)
(* Sales and returns post their movements here after the fact, from the    *)
(* events they left in the outbox, and possibly into a session that was    *)
(* closed meanwhile; its expectation is then computed again.  The rows of  *)
(* cash_movements are only ever added, so that their signed sum is kept    *)
(* instead of the rows.                                                    *)
(***************************************************************************)
EXTENDS Integers

CONSTANTS
  Terminal,
  Session,      \* the rows cash_sessions may come to hold
  Entry,        \* the events whose effects post movements
  MaxManual,    \* bound: supplies and withdrawals
  NoTerminal

VARIABLES
  status,       \* "NONE" until the row exists, then "OPEN", then "CLOSED"
  holder,       \* the terminal of a session
  posted,       \* posted[<<x, k>>] : how often event k wrote its rows in x
  ledger,       \* initial cash and the signed sum of the cash movements
  float,        \* history: the part of it that no event brought
  expected,     \* expected_cash_cents of a closed session
  manual

CashInit ==
  /\ status = [x \in Session |-> "NONE"]
  /\ holder = [x \in Session |-> NoTerminal]
  /\ posted = [xk \in Session \X Entry |-> 0]
  /\ ledger = [x \in Session |-> 0]
  /\ float = [x \in Session |-> 0]
  /\ expected = [x \in Session |-> 0]
  /\ manual = 0

IsOpenOn(x, t) == status[x] = "OPEN" /\ holder[x] = t

OpenSession(x, t, initial) ==
  /\ status[x] = "NONE"
  /\ \A y \in Session : ~IsOpenOn(y, t)
  /\ status' = [status EXCEPT ![x] = "OPEN"]
  /\ holder' = [holder EXCEPT ![x] = t]
  /\ ledger' = [ledger EXCEPT ![x] = initial]
  /\ float' = [float EXCEPT ![x] = initial]
  /\ UNCHANGED <<posted, expected, manual>>

MoveManually(x, amount) ==
  /\ status[x] = "OPEN"
  /\ manual < MaxManual /\ manual' = manual + 1
  /\ ledger' = [ledger EXCEPT ![x] = @ + amount]
  /\ float' = [float EXCEPT ![x] = @ + amount]
  /\ UNCHANGED <<status, holder, posted, expected>>

AddSupply(x, amount) == MoveManually(x, amount)

\* No more is withdrawn than the drawer should hold.
Withdraw(x, amount) == amount <= ledger[x] /\ MoveManually(x, -amount)

CloseSession(x) ==
  /\ status[x] = "OPEN"
  /\ status' = [status EXCEPT ![x] = "CLOSED"]
  /\ expected' = [expected EXCEPT ![x] = ledger[x]]
  /\ UNCHANGED <<holder, posted, ledger, float, manual>>

-----------------------------------------------------------------------------
\* insertMovement for each method: the unique index, and the note of a return,
\* let an event write its rows in a session once.
InsertMovements(x, k, cash) ==
  IF posted[<<x, k>>] = 0
  THEN /\ posted' = [posted EXCEPT ![<<x, k>>] = 1]
       /\ ledger' = [ledger EXCEPT ![x] = @ + cash]
  ELSE UNCHANGED <<posted, ledger>>

\* Mutant: a session that is closed keeps what it expected.
LeaveClosed(x) == UNCHANGED expected

\* recalculateClosedSession, after the rows are in.
RecalculateClosed(x) ==
  expected' = IF status[x] = "CLOSED"
              THEN [expected EXCEPT ![x] = ledger'[x]] ELSE expected

\* recordSalePayments, reverseSalePayments and recordReturnRefunds.
Record(x, k, cash) ==
  /\ InsertMovements(x, k, cash)
  /\ RecalculateClosed(x)
  /\ UNCHANGED <<status, holder, float, manual>>

\* The process stops between the transaction of the rows and the recalculation.
RecordHalf(x, k, cash) ==
  /\ InsertMovements(x, k, cash)
  /\ UNCHANGED <<status, holder, float, expected, manual>>

=============================================================================
