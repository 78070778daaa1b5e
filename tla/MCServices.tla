------------------------------ MODULE MCServices ------------------------------
(***************************************************************************)
(* Eleven services of the same server whose models share no state: the        *)
(* backups and their restore, the record of the changes clients ask for,   *)
(* the print queue, the cents of a returned sale, the warehouse, the       *)
(* ledger, its recurring entries, the users, the telemetry, the prices of  *)
(* a sale, and the approvals of returns.  A behaviour is one of the        *)
(* service it starts with; the others stay as they were at first.          *)
(***************************************************************************)
EXTENDS BackupRestore, MutationCoordinator, PrintQueue, Refunds, Warehouse,
        Finance, Recurrences, AccessControl, Telemetry, SalePricing,
        ReturnApprovals

VARIABLE service

goods == <<restoreVars, coordinatorVars, printVars, refundVars, warehouseVars>>
offices ==
  <<financeVars, recurrenceVars, accessVars, telemetryVars, pricingVars, approvalVars>>
MCVars == <<goods, offices, service>>

Basket3(cents, pieces) == [l \in 1..3 |-> [cents |-> cents[l], pieces |-> pieces[l]]]

\* One sale whose prices do not divide, and one that the discount makes free.
MCFree == Basket3(<<1, 0, 1>>, <<1, 1, 1>>)
MCBaskets == {Basket3(<<5, 1, 5>>, <<3, 1, 2>>), MCFree}

\* Two pieces in the first of the locations.
MCOpening ==
  LET main == CHOOSE l \in Location : TRUE
  IN [l \in Location |-> IF l = main THEN 2 ELSE 0]

CONSTANTS
  pay,              \* the entry that is a payable
  debit1,           \* the movement that is a debit
  cashier,          \* whose both sessions are
  sale1, sale2,     \* sold; approvals are given for the first, which may be cancelled
  t1, t2,           \* transfers, events without a failure, sessions and requests
  plain1, plain2,   \* of a return, which are alike: the first of the two is used
  s1, s2, r1, r2    \* first

MCKind == [e \in Entry |-> IF e = pay THEN "PAYABLE" ELSE "RECEIVABLE"]
MCCents == [e \in Entry |-> 2]
MCDirection == [r \in BankRow |-> IF r = debit1 THEN "debit" ELSE "credit"]
MCAccount == [r \in BankRow |-> IF r = debit1 THEN 1 ELSE 2]
MCRowCents == [r \in BankRow |-> 2]

\* January to July of a year that is no leap year.
MCMonthLength == <<31, 28, 31, 30, 31, 30, 31>>
MCRule ==
  [start |-> 115, day |-> 30, interval |-> 1, limit |-> NoLimit, last |-> 430]

\* Two of the first product, whatever the cashier takes off besides, or once any
\* three pieces and nothing else.
MCCombo ==
  <<[same |-> TRUE, products |-> {1}, size |-> 2, cents |-> 5, cap |-> 2, manual |-> TRUE],
    [same |-> FALSE, products |-> {1, 2}, size |-> 3, cents |-> 6, cap |-> 1, manual |-> FALSE]>>

MCSessionUser == [s \in LoginSession |-> cashier]

\* What the services that do not run start with is of no consequence.
MCInit ==
  /\ service \in {"restore", "mutations", "printing", "returns", "warehouse",
                 "finance", "recurrences", "access", "telemetry", "pricing",
                 "approvals"}
  /\ RestoreInit /\ CoordinatorInit /\ WarehouseInit /\ FinanceInit /\ TelemetryInit
  /\ ApprovalInit
  /\ PrintInit /\ (service # "printing" => autoPrint)
  /\ RefundsInit /\ (IF service = "returns" THEN discount > 0
                      ELSE discount = 0 /\ gross[1] = MCFree[1].cents)
  /\ AccessInit /\ (service # "access" => ~licensed)
  /\ PricingInit /\ price = [i \in Item |-> 4]
  /\ RecurrenceInit /\ (service # "recurrences" => rule = MCRule)

\* Which is the last backup does not matter to a log that is left behind.
RestoreStep ==
  /\ service = "restore" /\ RestoreNext
  /\ wal' # NoFile => made' < MaxBackups
  /\ UNCHANGED <<coordinatorVars, printVars, refundVars, warehouseVars, offices, service>>

MutationStep ==
  /\ service = "mutations" /\ CoordinatorNext
  /\ UNCHANGED <<restoreVars, printVars, refundVars, warehouseVars, offices, service>>

PrintStep ==
  /\ service = "printing" /\ PrintNext
  /\ UNCHANGED <<restoreVars, coordinatorVars, refundVars, warehouseVars, offices, service>>

\* One line is priced anew, between two returns at most.
RefundStep ==
  /\ service = "returns" /\ RefundsNext
  /\ rewritten' # {} => rewritten' = {1} /\ returnIs'[MaxReturns] = "NONE"
  /\ UNCHANGED <<restoreVars, coordinatorVars, printVars, warehouseVars, offices, service>>

WarehouseStep ==
  /\ service = "warehouse" /\ WarehouseNext
  /\ transferIs'[t2] # "NONE" => transferIs'[t1] # "NONE"
  /\ UNCHANGED <<restoreVars, coordinatorVars, printVars, refundVars, offices, service>>

FinanceStep ==
  /\ service = "finance" /\ FinanceNext
  /\ UNCHANGED <<recurrenceVars, accessVars, telemetryVars, pricingVars,
                 approvalVars, goods, service>>

RecurrenceStep ==
  /\ service = "recurrences" /\ RecurrenceNext
  /\ UNCHANGED <<financeVars, accessVars, telemetryVars, pricingVars,
                 approvalVars, goods, service>>

AccessStep ==
  /\ service = "access" /\ AccessNext
  /\ UNCHANGED <<financeVars, recurrenceVars, telemetryVars, pricingVars,
                 approvalVars, goods, service>>

TelemetryStep ==
  /\ service = "telemetry" /\ TelemetryNext
  /\ plain2 \in recorded' => plain1 \in recorded'
  /\ withdrawals' > 0 => \A e \in ErrorEvent : purged'[e] = 0
  /\ UNCHANGED <<financeVars, recurrenceVars, accessVars, pricingVars,
                 approvalVars, goods, service>>

PricingStep ==
  /\ service = "pricing" /\ PricingNext
  /\ UNCHANGED <<financeVars, recurrenceVars, accessVars, telemetryVars,
                 approvalVars, goods, service>>

ApprovalStep ==
  /\ service = "approvals" /\ ApprovalNext
  /\ sessionIs'[s2] # "NONE" => sessionIs'[s1] # "NONE"
  /\ body'[r2] # NoBody =>
       body'[r1] # NoBody /\ body'[r1].sale = sale1 /\ body'[r2].approval # NoApproval
  /\ soldIs'[sale2] = "COMPLETED"
  /\ \A t \in ApprovalToken : grants'[t] # NoApproval => grants'[t].sale = sale1
  /\ UNCHANGED <<financeVars, recurrenceVars, accessVars, telemetryVars, pricingVars,
                 goods, service>>

MCNext ==
  \/ RestoreStep \/ MutationStep \/ PrintStep \/ RefundStep \/ WarehouseStep
  \/ FinanceStep \/ RecurrenceStep \/ AccessStep \/ TelemetryStep \/ PricingStep
  \/ ApprovalStep

\* Without a job, as where the service is another, nothing of it has to happen.
MCSpec == MCInit /\ [][MCNext]_MCVars /\ PrintFairness

=============================================================================
