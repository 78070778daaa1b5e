-------------------------------- MODULE Finance --------------------------------
(***************************************************************************)
(* Payables and receivables, the settlements that pay them, and the rows   *)
(* of imported bank statements, each of which is matched with an entry or  *)
(* with the row of the same money in another account.                      *)
(*                                                                         *)
(* Settlements and decisions are numbered in the order they are written.   *)
(* A call that repeats the idempotency key of an earlier one answers with  *)
(* what that one wrote and changes nothing, so it is no step.  Every       *)
(* handler is synchronous or awaits before its transaction only, and the   *)
(* transaction checks again whatever the wait may have changed.            *)
(***************************************************************************)
EXTENDS Integers, Sequences, FiniteSetsExt

CONSTANTS
  Entry,            \* financial_entries
  EntryKind,        \* PAYABLE or RECEIVABLE
  EntryCents,
  BankRow,          \* movements of the bank, one for each source fingerprint
  Direction,        \* debit or credit
  BankAccount,
  RowCents,
  NoRow,            \* source of a settlement made by hand
  MaxSettlements,   \* bound: settlements ever made
  MaxDecisions      \* bound: matches decided, accepted or not

VARIABLES
  entryIs,          \* financial_entries.status, NONE before it is created
  settlements,      \* financial_settlements
  rowIs,            \* bank_statement_transactions.match_status, NONE before its import
  decisions,        \* finance_reconciliations
  bankTransfers     \* financial_transfers

ledger == <<entryIs, settlements>>
financeVars == <<ledger, rowIs, decisions, bankTransfers>>

ASSUME FinanceAssumption ==
  /\ EntryKind \in [Entry -> {"PAYABLE", "RECEIVABLE"}]
  /\ EntryCents \in [Entry -> Nat \ {0}]
  /\ Direction \in [BankRow -> {"debit", "credit"}]
  /\ RowCents \in [BankRow -> Nat]
  /\ NoRow \notin BankRow
  /\ MaxSettlements \in Nat /\ MaxDecisions \in Nat

Settlement == [entry : Entry, cents : Nat \ {0}, from : BankRow \cup {NoRow}, live : BOOLEAN]
Decision == [row : BankRow, entry : Entry, accepted : BOOLEAN, cents : Nat, settlement : Nat]

-----------------------------------------------------------------------------
\* What the settlements that were not reversed have paid of an entry.
LiveOf(s, e) == {n \in DOMAIN s : s[n].entry = e /\ s[n].live}
CentsIn(s) == [n \in DOMAIN s |-> s[n].cents]
SettledCents(s, e) == SumFunctionOnSet(CentsIn(s), LiveOf(s, e))
OpenCents(e) == EntryCents[e] - SettledCents(settlements, e)

\* The status recalculateStatus gives an entry with settlements s.
StatusWith(s, e) ==
  IF SettledCents(s, e) <= 0 THEN "OPEN"
  ELSE IF SettledCents(s, e) < EntryCents[e] THEN "PARTIAL"
  ELSE "SETTLED"

Live(e) == entryIs[e] \notin {"NONE", "CANCELLED"}

Fits(e, cents) == cents \in 1..OpenCents(e)

\* settleEntry: write the settlement and the status it leaves.
Settled(e, cents, source) ==
  /\ Live(e) /\ Fits(e, cents) /\ Len(settlements) < MaxSettlements
  /\ settlements' =
       Append(settlements, [entry |-> e, cents |-> cents, from |-> source, live |-> TRUE])
  /\ entryIs' = [entryIs EXCEPT ![e] = StatusWith(settlements', e)]

-----------------------------------------------------------------------------
FinanceInit ==
  /\ entryIs = [e \in Entry |-> "NONE"]
  /\ settlements = <<>>
  /\ rowIs = [r \in BankRow |-> "NONE"]
  /\ decisions = <<>>
  /\ bankTransfers = {}

CreateEntry(e) ==
  /\ entryIs[e] = "NONE"
  /\ entryIs' = [entryIs EXCEPT ![e] = "OPEN"]
  /\ UNCHANGED <<settlements, rowIs, decisions, bankTransfers>>

SettleEntry(e, cents) ==
  /\ Settled(e, cents, NoRow)
  /\ UNCHANGED <<rowIs, decisions, bankTransfers>>

\* The decision and the row of a settlement that came from the bank stay as they are.
ReverseSettlement(n) ==
  LET e == settlements[n].entry
  IN /\ settlements[n].live
     /\ settlements' = [settlements EXCEPT ![n].live = FALSE]
     /\ entryIs' = [entryIs EXCEPT ![e] =
                      IF @ = "CANCELLED" THEN @ ELSE StatusWith(settlements', e)]
     /\ UNCHANGED <<rowIs, decisions, bankTransfers>>

CancelEntry(e) ==
  /\ Live(e) /\ LiveOf(settlements, e) = {}
  /\ entryIs' = [entryIs EXCEPT ![e] = "CANCELLED"]
  /\ UNCHANGED <<settlements, rowIs, decisions, bankTransfers>>

\* Mutant: a row that a second file lists again is written again.
ImportedAgain(file) == [r \in BankRow |-> IF r \in file THEN "UNMATCHED" ELSE rowIs[r]]

\* INSERT OR IGNORE: a movement whose fingerprint is stored keeps its row.
Imported(file) ==
  [r \in BankRow |-> IF r \in file /\ rowIs[r] = "NONE" THEN "UNMATCHED" ELSE rowIs[r]]

CommitStatement(file) ==
  /\ rowIs' = Imported(file)
  /\ UNCHANGED <<ledger, decisions, bankTransfers>>

Suits(r, e) == EntryKind[e] = (IF Direction[r] = "debit" THEN "PAYABLE" ELSE "RECEIVABLE")

Decided(r, e, accepted, cents, n) ==
  /\ Len(decisions) < MaxDecisions
  /\ decisions' =
       Append(decisions, [row |-> r, entry |-> e, accepted |-> accepted,
                          cents |-> cents, settlement |-> n])

ConfirmMatch(r, e, cents) ==
  /\ rowIs[r] = "UNMATCHED" /\ Suits(r, e) /\ cents <= RowCents[r]
  /\ Settled(e, cents, r)
  /\ Decided(r, e, TRUE, cents, Len(settlements'))
  /\ rowIs' = [rowIs EXCEPT ![r] = "MATCHED"]
  /\ UNCHANGED bankTransfers

\* Only suggestions leave out a pair that was rejected: it may be confirmed later.
RejectMatch(r, e) ==
  /\ rowIs[r] = "UNMATCHED" /\ entryIs[e] # "NONE"
  /\ Decided(r, e, FALSE, 0, 0)
  /\ UNCHANGED <<ledger, rowIs, bankTransfers>>

MayMove(debit, credit) ==
  /\ Direction[debit] = "debit" /\ Direction[credit] = "credit"
  /\ BankAccount[debit] # BankAccount[credit]
  /\ rowIs[debit] = "UNMATCHED" /\ rowIs[credit] = "UNMATCHED"
  /\ RowCents[debit] = RowCents[credit]

\* A transfer of no money breaks a CHECK of its table.
ConfirmTransfer(debit, credit) ==
  /\ MayMove(debit, credit) /\ RowCents[debit] > 0
  /\ bankTransfers' = bankTransfers \cup {<<debit, credit>>}
  /\ rowIs' = [r \in BankRow |-> IF r \in {debit, credit} THEN "TRANSFERRED" ELSE rowIs[r]]
  /\ UNCHANGED <<ledger, decisions>>

FinanceNext ==
  \/ \E e \in Entry : CreateEntry(e) \/ CancelEntry(e)
  \/ \E e \in Entry : \E cents \in 1..EntryCents[e] : SettleEntry(e, cents)
  \/ \E n \in DOMAIN settlements : ReverseSettlement(n)
  \/ \E file \in SUBSET BankRow : CommitStatement(file)
  \/ \E r \in BankRow, e \in Entry : RejectMatch(r, e)
  \/ \E r \in BankRow, e \in Entry : \E cents \in 1..EntryCents[e] : ConfirmMatch(r, e, cents)
  \/ \E debit, credit \in BankRow : ConfirmTransfer(debit, credit)

FinanceSpec == FinanceInit /\ [][FinanceNext]_financeVars

-----------------------------------------------------------------------------
FinanceTypeOK ==
  /\ entryIs \in [Entry -> {"NONE", "OPEN", "PARTIAL", "SETTLED", "CANCELLED"}]
  /\ settlements \in Seq(Settlement)
  /\ rowIs \in [BankRow -> {"NONE", "UNMATCHED", "MATCHED", "TRANSFERRED"}]
  /\ decisions \in Seq(Decision)
  /\ bankTransfers \subseteq BankRow \X BankRow

\* The status of an entry is the one its live settlements call for, they never
\* add up to more than the entry, and a cancelled entry has none.
EntriesAreExplained ==
  \A e \in Entry :
    /\ SettledCents(settlements, e) <= EntryCents[e]
    /\ IF Live(e) THEN entryIs[e] = StatusWith(settlements, e)
       ELSE LiveOf(settlements, e) = {}

Accepted(r) == {i \in DOMAIN decisions : decisions[i].accepted /\ decisions[i].row = r}
InTransfer(r, t) == r = t[1] \/ r = t[2]

\* A movement of the bank is used once: by one accepted match, or by one
\* transfer, and the row says by which.
UsedOnce(r) ==
  /\ \A i, j \in Accepted(r) : i = j
  /\ \A t, u \in bankTransfers : InTransfer(r, t) /\ InTransfer(r, u) => t = u
  /\ rowIs[r] = "MATCHED" <=> Accepted(r) # {}
  /\ rowIs[r] = "TRANSFERRED" <=> \E t \in bankTransfers : InTransfer(r, t)

\* A settlement said to come from the bank is that of one accepted match of that
\* row with that entry, for that money and for no more than the row is of.
Backed(n) ==
  \E i \in Accepted(settlements[n].from) :
    /\ decisions[i].settlement = n
    /\ decisions[i].entry = settlements[n].entry
    /\ decisions[i].cents = settlements[n].cents
    /\ settlements[n].cents <= RowCents[settlements[n].from]

\* The money of a movement is never used twice.
BankMoneyUsedOnce ==
  /\ \A r \in BankRow : UsedOnce(r)
  /\ \A n \in DOMAIN settlements : settlements[n].from # NoRow => Backed(n)

(* Whatever is settled, by hand or from the bank, and reversed or cancelled *)
(* again, with files imported twice, matches confirmed or refused and       *)
(* transfers between accounts: what an entry has paid is explained by its   *)
(* live settlements, and each of those that came from the bank by money     *)
(* nothing else used.                                                       *)
LedgerIsExplained == EntriesAreExplained /\ BankMoneyUsedOnce

=============================================================================
