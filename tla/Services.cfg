\* Faults and ends of the process at every step of a restore; repeated requests
\* around a restart; a printer that answers late; three returns of a sale of
\* three lines; two transfers and an order received in two parts; two entries and
\* three movements of the bank; rules over the ends of seven months; a setup asked
\* for twice; a queue of two events that gets three; a sale of two products whose
\* prices, tier and combos change; two sessions of a cashier who gets one approval
\* for two returns.
SPECIFICATION MCSpec
CONSTANTS
  Retention = 1
  MaxBackups = 4
  MaxWrites = 2
  MaxFaults = 2
  Behind = Behind
  NoFile = NoFile
  NoMarker = NoMarker
  Attempt = {a1, a2, a3}
  Mutation = {m1, m2}
  MaxRestarts = 1
  MaxFailures = 1
  NoMutation = NoMutation
  MaxJobs = 3
  MaxRetries = 1
  MaxStops = 1
  NoJob = NoJob
  Lines = 3
  Basket <- MCBaskets
  Discount = {0, 3}
  Rate = 50
  MaxReturns = 3
  MaxParts = 2
  NewCents = {7}
  MaxRewrites = 1
  Location = {main, back}
  Transfer = {t1, t2}
  Purchase = {p1}
  Receipt = {k1, k2}
  MaxUnits = 2
  MaxSold = 1
  OpeningStock <- MCOpening
  NoPlace = NoPlace
  NoPurchase = NoPurchase
  pay = pay
  debit1 = debit1
  t1 = t1
  t2 = t2
  plain1 = plain1
  plain2 = plain2
  Entry = {pay, receive}
  EntryKind <- MCKind
  EntryCents <- MCCents
  BankRow = {debit1, credit1, credit2}
  Direction <- MCDirection
  BankAccount <- MCAccount
  RowCents <- MCRowCents
  NoRow = NoRow
  MaxSettlements = 2
  MaxDecisions = 2
  MonthLength <- MCMonthLength
  StartDate = {115, 131}
  DueDay = {10, 15, 30, 31}
  Interval = {1, 2}
  MaxOccurrences = {1, 3}
  NoLimit = NoLimit
  LastDate = {328, 430, 699}
  MaxCuts = 2
  User = {u1, u2, u3}
  NoUser = NoUser
  Administrator = Administrator
  Profile = {staff}
  MaxSetups = 2
  MaxFaultyBinds = 1
  Event = {fail1, plain1, plain2}
  ErrorEvent = {fail1}
  MaxPending = 2
  BatchSize = 2
  MaxFlushes = 2
  MaxWithdrawals = 1
  MaxPurges = 1
  Items = 2
  MaxPieces = 3
  Prices = {3, 4}
  Discounts = {0, 2}
  TierFrom = 3
  TierCents = 3
  Rules = 2
  Combo <- MCCombo
  NotListed = NotListed
  MaxRevisions = 1
  MaxInterrupts = 1
  cashier = cashier
  s1 = s1
  s2 = s2
  r1 = r1
  r2 = r2
  LoginSession = {s1, s2}
  SessionUser <- MCSessionUser
  Approver = {manager}
  ApprovalToken = {token}
  ReturnRequest = {r1, r2}
  sale1 = sale1
  sale2 = sale2
  SoldSale = {sale1, sale2}
  SoldPieces = 2
  NoApproval = NoApproval
  NoBody = NoBody
  MaxWaiting = 1
  MaxUpsets = 1
INVARIANTS
  RetriesAreSafe
  PapersAreExplained
  ReturnsAreExact
  PiecesAreKept
  LedgerIsExplained
  OccurrencesAreExact
  AdministratorIsKept
  EventsAreAccountedFor
  PaidAsPriced
  ApprovalsAreSpent
PROPERTIES
  OpensLeftOrAsked
  ReceiptsAreTried
CHECK_DEADLOCK FALSE
