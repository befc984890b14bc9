SPECIFICATION RowSpec
CONSTANTS
  r1 = r1
  r2 = r2
  paid = paid
  minus = minus
  plus = plus
  t1 = t1
  t2 = t2
  Tx = {t1, t2}
  Nobody = Nobody
  Reference = {r1, r2}
  Period = {paid}
  Adjustment = {minus, plus}
  Cost <- MCCost
  TrialGrant = 1
  TrialDays = 1
  PeriodKind <- MCKind
  PeriodGrant <- MCGrant
  PeriodPrice <- MCPrice
  PeriodDays = 1
  AdjustmentAmount <- MCAmount
  HoldTime = 1
  DeferTime = 1
  MaxCredit = 2
  Horizon = 1
SYMMETRY Sessions
INVARIANTS AccountStaysSound
PROPERTIES RowsAreTransactions
