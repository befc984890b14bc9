SPECIFICATION Spec
CONSTANTS
  r1 = r1
  r2 = r2
  sub = sub
  top = top
  plus = plus
  minus = minus
  Reference = {r1, r2}
  Period = {sub, top}
  Adjustment = {minus}
  Cost <- MCCost
  TrialGrant = 2
  TrialDays = 1
  PeriodKind <- MCKind
  PeriodGrant <- MCGrant
  PeriodPrice <- MCPrice
  PeriodDays = 1
  AdjustmentAmount <- MCAmount
  HoldTime = 1
  DeferTime = 1
  MaxCredit = 3
  Horizon = 1
INVARIANTS HoldsBacked NoCreditMinted ChargesMatchOutcomes  HoldCoversCost
PROPERTIES  DebtOnlyForSpentCredits  SpendsInOrder
