SPECIFICATION FairSpec
CONSTANTS
  Token = {t1, t2}
  NoToken = NoToken
  Granted = 2
  MaxAttempts = 2
INVARIANTS OneHold ChargedIffBillable OneConnection
PROPERTIES HoldsSettle SessionsEnd
CHECK_DEADLOCK FALSE
