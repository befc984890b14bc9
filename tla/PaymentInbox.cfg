SPECIFICATION FairSpec
CONSTANTS
  h1 = h1
  h2 = h2
  beat = beat
  first = first
  next = next
  half = half
  cancel = cancel
  Handler = {h1}
  Reconciler = beat
  First = first
  Renewal = {next}
  Refund = {half}
  Cancellation = {}
  RefundOf <- MCRefundOf
  Units = 2
  MaxFaults = 1
INVARIANTS  ProcessedTookEffect
PROPERTIES AllTakeEffect
