\* As the prover makes it: no input buffer, a bounded slice.
CONSTANTS
  v1 = v1
  v2 = v2
  v3 = v3
  v4 = v4
  Values <- MCValues
  MaxLength = 2
  InputChanLen = 0
SPECIFICATION MetricsFairSpec
INVARIANTS
  TypeOK
  SelectMatchesBacklog
  BacklogBounded
  GaugeErrorBounded
PROPERTIES
  ImplementsFifo
  EveryMessageDelivered
CHECK_DEADLOCK FALSE
