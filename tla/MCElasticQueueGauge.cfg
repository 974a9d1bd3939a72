\* The gauge as its help text has it: the length of the queue.
CONSTANTS
  v1 = v1
  v2 = v2
  v3 = v3
  v4 = v4
  Values <- MCValues
  MaxLength = 2
  InputChanLen = 0
SPECIFICATION MetricsSpec
INVARIANT GaugeIsLength
CHECK_DEADLOCK FALSE
