\* The options the prover does not use: a buffered input channel.
CONSTANTS
  v1 = v1
  v2 = v2
  v3 = v3
  v4 = v4
  Values <- MCValues
  MaxLength = 1
  InputChanLen = 1
SPECIFICATION MetricsSpec
PROPERTY ImplementsFifo
CHECK_DEADLOCK FALSE
