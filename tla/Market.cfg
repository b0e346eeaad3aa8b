CONSTANTS
  TradePrices = {1, 2}
  Intervals = {2, 4}
  MaxMinutes = 4
  MaxCalls = 4
  MaxUnpaired = 2
  MaxLost = 1
SPECIFICATION MarketSpec
INVARIANTS OneRecorder LongerRecordsRight
PROPERTY RecorderStops
CHECK_DEADLOCK FALSE
