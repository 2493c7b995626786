CONSTANTS
  Kib = 8
  Kilo = 7
  U64Max = 4194303
  Mantissa = 14
  Slack = 128
  Tenths = 2
  Hundredths = 3
  TenThousandths = 16
  Integers4 <- MCIntegers
  Quarters <- MCQuarters
SPECIFICATION Spec
INVARIANTS
  AcceptedAsWritten
  FractionIsInteger
  ShownIsClose
CHECK_DEADLOCK FALSE
