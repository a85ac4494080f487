SPECIFICATION RingSpec
CONSTANTS
  Size = 8
  MaxLength = 8
  MaxPushed = 16
INVARIANTS NoDataRace RingInv
PROPERTIES ImplementsPipe
CHECK_DEADLOCK FALSE
