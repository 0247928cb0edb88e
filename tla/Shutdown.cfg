SPECIFICATION Spec
CHECK_DEADLOCK FALSE
CONSTANTS
  Worker = {w1, w2}
  Timeout = 2
  MaxTx = 2
INVARIANTS TypeOK SendsSucceed 
PROPERTIES SignalEnds
