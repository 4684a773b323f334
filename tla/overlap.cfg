\* Two overlapping ticks.
CONSTANTS
  Contents = {c1}
  MaxEvents = 2
  Batch = 2
  Sealers = {t1, t2}
  NoRecord = NoRecord
SPECIFICATION ChainSpec
INVARIANTS ChainVerifies
