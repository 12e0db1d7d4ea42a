SPECIFICATION FairSpec
CONSTANTS
  a = a
  b = b
  c = c
  A = A
  B = B
  Job = {a, b, c}
  Lane = {A, B}
  LaneOf <- MCLaneOf
  Acquires = {a}
  Class <- MCClass
  Need <- MCNeed
  Slots = 2
  Memory <- MCMemory
  MaxBeats = 1
  Arrivals <- MCArrivals
  MaxFaults = 1
  MaxTroubles = 1
  Env = {"crash","slow","giveup"}
  NoJob = NoJob
INVARIANTS OneSlotPerLane CommandHasSlot
PROPERTIES HeavyCap ReclaimsAbandoned NoOvertaking EveryWaiterServed
CHECK_DEADLOCK FALSE
