SPECIFICATION RateSpec
CONSTANTS
  Sources = {i1, i2}
  DeviceKeys = {}
  Owners = {}
  Routes = {"registration", "session"}
  RegistrationBudget = 1
  SessionBudget = 2
  Fuse = 2
  CountCap = 3
  MaxMinute = 1
  MaxVerified = 0
INVARIANTS
  NoSourceTripsAlone
CHECK_DEADLOCK FALSE
