SPECIFICATION RateSpec
CONSTANTS
  Sources = {i1, i2}
  DeviceKeys = {}
  Owners = {}
  Routes = {"session"}
  RegistrationBudget = 1
  SessionBudget = 2
  Fuse = 3
  CountCap = 2
  MaxMinute = 1
  MaxVerified = 0
INVARIANTS
  AdmittedWithinFuse
CHECK_DEADLOCK FALSE
