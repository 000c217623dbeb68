SPECIFICATION HealthSpec
CONSTANTS
  GapWindow = 2
  RecoveryWindow = 4
  Interval = 2
  Never = never
  MaxTime = 8
INVARIANTS HealthTypeOK HealthyIsQuiet
