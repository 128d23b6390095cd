\* Files of up to four lines; two settings, three processes, two threads.
SPECIFICATION MCSpec
CONSTANTS
  Apps = {"game"}
  Rules <- MCRules
  Tunings <- MCTunings
  MaxLines = 4
  SettingKeys = {"peak", "miui"}
  Threads = {"main", "heavy"}
  UnsetHz = 2147483647
  MaxChildren = 3
  Capacity = 1
  MaxOutput = 1
  MaxFaults = 1
INVARIANT ConfigAsWritten
INVARIANT RatesOfTheirKind
INVARIANT RateInForce
PROPERTY CommandsReturn
PROPERTY ThreadsReleased
CHECK_DEADLOCK FALSE
