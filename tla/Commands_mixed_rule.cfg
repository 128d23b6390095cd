\* The rules of a file that is accepted, under either method: two lines are
\* enough.
SPECIFICATION MCSpec
CONSTANTS
  Apps = {"game"}
  Rules <- MCRules
  Tunings <- MCTunings
  MaxLines = 2
  SettingKeys = {"peak", "miui"}
  Threads = {"main", "heavy"}
  UnsetHz = 2147483647
  MaxChildren = 3
  Capacity = 1
  MaxOutput = 1
  MaxFaults = 1
INVARIANT RulesOfTheirKind
CHECK_DEADLOCK FALSE
