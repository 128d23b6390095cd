\* Jitter at the threshold, the screen at the boundary of its test; a list
\* that is cut short may be empty or that of another app.
SPECIFICATION Spec
CONSTANTS
  Apps = {"game", "home"}
  Tasks <- MCTasks
  Jitter = 10
  Screens = {10, 11}
  Cut = {0, 11}
  NoApp = ""
  Written = {"fg"}
INVARIANT TypeOK
INVARIANT ChangesNoticed
INVARIANT AppAnnounced
INVARIANT OffscreenKnown
PROPERTY AppSettles
CHECK_DEADLOCK FALSE
