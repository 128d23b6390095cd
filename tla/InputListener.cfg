\* Reports of panels, keyboards and mice, two fingers and two keys; devices
\* that come and go, with the poll table followed up to PollLimit slots.
SPECIFICATION MCSpec
CONSTANTS
  Paths = {"panel", "pad", "keys", "mouse", "joystick"}
  Features <- MCFeatures
  Removable = {"panel", "keys"}
  Fds = {2, 3, 4, 5, 6, 7}
  PipeFd = 1
  IntMax = 4
  Events = {"press", "swipe", "repeat", "chord", "foreign"}
  MaxHeld = 2
  MaxQueue = 1
  MaxNotices = 2
  PollLimit = 4
INVARIANT TypeOK
INVARIANT ReadersPolled
INVARIANT HotplugHonoured
INVARIANT ButtonsReported
INVARIANT TouchReported
PROPERTY ReportsRead
