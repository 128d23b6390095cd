\* A press against the timeout that is already running.
SPECIFICATION MCSafeSpec
CONSTANTS
  Sources = {touch}
  Apps <- MCApps
  Rules <- MCRules
  Universal <- MCUniversal
  Offscreen <- MCOffscreen
  UnsetHz = 0
  LowSamples = {}
  Events = {"press"}
  Instances = {{"press"}}
INVARIANT PressedRate
