\* The screen goes off again before the wakeup timeout.
SPECIFICATION MCSafeSpec
CONSTANTS
  Sources = {touch}
  Apps <- MCApps
  Rules <- MCRules
  Universal <- MCUniversal
  Offscreen <- MCOffscreen
  UnsetHz = 0
  LowSamples = {}
  Events = {"screenOff", "screenOn"}
  Instances = {{"screenOff", "screenOn"}}
INVARIANT OffscreenRate
