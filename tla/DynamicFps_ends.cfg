\* Gestures and the screen, or presses, with fairness.  No property here speaks
\* of rates, so the two rules may share theirs.
SPECIFICATION MCSpec
CONSTANTS
  Sources = {touch, btn}
  Apps <- MCApps
  Rules <- MCRules
  Universal <- MCUniversal
  Offscreen <- MCUniversal
  UnsetHz = 0
  LowSamples = {}
  Events = {"press", "gesture", "screenOff", "screenOn"}
  Instances = {{"gesture", "screenOff", "screenOn"}, {"press"}}
PROPERTY OverridesEnd
PROPERTY BecomesInactive
