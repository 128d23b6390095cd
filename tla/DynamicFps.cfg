\* Every writer of overridedApp_ and curApp_; presses from two sources.
SPECIFICATION MCSafeSpec
CONSTANTS
  Sources = {touch, btn}
  Apps <- MCApps
  Rules <- MCRules
  Universal <- MCUniversal
  Offscreen <- MCOffscreen
  UnsetHz = 0
  LowSamples = {TRUE, FALSE}
  Events = {"press", "gesture", "screenOff", "screenOn", "topapp"}
  Instances = {{"gesture", "screenOff", "screenOn", "topapp"}, {"press", "gesture"}}
INVARIANT TypeOK
INVARIANT TimeoutsWithdrawn
INVARIANT ActiveJustified
INVARIANT GestureOverrideJustified
INVARIANT OffscreenOverrideJustified
INVARIANT SettledRule
INVARIANT SettledRate
PROPERTY UsesWorkMailbox
