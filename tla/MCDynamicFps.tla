---------------------------- MODULE MCDynamicFps ----------------------------
(* Rates that tell the rules and the two halves of each rule apart, and    *)
(* behaviours that keep to one set of events each: all events together are *)
(* more states than a run can visit.                                       *)
EXTENDS DynamicFps

CONSTANT Instances   \* sets of events, one of which happens

MCApps == {"game", "home"}
MCRules == [a \in {"game"} |-> [idle |-> 48, active |-> 90]]
MCUniversal == [idle |-> 60, active |-> 120]
MCOffscreen == [idle |-> 30, active |-> 40]

VARIABLE happening

(* The samples of the brightness go with the presses.                      *)
Withheld ==
  /\ "press" \notin happening => job'["input"] # "OnInput" /\ UNCHANGED lowBrightness
  /\ "gesture" \notin happening => job'["input"] # "OnInputScene"
  /\ "screenOff" \notin happening => job'["timer"] # "OnOffscreen"
  /\ "topapp" \notin happening => box'["topapp"] = "none"

MCInit == Init /\ happening \in Instances
MCNext == Next /\ Withheld /\ UNCHANGED happening

MCSafeSpec == MCInit /\ [][MCNext]_<<vars, happening>>
MCSpec     == MCSafeSpec /\ Fairness
=============================================================================
