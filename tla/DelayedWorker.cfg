\* Two slots, two works, clock 0..4.
SPECIFICATION Spec
CONSTANTS
  Handles = {0, 1}
  Works = {w1, w2}
  NoWork = NoWork
  Horizon = 4
INVARIANT TypeOK
INVARIANT TimerCoversEarliest
PROPERTY DrainsWhenQuiet
PROPERTY ImplementsTimedSlots
