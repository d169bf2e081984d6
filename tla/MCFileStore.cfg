SPECIFICATION Spec
CONSTANTS
  c1 = c1
  c2 = c2
  c3 = c3
  none = none
  Calls = {c1, c2, c3}
  NoCall = none
  Unsaved = {c1}
  Saved = {c2}
INVARIANTS
  TypeOK
  AcknowledgedIsDurable
  ServesWhatItSaved
PROPERTIES
  FailedStaysOut
  EveryCallEnds
