SPECIFICATION Spec
CONSTANTS
  c1 = c1
  c2 = c2
  c3 = c3
  none = none
  Calls = {c1, c2}
  NoCall = none
  Unsaved = {}
  Saved = {}
INVARIANT
  FailedIsNeverServed
