SPECIFICATION Spec
CONSTANTS
  Calls = {c1, c2}
  Sids = {s1, s2}
  Channels = {ch1}
  MaxWrites = 3
  None = None
SYMMETRY Symmetry
VIEW View
INVARIANTS
  InStep
  SavedKeepsMode
CHECK_DEADLOCK FALSE
