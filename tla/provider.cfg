SPECIFICATION Spec
CONSTANTS
  n1 = n1
  n2 = n2
  Callers = {c1, c2}
  Names = {n1, n2}
  Hosts = {h1, h2}
  NodeWhitelist = {}
  Lower = 1
  Upper = 3
  MaxVMID = 4
  TagConfigured = TRUE
  None = None
  MaxErrors = 1
  MaxCrashes = 1
  MaxUserVMs = 1
SYMMETRY Symmetry
INVARIANTS
  TypeOK
  OneMachinePerName
PROPERTIES
  
  
  FreeVMIDFound
  OneNameView
CHECK_DEADLOCK FALSE
