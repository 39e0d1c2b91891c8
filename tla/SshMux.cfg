CONSTANTS
  Hosts = {h1, h2}
  Attempts = 2
SYMMETRY Symmetry
SPECIFICATION Spec
INVARIANTS
  TypeOK
  SessionsNotice
  ExitLeavesOnlyRaced
PROPERTIES
  RedialSurvives
