SPECIFICATION Spec
CONSTANTS
  Workers = {w1, w2}
  Clients = {c1, c2}
  MaxEntries = 1
SYMMETRY Symmetry
CHECK_DEADLOCK FALSE
INVARIANTS
  ReadsAreEffective
  ForcedStopsAgree
  FinalStaysFinal
  FinalMeansOver
