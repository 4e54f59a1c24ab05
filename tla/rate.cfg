SPECIFICATION Spec
CONSTANTS
  Precision = 2
  Characters = {"0", "1", "9", ".", "-", " "}
  MaxLength = 6
INVARIANTS
  AcceptsExactValues
  CanonicalText
CHECK_DEADLOCK FALSE
