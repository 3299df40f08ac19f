SPECIFICATION Spec
CONSTANTS
  a = a
  b = b
  Alphabet = {a, b}
  TEXT_SIZE = 7
  MaxPattern = 4
  MaxFile = 9
INVARIANTS TypeOK NeverOvercounts CountsAll
CHECK_DEADLOCK FALSE
