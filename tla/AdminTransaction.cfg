SPECIFICATION Spec
CONSTANTS
  File = {f1, f2}
  Mutation = {m1, m2}
  Good = {v1, v2}
  Broken = {bad}
  Off = off
  Absent = absent
  MaxEdits = 1
SYMMETRY Symmetric
INVARIANTS AnswerIsTrue
CHECK_DEADLOCK FALSE
