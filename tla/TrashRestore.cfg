CONSTANTS
  Person = {p1, p2}
  Doc = {d1}
SPECIFICATION FilesSpec
PROPERTY RestoreServed
CHECK_DEADLOCK FALSE
