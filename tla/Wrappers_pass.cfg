CONSTANTS
  Sizes <- SomeSizes
  Ends <- SomeEnds
  MaxLine = 2
  Room = 2
  MaxBytes = 6
SPECIFICATION Spec
INVARIANTS TypeOK InOrder WrittenInFull ReturnsWhole
PROPERTIES CallEnds WriteEnds
\* The writer stops after MaxBytes bytes, and either end may exit.
CHECK_DEADLOCK FALSE
