\* Every text of up to three lines.
SPECIFICATION AnchorSpec
CONSTANTS
  GARBLED = GARBLED
  TEXTS <- ThreeLines
INVARIANT FailsClosed
CHECK_DEADLOCK FALSE
