\* Every pair of timestamps around a small i64, at every clock value.  Each
\* behaviour is one call of sign and one of verify_incoming, then it stops.
SPECIFICATION Spec
CONSTANTS
  I64_MAX = 7
  SIGNATURE_VALIDITY_SECONDS = 3
  CLOCK_SKEW_SECONDS = 2
  GARBLED = GARBLED
  NO_ANSWER = NO_ANSWER
  WELL_FORMED_NONCES = {"n1"}
  NONCES = {"n1", "short"}
  Methods = {"POST"}
  TargetUris = {"evaluate"}
  ContentTypes = {"json"}
  Bodies = {"submit"}
  RequestIds = {"r1"}
  SERVICE = "kernel"
  PARTS <- AnyParts
INVARIANTS FreshExactly EndsAgree
CHECK_DEADLOCK FALSE
