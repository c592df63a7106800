\* Two kernel processes with two signed calls each; every field changes in
\* transit, alone or with the others, to any value this run gives it.
SPECIFICATION Spec
CONSTANTS
  I64_MAX = 4
  SIGNATURE_VALIDITY_SECONDS = 1
  CLOCK_SKEW_SECONDS = 1
  GARBLED = GARBLED
  NONE = NONE
  WELL_FORMED_NONCES = {"n1"}
  NONCES = {"n1", "short"}
  Methods = {"POST"}
  TargetUris = {"evaluate"}
  ContentTypes = {"json"}
  Bodies = {"submit", "cancel"}
  RequestIds = {"r1", "r2"}
  KERNEL_SERVICE = "kernel"
  SERVICE_IDS = {"kernel", "billing"}
  CALLS <- TwoCalls
  ALTERABLE <- AllFields
  WORKERS = {w1}
  CLOCK_DRIFT = 0
  MAX_CLOCK = 0
  MAX_EPOCH = 2
  MAX_SENT = 2
INVARIANTS TypeOK Authentic
