\* One kernel process that never restarts, and no change in transit: a
\* verification fails all the same, because the request came too late.
SPECIFICATION Spec
CONSTANTS
  I64_MAX = 7
  SIGNATURE_VALIDITY_SECONDS = 2
  CLOCK_SKEW_SECONDS = 1
  GARBLED = GARBLED
  NONE = NONE
  WELL_FORMED_NONCES = {"n1"}
  NONCES = {"n1"}
  Methods = {"POST"}
  TargetUris = {"evaluate"}
  ContentTypes = {"json"}
  Bodies = {"submit"}
  RequestIds = {"r1"}
  KERNEL_SERVICE = "kernel"
  SERVICE_IDS = {"kernel"}
  CALLS <- OneCall
  ALTERABLE = {}
  WORKERS = {w1}
  CLOCK_DRIFT = 1
  MAX_CLOCK = 4
  MAX_EPOCH = 1
  MAX_SENT = 1
INVARIANT FailureMeansRotation
