\* Two workers that share the cache while the kernel restarts under them.
\* No request expires, so only identities decide.
SPECIFICATION FairSpec
CONSTANTS
  I64_MAX = 7
  SIGNATURE_VALIDITY_SECONDS = 1
  CLOCK_SKEW_SECONDS = 1
  GARBLED = GARBLED
  NONE = NONE
  WELL_FORMED_NONCES = {"n1"}
  NONCES = {"n1"}
  Methods = {"POST"}
  TargetUris = {"evaluate"}
  ContentTypes = {"json"}
  Bodies = {"submit"}
  RequestIds = {"r1"}
  KERNEL_SERVICE = "kernel"
  SERVICE_IDS = {"kernel"}
  CALLS <- OneCall
  ALTERABLE = {}
  WORKERS = {w1, w2}
  CLOCK_DRIFT = 1
  MAX_CLOCK = 1
  MAX_EPOCH = 2
  MAX_SENT = 1
INVARIANT RefetchSuffices
PROPERTIES CacheCatchesUp RestartSurvived
