\* Two clocks that drift as far apart as verification tolerates, up to the end
\* of the i64 range, with the parts of a request and its digest alterable.
\* The clocks stop there, so the system does too.
SPECIFICATION Spec
CONSTANTS
  I64_MAX = 7
  SIGNATURE_VALIDITY_SECONDS = 2
  CLOCK_SKEW_SECONDS = 1
  GARBLED = GARBLED
  NONE = NONE
  WELL_FORMED_NONCES = {"n1"}
  NONCES = {"n1"}
  Methods = {"POST", "PUT"}
  TargetUris = {"evaluate", "enroll"}
  ContentTypes = {"json", "text"}
  Bodies = {"submit", "cancel"}
  RequestIds = {"r1"}
  KERNEL_SERVICE = "kernel"
  SERVICE_IDS = {"kernel"}
  CALLS <- OneCall
  ALTERABLE = {"method", "target_uri", "content_type", "body", "content_digest"}
  WORKERS = {w1}
  CLOCK_DRIFT = 1
  MAX_CLOCK = 7
  MAX_EPOCH = 1
  MAX_SENT = 1
INVARIANTS DuplicateWindow InTimeRequestVerifies
PROPERTY DeliverySpec
CHECK_DEADLOCK FALSE
