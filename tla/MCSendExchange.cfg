\* One caller that sends again and signs anew until it knows, two workers that
\* copied the time early, redirects, and a gateway.
SPECIFICATION FairSpec
CONSTANTS
  GARBLED = GARBLED
  NONE = NONE
  I64_MAX = 7
  SIGNATURE_VALIDITY_SECONDS = 1
  CLOCK_SKEW_SECONDS = 0
  WELL_FORMED_NONCES = {"n1"}
  NONCES = {"n1"}
  Methods = {"POST"}
  TargetUris = {"plain", "elsewhere"}
  ContentTypes = {"json"}
  Bodies = {"submit"}
  RequestIds = {"c1"}
  SERVICE = "s"
  CALLERS = {"c1"}
  PURPOSES <- Purposes
  CANONICAL <- Canonical
  ELSEWHERE = "elsewhere"
  WORKERS = {w1, w2}
  MAX_CLOCK = 2
INVARIANTS TypeOK AnswerIsTrue
PROPERTIES ServiceSpec EveryCallSettles
CHECK_DEADLOCK FALSE
