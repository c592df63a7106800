\* Two callers that ask for the same thing under request IDs of their own, at
\* the same time or not, and one worker that serves both.
SPECIFICATION Spec
CONSTANTS
  GARBLED = GARBLED
  NONE = NONE
  I64_MAX = 7
  SIGNATURE_VALIDITY_SECONDS = 1
  CLOCK_SKEW_SECONDS = 0
  WELL_FORMED_NONCES = {"n1", "n2"}
  NONCES = {"n1", "n2"}
  Methods = {"POST"}
  TargetUris = {"plain"}
  ContentTypes = {"json"}
  Bodies = {"submit"}
  RequestIds = {"c1", "c2"}
  SERVICE = "s"
  CALLERS = {"c1", "c2"}
  PURPOSES <- Purposes
  CANONICAL <- Canonical
  ELSEWHERE = NONE
  WORKERS = {w1}
  MAX_CLOCK = 1
INVARIANT AnswerIsTrue
CHECK_DEADLOCK FALSE
