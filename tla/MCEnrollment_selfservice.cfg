\* A pod with nothing in its environment obtains a challenge by itself.
SPECIFICATION Spec
CONSTANTS
  GARBLED = GARBLED
  EMPTY = EMPTY
  SHORT = SHORT
  NONE = NONE
  HTTPS_TEXTS = {"https://worker.test"}
  SERVICE = "billing"
  OTHER_SERVICE = "kernel"
  PODS = 1
  SETTINGS <- InOrder
  INJECTED = {}
  ALTERABLE = {}
  MAX_FAULTS = 0
INVARIANT ChallengesComeFromOperators
CHECK_DEADLOCK FALSE
