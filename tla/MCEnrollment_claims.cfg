\* Two pods, one with a challenge in its environment, any one field of a
\* submission changed in transit, replies lost and damaged, processes
\* restarting.  It stops when every pod is enrolled and no fault is left.
SPECIFICATION FairSpec
CONSTANTS
  GARBLED = GARBLED
  EMPTY = EMPTY
  SHORT = SHORT
  NONE = NONE
  HTTPS_TEXTS = {"https://worker.test"}
  SERVICE = "billing"
  OTHER_SERVICE = "kernel"
  PODS = 2
  SETTINGS <- InOrderOrNot
  INJECTED = {1}
  ALTERABLE <- SubmissionFields
  MAX_FAULTS = 2
INVARIANTS TypeOK OkMeansRegistered RejectionIsConclusive
PROPERTIES RegistrationSpec EveryPodEnrolls
CHECK_DEADLOCK FALSE
