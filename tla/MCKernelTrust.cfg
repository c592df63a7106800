\* Two kernel processes, two messages, and every kind of answer.
SPECIFICATION FairSpec
CONSTANTS
  GARBLED = GARBLED
  NONE = NONE
  KERNEL_SERVICE = "kernel"
  MESSAGES = {"pause", "resume"}
  MAX_EPOCH = 2
INVARIANTS OnlySignedMessages RefetchedIdentityVerifies
PROPERTY UnusableIdentityReplaced
