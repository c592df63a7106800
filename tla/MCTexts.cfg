\* Every pair of a signed and an arriving request, every header sign writes
\* and every one that differs in a character, every pair of a signed and an
\* arriving proof, and every trust anchor of up to four lines with a second
\* block after it or none.  A behaviour is one of these, then it stops.
SPECIFICATION Spec
CONSTANTS
  GARBLED = GARBLED
  NOT_YET = NOT_YET
  NO_PROOF_YET = NO_PROOF_YET
  UPPERCASE = {"P", "K"}
  DIGIT_VALUE <- DigitValue
  I64_MAX = 21
  Decimal <- DecimalBelow100
  Hyphenated <- WithHyphens
  ParseUuid <- UuidOf
  SIGNATURE_VALIDITY_SECONDS = 20
  ALPHANUMERIC <- Alphanumeric
  GRAPHIC <- Graphic
  PRINTABLE <- Printable
  CHARACTERS <- AnyCharacters
  HEADS <- Heads
  COMPUTED <- Computed
  TIMESTAMPS <- Timestamps
  NONCES <- Nonces
  KEY_IDS <- KeyIds
  SMUDGES <- Smudges
  MIN_NONCE_LENGTH = 16
  MAX_NONCE_LENGTH = 128
  NONCE_BYTES = 24
  LENGTH_SPAN = 4
  FIELDS <- ProofFields
  TEXTS <- FourLines
INVARIANTS OnlyItsOwnVerifies ItsOwnVerifies
INVARIANTS ReadsBack NothingElseParses GeneratedNonceServes
INVARIANTS ProofDetermines UsableOrRefused GenuineTrusted
CHECK_DEADLOCK FALSE
